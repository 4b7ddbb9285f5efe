------------------------------- MODULE MCWords -------------------------------
(* What words become: every pattern of a few parts on every value of a few    *)
(* characters, and every word of a few segments on a small tree of files. A   *)
(* behaviour grows one of them; where the code does something else than was   *)
(* meant, an operator names the cause, which the README shows an example of.  *)
EXTENDS Pathnames, Braces

VARIABLE subject   \* what a behaviour of the modules about words grows, step by step

Nothing == [is |-> "nothing"]

-----------------------------------------------------------------------------
(* What a pattern means, by its parts: the words each part stands for, how it *)
(* is written, and what the expansions should make of a value.                *)

Star == [is |-> "any"]
One == [is |-> "one"]
Char(c) == [is |-> "char", c |-> c, quoted |-> FALSE]
Quoted(c) == [is |-> "char", c |-> c, quoted |-> TRUE]
\* range: members are the two ends of a range.
Class(negated, members, range) == [is |-> "class", negated |-> negated, members |-> members, range |-> range]
GroupOf(sign, alternatives) == [is |-> "group", sign |-> sign, alternatives |-> alternatives]

ItemText(item, alternatives) ==
  CASE item.is = "any" -> <<"*">>
    [] item.is = "one" -> <<"?">>
    [] item.is = "char" -> IF item.quoted THEN <<"\\", item.c>> ELSE <<item.c>>
    [] item.is = "class" ->
         <<"[">> \o (IF item.negated THEN <<"!">> ELSE << >>)
           \o (IF item.range THEN <<item.members[1], "-", item.members[2]>> ELSE item.members) \o <<"]">>
    [] item.is = "group" ->
         <<item.sign, "(">> \o FlattenSeq([k \in DOMAIN alternatives |->
           (IF k = 1 THEN << >> ELSE <<"|">>) \o alternatives[k]]) \o <<")">>
RECURSIVE WrittenPattern(_)
WrittenPattern(items) ==
  FlattenSeq([k \in DOMAIN items |->
    ItemText(items[k], IF items[k].is = "group"
                       THEN [j \in DOMAIN items[k].alternatives |-> WrittenPattern(items[k].alternatives[j])]
                       ELSE << >>)])

\* The words a pattern stands for, and those an item does.
InClass(item, c, nocase) ==
  (IF item.range THEN Between(item.members[1], c, item.members[2], nocase)
   ELSE \E m \in ToSet(item.members) : CharsMatch(m, c, nocase)) # item.negated

RECURSIVE Means(_, _, _)
MeansOne(item, word, nocase) ==
  Len(word) = 1 /\ CASE item.is = "one" -> TRUE
                     [] item.is = "char" -> CharsMatch(item.c, word[1], nocase)
                     [] item.is = "class" -> InClass(item, word[1], nocase)
RECURSIVE MeansSome(_, _, _, _)
\* A word of one piece or more, each meant by an alternative.
MeansSome(alternatives, word, nocase, whole) ==
  \E k \in (IF word = << >> THEN {0} ELSE 1..Len(word)) :
    /\ \E a \in ToSet(alternatives) : Means(a, To(word, k), nocase)
    /\ k = Len(word) \/ (~whole /\ MeansSome(alternatives, From(word, k + 1), nocase, whole))
MeansGroup(item, word, nocase) ==
  CASE item.sign = "@" -> MeansSome(item.alternatives, word, nocase, TRUE)
    [] item.sign = "?" -> word = << >> \/ MeansSome(item.alternatives, word, nocase, TRUE)
    [] item.sign = "*" -> word = << >> \/ MeansSome(item.alternatives, word, nocase, FALSE)
    [] item.sign = "+" -> MeansSome(item.alternatives, word, nocase, FALSE)
    [] item.sign = "!" -> ~MeansSome(item.alternatives, word, nocase, TRUE)
MeansItem(item, word, nocase) ==
  CASE item.is = "any" -> TRUE
    [] item.is = "group" -> MeansGroup(item, word, nocase)
    [] OTHER -> MeansOne(item, word, nocase)
Means(items, word, nocase) ==
  IF items = << >> THEN word = << >>
  ELSE \E k \in 0..Len(word) :
         MeansItem(items[1], To(word, k), nocase) /\ Means(Tail(items), From(word, k + 1), nocase)

-----------------------------------------------------------------------------
(* What the expansions promise.                                               *)

\* The shortest or longest beginning or end is taken off.
RemovalIsRight(items, value, operator, result) ==
  LET begins == {k \in 0..Len(value) : Means(items, To(value, k), FALSE)}
      ends == {k \in 0..Len(value) : Means(items, From(value, k + 1), FALSE)}
  IN  CASE operator = "#" /\ begins # {} -> result = From(value, Least(begins) + 1)
        [] operator = "##" /\ begins # {} -> result = From(value, Greatest(begins) + 1)
        [] operator = "%" /\ ends # {} -> result = To(value, Greatest(ends))
        [] operator = "%%" /\ ends # {} -> result = To(value, Least(ends))
        [] OTHER -> result = value

\* From left to right the longest piece at each place is replaced, once or
\* wherever the next begins after it.
RECURSIVE Substituted(_, _, _, _, _)
Substituted(items, value, replacement, global, nocase) ==
  LET matches == {m \in (0..Len(value)) \X (0..Len(value)) :
                    m[1] < m[2] /\ Means(items, SubSeq(value, m[1] + 1, m[2]), nocase)}
      first == {m \in matches : \A o \in matches : m[1] <= o[1]}
      m == CHOOSE n \in first : \A o \in first : o[2] <= n[2]
      rest == From(value, m[2] + 1)
  IN  IF matches = {} THEN value
      ELSE To(value, m[1]) \o Amp(SubSeq(value, m[1] + 1, m[2]), replacement)
             \o (IF global THEN Substituted(items, rest, replacement, global, nocase) ELSE rest)

-----------------------------------------------------------------------------
(* A word of brace expansion by its parts: how it is written, and the words   *)
(* it should become, part by part and in order. A range is given with the     *)
(* words it stands for.                                                       *)

Literal(text) == [is |-> "text", text |-> text]
Choice(words) == [is |-> "choice", words |-> words]
RangeOf(text, items) == [is |-> "range", text |-> text, items |-> items]
InBraces(word) == [is |-> "single", words |-> <<word>>]

InnerWords(part) == IF part.is \in {"choice", "single"} THEN part.words ELSE << >>
RECURSIVE BraceText(_)
PartText(part, texts) ==
  CASE part.is = "text" -> part.text
    [] part.is = "range" -> <<"{">> \o part.text \o <<"}">>
    [] OTHER -> <<"{">> \o FlattenSeq([k \in DOMAIN texts |-> (IF k = 1 THEN << >> ELSE <<",">>) \o texts[k]]) \o <<"}">>
BraceText(word) ==
  FlattenSeq([k \in DOMAIN word |->
    PartText(word[k], [j \in DOMAIN InnerWords(word[k]) |-> BraceText(InnerWords(word[k])[j])])])

\* Each word of the one before each word of the other.
Times(before, after) ==
  FlattenSeq([k \in DOMAIN before |-> [m \in DOMAIN after |-> before[k] \o after[m]]])
RECURSIVE BraceWords(_)
PartWords(part, inner) ==
  CASE part.is = "text" -> <<part.text>>
    [] part.is = "range" -> part.items
    [] part.is = "choice" -> FlattenSeq(inner)
    [] part.is = "single" -> [k \in DOMAIN inner[1] |-> <<"{">> \o inner[1][k] \o <<"}">>]
BraceWords(word) ==
  IF word = << >> THEN << << >> >>
  ELSE Times(PartWords(word[1], [j \in DOMAIN InnerWords(word[1]) |-> BraceWords(InnerWords(word[1])[j])]),
             BraceWords(Tail(word)))

\* All parts of a word, and the words within it.
RECURSIVE PartsOf(_)
PartsOf(word) == ToSet(word) \cup UNION {UNION {PartsOf(x) : x \in ToSet(InnerWords(p))} : p \in ToSet(word)}
WordsWithin(word) == UNION {ToSet(InnerWords(p)) : p \in PartsOf(word)}
IsBraced(part) == part.is # "text"

-----------------------------------------------------------------------------
(* Patterns                                                                   *)

MCAlphabet == <<"A", "B", "Z", "a", "b">>
ItemA == Char("a")
ItemB == Char("b")
MCItems ==
  {Star, One, ItemA, ItemB, Char("A"), Char("]"), Char("#"), Quoted("*"),
   Class(TRUE, <<"a">>, FALSE), Class(FALSE, <<"]", "a">>, FALSE), Class(FALSE, <<"a", "*">>, FALSE),
   Class(FALSE, <<"a", "b">>, TRUE)}
MCLastItems == {Star, ItemA, Char("["), Class(TRUE, <<"]", "a">>, FALSE)}
MCAlternatives ==
  {<<ItemA>>, <<ItemA, ItemB>>, <<Star>>, << >>, <<Class(FALSE, <<"]", "a">>, FALSE)>>, <<Quoted("|")>>,
   <<GroupOf("@", <<<<ItemA>>, <<ItemB>>>>), ItemB>>}
MCGroups ==
  {GroupOf(sign, x) : sign \in GroupSigns,
                      x \in {<<y>> : y \in MCAlternatives} \cup {<<y, z>> : y \in MCAlternatives, z \in MCAlternatives}}
MCValues ==
  UNION {[1..n -> {"a", "b", "]"}] : n \in 0..2}
    \cup {<<"a", "b", "a">>, <<"a", "a", "b">>, <<"*">>, <<"|">>, <<"A", "b">>, <<"#", "a">>, <<"[">>}

PatternInit == subject \in {[is |-> "pattern", items |-> << >>], [is |-> "extended", items |-> << >>]}
AddItem ==
  /\ subject.is = "pattern" /\ Len(subject.items) < 3
  /\ \E i \in IF Len(subject.items) = 2 THEN MCLastItems ELSE MCItems :
       subject' = [subject EXCEPT !.items = Append(@, i)]
AddGroup ==
  /\ subject.is = "extended" /\ subject.items = << >>
  /\ \E g \in MCGroups : subject' = [subject EXCEPT !.items = <<g>>]
AfterGroup ==
  /\ subject.is = "extended" /\ Len(subject.items) = 1
  /\ \E i \in {Star, ItemA, ItemB} : subject' = [subject EXCEPT !.items = Append(@, i)]

ThePattern == WrittenPattern(subject.items)

\* A quoted or bracketed | or parenthesis divides or ends a group.
RECURSIVE GroupsIn(_)
GroupsIn(items) ==
  UNION {{g} \cup UNION {GroupsIn(x) : x \in ToSet(g.alternatives)} : g \in {i \in ToSet(items) : i.is = "group"}}
HidesBar(i) == i.is = "char" /\ i.quoted /\ i.c = "|"
BarWithin == \E g \in GroupsIn(subject.items) : \E x \in ToSet(g.alternatives) : \E i \in ToSet(x) : HidesBar(i)
\* An alternative of @() or +() that stands for the empty word takes none.
EmptyTaken ==
  \E g \in GroupsIn(subject.items) : g.sign \in {"@", "+"} /\ \E x \in ToSet(g.alternatives) : Means(x, << >>, FALSE)
\* The empty alternative at the end of !(a|) is dropped.
EmptyLast == \E g \in GroupsIn(subject.items) : g.sign = "!" /\ Last(g.alternatives) = << >>

\* The letters after the last star are looked for in their own case, and the
\* case matters to # and % whatever nocasematch says.
CaseInTail(p, nocase) ==
  LET stars == {k \in DOMAIN p : p[k] = "*"}
  IN  nocase /\ stars # {} /\ \E k \in (Greatest(stars) + 1)..Len(p) : p[k] \in ToSet(Alphabet)
\* ${v//[!a][b]/}: all between the first [! and the last ] is one bracket.
FilterTaken(p, items, replacement, global) == global /\ replacement = << >> /\ IsFilter(p) /\ Len(items) > 1

\* A pattern matches the words it stands for and no others: what the matcher
\* goes back to after a star, where a bracket ends and what is quoted are as
\* written, for the plain matcher and for the one of extended patterns. # and %
\* take off the shortest or longest part of that kind; / replaces from left to
\* right the longest, each once, the shortcuts for literal tails, bounds and
\* filters not changing what is found.
PlainMatch == \A w \in MCValues, nocase \in BOOLEAN : Matches(ThePattern, w, nocase) = Means(subject.items, w, nocase)
ExtendedMatch ==
  BarWithin \/ EmptyTaken \/ EmptyLast \/
    \A w \in MCValues : ExtMatches(ThePattern, w, FALSE) = Means(subject.items, w, FALSE)
RemovedAsMeant ==
  \A w \in MCValues, operator \in {"#", "##", "%", "%%"} :
    RemovalIsRight(subject.items, w, operator, Removed(w, ThePattern, operator))
ReplacedAsMeant ==
  \A w \in MCValues \ {<< >>}, replacement \in {<< >>, <<"&", "b">>}, global \in BOOLEAN, nocase \in BOOLEAN :
    \/ ~global /\ CharAt(ThePattern, 1) = "#"
    \/ CaseInTail(ThePattern, nocase) \/ FilterTaken(ThePattern, subject.items, replacement, global)
    \/ Replaced(w, ThePattern, replacement, global, nocase) = Substituted(subject.items, w, replacement, global, nocase)
PatternsMatch ==
  /\ subject.is = "pattern" => PlainMatch /\ RemovedAsMeant /\ (subject.items # << >> => ReplacedAsMeant)
  /\ subject.is = "extended" => ExtendedMatch

-----------------------------------------------------------------------------
(* Pathnames                                                                  *)

nA == <<"a">>
nB == <<"b">>
nAB == <<"a", "b">>
nHidden == <<".", "a">>
\* ab is a link to a; .a and a/.a are hidden, a/b/a is two below.
MCDirectories == {<<nA>>, <<nA, nB>>, <<nHidden>>, <<nAB>>, <<nAB, nB>>}
MCLinks == {<<nAB>>}
MCFiles ==
  MCDirectories \cup {<<nA, nA>>, <<nA, nB, nA>>, <<nA, nHidden>>, <<nB>>, <<nHidden, nA>>, <<nAB, nA>>, <<nAB, nB, nA>>}
MCSegments == {<<"*">>, <<"*", "*">>, <<"a">>, <<".", "*">>, <<"a", "*">>, <<"b">>, <<"*", "b">>, <<".", "a">>}

PathnameInit ==
  \E dotglob \in BOOLEAN, globstar \in BOOLEAN, ignore \in {"unset", "null", "set"} :
    subject = [is |-> "pathname", segments |-> << >>, slash |-> FALSE,
               o |-> [dotglob |-> dotglob, globskipdots |-> FALSE, globstar |-> globstar,
                      ignore |-> ignore, ignored |-> {nA}]]
AddSegment ==
  /\ subject.is = "pathname" /\ Len(subject.segments) < 3 /\ ~subject.slash
  /\ \E segment \in MCSegments, slash \in BOOLEAN :
       subject' = [subject EXCEPT !.segments = Append(@, segment), !.slash = slash]

UsesGlobstar == subject.o.globstar /\ Stars(subject.segments) # {}
TheSegments == Collapsed(subject.segments)
AfterStar == From(TheSegments, Least(Stars(TheSegments)) + 1)
BeforeStar == To(TheSegments, Least(Stars(TheSegments)) - 1)
IsOneGlobstar ==
  UsesGlobstar /\ Cardinality(Stars(TheSegments)) = 1
    /\ (AfterStar = << >> \/ (Len(AfterStar) = 1 /\ ~subject.slash))

\* */ without globstar finds files too.
SlashForgotten == subject.slash /\ ~UsesGlobstar
\* */** : what is before the one ** is a name, not a pattern; nosuch/** finds
\* nosuch/; a/**/ leaves out a/.
PatternIsName == IsOneGlobstar /\ \E k \in DOMAIN BeforeStar : HasPattern(BeforeStar[k])
BaseNotThere == IsOneGlobstar /\ BeforeStar # << >> /\ ~IsDirectory(BeforeStar)
BaseLeftOut == IsOneGlobstar /\ BeforeStar # << >> /\ AfterStar = << >> /\ subject.slash
\* An empty GLOBIGNORE shows hidden names, not to the walks of globstar.
NullIgnoreForgotten == UsesGlobstar /\ subject.o.ignore = "null" /\ ~subject.o.dotglob
\* **/.* goes through hidden directories; **/.*/** does not find hidden names.
HiddenWalked(path) ==
  IsOneGlobstar /\ ~subject.o.dotglob /\ CharAt(Last(TheSegments), 1) = "."
    /\ \E k \in 1..(Len(path) - 1) : IsHidden(path[k])
HiddenNotFound(path) ==
  UsesGlobstar /\ ~IsOneGlobstar /\ ~subject.o.dotglob /\ \E k \in DOMAIN path : IsHidden(path[k])
\* With two ** a link is not gone through even where * is it, and is with a **
\* at the end.
LinkTaken(path) == UsesGlobstar /\ ~IsOneGlobstar /\ \E k \in DOMAIN path : To(path, k) \in Links
\* GLOBIGNORE does not see the name of what is written with a slash: the paths of
\* **/, and the a/ of a/**.
Slashed(path) == UsesGlobstar /\ (subject.slash \/ (IsOneGlobstar /\ path = BeforeStar))
IgnoreOverlooked(path) == Slashed(path) /\ IsIgnored(Last(path), subject.o)

\* A word finds the files its segments match, each as often as there are ways
\* to it, whichever of the three walks is taken: hidden ones only if asked for,
\* none behind a link with **, none that GLOBIGNORE names.
TimesFound(found, path) == Cardinality({k \in DOMAIN found : found[k] = path})
PathnamesAsPromised ==
  subject.is = "pathname" /\ (\E k \in DOMAIN subject.segments : HasPattern(subject.segments[k]))
    /\ ~(SlashForgotten \/ PatternIsName \/ BaseNotThere \/ BaseLeftOut \/ NullIgnoreForgotten) =>
  LET found == Expand(subject, subject.o)
  IN  \A path \in Files \cup ToSet(found) :
        \/ HiddenWalked(path) \/ HiddenNotFound(path) \/ LinkTaken(path) \/ IgnoreOverlooked(path)
        \/ TimesFound(found, path) = Promised(subject, path, subject.o)

-----------------------------------------------------------------------------
(* Braces                                                                     *)

MCCodes == <<"Z", "\\", "bq", "a", "b">>
MCLargest == 12

Backquoted == RangeOf(<<"Z", ".", ".", "a">>, <<<<"Z">>, << >>, <<"bq">>, <<"a">>>>)
MCRanges ==
  {RangeOf(<<"1", ".", ".", "3", ".", ".", "2">>, <<<<"1">>, <<"3">>>>),
   RangeOf(<<"0", "1", ".", ".", "-", "1">>, <<<<"0", "1">>, <<"0", "0">>, <<"-", "1">>>>),
   RangeOf(<<"b", ".", ".", "a">>, <<<<"b">>, <<"a">>>>),
   RangeOf(<<"1", "1", ".", ".", "1", "2">>, <<<<"1", "1">>, <<"1", "2">>>>),
   Backquoted}
Dollar == Literal(<<"$">>)
EscapedDollar == Literal(<<"\\", "$">>)
BraceOpen == Literal(<<"{">>)
BraceShut == Literal(<<"}">>)
HalfDots == Literal(<<"a", ".">>)
OtherHalf == Choice(<<<<Literal(<<".", "b">>)>>, << >>>>)
QuotedBackslash == Literal(<<"'", "\\", "'">>)
QuotedQuote == Literal(<<"\"", "\\", "\"", "\"">>)
MCSubstitutions ==
  {Literal(<<"$", "(", "a", "{", ")">>), Literal(<<"$", "(", "a", ",", ")">>), Literal(<<"bq", "{", "bq">>)}
MCParts ==
  MCRanges \cup MCSubstitutions
    \cup {Literal(<<"a">>), Literal(<<"\\", ",">>), Literal(<<"'", "{", "'">>), Literal(<<"'", "{", "a", ",", "b", "}", "'">>), Literal(<<"\"", ",", "}", "\"">>),
          Literal(<<"$", "{", "a", ",", "b", "}">>), Dollar, EscapedDollar, HalfDots, OtherHalf, QuotedBackslash, QuotedQuote,
          Choice(<<<<Literal(<<"a">>)>>, << >>>>), InBraces(<<Literal(<<"a">>)>>), InBraces(<< >>)}

BraceInit == subject = [is |-> "braces", parts |-> << >>, room |-> 2, wrapped |-> FALSE]
AddPart ==
  /\ subject.is = "braces" /\ subject.room > 0
  /\ \E part \in MCParts \cup {BraceOpen, BraceShut, Literal(<<",">>)} : 
       subject' = [subject EXCEPT !.parts = Append(@, part), !.room = @ - 1]
Wrap ==
  /\ subject.is = "braces" /\ ~subject.wrapped /\ subject.parts # << >> /\ ToSet(subject.parts) \subseteq MCParts
  /\ LET inner == subject.parts
         other == <<Literal(<<"b">>)>>
     IN  \E part \in {Choice(<<inner, other>>), Choice(<<other, inner>>), InBraces(inner)} :
           subject' = [subject EXCEPT !.parts = <<part>>, !.wrapped = TRUE]

Within == UNION {ToSet(x) : x \in WordsWithin(subject.parts)}
Beside(part) ==
  \E x \in {subject.parts} \cup WordsWithin(subject.parts) :
    \E k \in 1..(Len(x) - 1) : x[k] = part /\ (IsBraced(x[k + 1]) \/ x[k + 1] = BraceOpen)
\* What is not as it is written: {...} of two parts, ${...}.
OtherMeant == Beside(Dollar) \/ subject.parts = <<BraceOpen, BraceShut>>
\* \${a,b} stays; '\'{a,b} does, the backslash hiding the closing quote.
DollarKept == Beside(EscapedDollar)
QuoteHidden == QuotedBackslash \in PartsOf(subject.parts)
\* A comma or brace in a substitution, or after \" in quotes, divides the group.
SplitWithin == (MCSubstitutions \cup {QuotedQuote}) \cap Within # {}
\* The words are looked through again: {$,b}{c,d} becomes ${c,d}, {Z..b}{c,d}
\* becomes `{c,d}, {a.{.b,}} becomes {a..b}, a range.
LookedAtAgain ==
  \/ \E x \in WordsWithin(subject.parts) : x # << >> /\ Last(x) \in {Dollar, EscapedDollar}
  \/ Backquoted \in PartsOf(subject.parts) /\ subject.parts # <<Backquoted>>
  \/ {HalfDots, OtherHalf} \subseteq Within
\* A range up to the largest number does not end.
DoesNotEnd == \E part \in PartsOf(subject.parts) : part.is = "range" /\ RangeItems(part.text) = <<Forever>>

\* A word becomes the words its parts stand for, in their order: what is quoted,
\* escaped or in a parameter is no brace, comma or dots of a group, braces
\* without either stay, groups within groups and beside them are combined.
BracesAsMeant ==
  subject.is = "braces"
    /\ ~(OtherMeant \/ DollarKept \/ QuoteHidden \/ SplitWithin \/ LookedAtAgain \/ DoesNotEnd) =>
  Expanded(BraceText(subject.parts)) = BraceWords(subject.parts)

\* Words become the words and files they stand for: braces first, then pathnames.
WordsAsPromised == BracesAsMeant /\ PathnamesAsPromised

WordsInit == PatternInit \/ PathnameInit \/ BraceInit
WordsNext == AddItem \/ AddGroup \/ AfterGroup \/ AddSegment \/ AddPart \/ Wrap
WordsSpec == WordsInit /\ [][WordsNext]_subject
=============================================================================
