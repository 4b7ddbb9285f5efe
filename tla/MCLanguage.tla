------------------------------ MODULE MCLanguage ------------------------------
(* The parser on every script of a few commands. Scripts grow by a command    *)
(* put beside them and by a compound command put around them; each is written *)
(* in one of three styles and read back.                                      *)
EXTENDS CommandParser

CONSTANTS MaxGrowth, MaxGrowthOfOdd

VARIABLES script, style, growth, odd

lVars == <<script, style, growth, odd>>

a == Simple(<<"a">>)
b == Simple(<<"b">>)
\* Simple commands with an argument that is a reserved word elsewhere.
Odd == {Simple(<<"echo", "fi">>), Simple(<<"echo", "a", "in", "b">>), Simple(<<"echo", "if">>)}

LanguageInit ==
  /\ odd \in BOOLEAN
  /\ script \in {<<n>> : n \in IF odd THEN Odd ELSE {a}}
  /\ style \in {"line", "broken", "open"}
  /\ growth = 0

Compounds == {"if", "loop", "for", "case", "group", "subshell", "function"}
LastIs(kinds) == Last(script).is \in kinds

Grown(s) ==
  /\ growth < IF odd THEN MaxGrowthOfOdd ELSE MaxGrowth
  /\ growth' = growth + 1
  /\ script' = s
  /\ UNCHANGED <<style, odd>>
WithLast(n) == Grown(Append(Front(script), n))

\* A command before or after, and the operators on the last one.
Follow == Grown(Append(script, b))
Precede == Grown(<<b>> \o script)
Pipe ==
  /\ LastIs(Compounds \cup {"simple"})
  /\ \/ WithLast(Pipeline(<<"|">>, <<Last(script), b>>))
     \/ WithLast(Pipeline(<<"|&">>, <<b, Last(script)>>))
Join ==
  /\ LastIs(Compounds \cup {"simple", "pipeline", "not", "time"})
  /\ \/ WithLast(AndOr(<<"&&">>, <<Last(script), b>>))
     \/ WithLast(AndOr(<<"||", "&&">>, <<b, Last(script), b>>))
Detach == ~LastIs({"bg"}) /\ WithLast(InBackground(Last(script)))
Invert == LastIs(Compounds \cup {"simple", "pipeline", "time"}) /\ WithLast(Inverted(Last(script)))
Time ==
  /\ LastIs((Compounds \ {"function"}) \cup {"simple", "pipeline"})
  /\ LastIs({"pipeline"}) => Last(script).parts[1][1].is # "function"
  /\ WithLast(Timed(<< >>, Last(script)))
Redirect == LastIs((Compounds \ {"function"}) \cup {"simple"}) /\ ~Last(script).to /\ WithLast(WithTarget(Last(script)))

\* A compound command around them all.
EncloseInBranch ==
  \/ Grown(<<If(<<"if">>, <<script, <<b>>>>)>>)
  \/ Grown(<<If(<<"if", "else">>, <<<<b>>, script, <<b>>>>)>>)
  \/ Grown(<<If(<<"if", "elif", "else">>, <<<<b>>, <<a>>, script, <<a>>, <<b>>>>)>>)
  \/ Grown(<<If(<<"if", "elif", "else">>, <<<<b>>, <<a>>, <<a>>, <<b>>, script>>)>>)
EncloseInLoop ==
  \/ Grown(<<Loop("while", script, <<b>>)>>)
  \/ Grown(<<Loop("until", <<b>>, script)>>)
  \/ Grown(<<For("do", <<"x", "in", "a">>, script)>>)
  \/ Grown(<<For("{", <<"x">>, script)>>)
EncloseInCase ==
  \/ Grown(<<Case("x", <<Clause(<<"a", ";;">>, script), Clause(<<"b", "|", "c", ";&">>, <<b>>)>>)>>)
  \/ Grown(<<Case("x", <<Clause(<<"a", ";;&">>, <<b>>), Clause(<<"b", ";;">>, script)>>)>>)
EncloseInGroup == Grown(<<Group(script)>>)
EncloseInSubshell == Grown(<<Subshell(script)>>)
EncloseInFunction ==
  \/ Grown(<<Function("plain", "f", "{", script)>>)
  \/ Grown(<<Function("function", "f", "(", script)>>)
  \/ Len(script) = 1 /\ LastIs({"if", "loop", "for", "case"}) /\ Grown(<<Function("plain", "f", "command", script)>>)

LanguageNext ==
  \/ Follow \/ Precede \/ Pipe \/ Join \/ Detach \/ Invert \/ Time \/ Redirect
  \/ EncloseInBranch \/ EncloseInLoop \/ EncloseInCase \/ EncloseInGroup \/ EncloseInSubshell \/ EncloseInFunction
LanguageSpec == LanguageInit /\ [][LanguageNext]_lVars

-----------------------------------------------------------------------------
(* Where the code reads something else than was written: each operator is one *)
(* cause, said in the README with the text that shows it.                     *)

RECURSIVE NodesOf(_)
NodesOf(list) ==
  ToSet(list) \cup UNION {UNION {NodesOf(n.parts[p]) : p \in DOMAIN n.parts} : n \in ToSet(list)}
RECURSIVE Leading(_)
Leading(n) == IF n.is \in {"pipeline", "list", "bg"} THEN Leading(n.parts[1][1]) ELSE n

HasBraces(n) == (n.is = "for" /\ n.words[1] = "{") \/ (n.is = "function" /\ n.words[3] = "{")

\* A list is looked for by the words that may end it.
EndsOf(n, p) ==
  CASE n.is = "if" -> IF p % 2 = 1 /\ p < Len(n.parts) THEN {"then"} ELSE SectionEnds
    [] n.is = "loop" -> IF p = 1 THEN {"do"} ELSE {"do", "done"}
    [] n.is = "for" /\ n.words[1] = "do" -> {"done"}
    [] n.is = "clause" -> ClauseEnds
    [] n.is = "subshell" \/ (n.is = "function" /\ n.words[3] = "(") -> {"esac"}
    [] OTHER -> {}
WordsOf(n) ==
  CASE n.is = "if" -> {"then", "fi"} [] n.is \in {"loop", "for"} -> {"do", "done"}
    [] n.is = "case" -> {"esac"} [] OTHER -> {}

\* A command right after a word the scan expects no command to follow.
Hides(n) == n.is \in {"not", "time", "if", "loop"}
HiddenBy(n) == Leading(n.parts[1][1])
HiddenOpener ==
  \E n \in NodesOf(script) : \E p \in DOMAIN n.parts :
    \/ n.is \in {"if", "loop"} /\ p = 1 /\ WordsOf(HiddenBy(n)) \cap EndsOf(n, p) # {}
    \/ \E m \in NodesOf(n.parts[p]) :
         Hides(m) /\ WordsOf(HiddenBy(m)) \cap EndsOf(n, p) # {}

\* An argument that is the word which ends a command inside another.
KeywordArgument ==
  \E n \in NodesOf(script) : \E p \in DOMAIN n.parts :
    /\ EndsOf(n, p) # {}
    /\ \E m \in NodesOf(n.parts[p]) : \E q \in DOMAIN m.parts : \E s \in NodesOf(m.parts[q]) :
         s.is = "simple" /\ ToSet(s.words) \cap WordsOf(m) # {}

\* A for with braces has no done, and one is awaited.
LooksForBrace(n) == style # "line" /\ (n.is = "group" \/ HasBraces(n))
UnclosedFor ==
  \E n \in NodesOf(script) : \E p \in DOMAIN n.parts :
    /\ EndsOf(n, p) # {} \/ LooksForBrace(n)
    /\ \E m \in NodesOf(n.parts[p]) : m.is = "for" /\ HasBraces(m)

\* The brace of a group right after ! or time is not counted.
UncountedBrace ==
  \E n \in NodesOf(script) :
    /\ LooksForBrace(n)
    /\ \E m \in NodesOf(n.parts[1]) : m.is \in {"not", "time"} /\ HiddenBy(m).is = "group"

\* A group that begins within a line and ends on a later one.
OpenedMidLine(text) ==
  /\ style = "broken"
  /\ \E i \in 2..(Len(text) - 1) :
       /\ text[i] = "{" /\ text[i + 1] # "nl"
       /\ \/ text[i - 1] \notin {"nl", ";", "&&", "||"}
          \/ \E k \in 1..i : text[k] = "case" /\ \A m \in k..i : text[m] # "nl"

\* & before the brace that closes a group.
DetachedAtBrace ==
  \E n \in NodesOf(script) : n.is = "group" /\ Last(n.parts[1]).is = "bg"

\* The operator after a function goes to the command that is its body.
IsBare(n) == n.is = "function" /\ n.words[3] = "command"
OperatorInBody ==
  \E n \in NodesOf(script) :
    n.is \in {"pipeline", "list", "bg"} /\ \E k \in DOMAIN n.parts[1] :
       IsBare(n.parts[1][k]) /\ (n.is = "bg" \/ k < Len(n.parts[1]))

\* time before a compound command times that stage alone.
TimesOneStage ==
  \E n \in NodesOf(script) : n.is = "time" /\ n.parts[1][1].is = "pipeline" /\ n.parts[1][1].parts[1][1].is # "simple"

\* echo a in b looks like a case at the beginning of a pipeline.
LooksLikeCaseStage ==
  \E n \in NodesOf(script) : n.is = "pipeline" /\ LooksLikeCase(n.parts[1])

Misread ==
  \/ HiddenOpener \/ KeywordArgument \/ UnclosedFor \/ UncountedBrace \/ OpenedMidLine(ScriptText(script, style))
  \/ DetachedAtBrace \/ OperatorInBody \/ TimesOneStage \/ LooksLikeCaseStage

\* Text that is not waited for on the standard input: a group or a subshell
\* with no keyword around, and a function that does not begin its command.
RECURSIVE Outermost(_)
Outermost(list) ==
  ToSet(list) \cup UNION {Outermost(n.parts[1]) : n \in {m \in ToSet(list) : m.is \in Joining}}
FirstOf(n) == IF n.is \in Joining \ {"not", "time"} THEN Leading(n) ELSE n
NotAwaited ==
  /\ style # "line"
  /\ \E n \in Outermost(script) :
       \/ n.is \in {"group", "subshell"}
       \/ n.is = "function" /\ n.words[3] = "(" /\ \E m \in NodesOf(n.parts[1]) : m.is = "case"
       \/ n.is = "function" /\ n.words[3] # "command" /\ ~\E k \in DOMAIN script : FirstOf(script[k]) = n
\* The keywords of all tokens are counted, those of arguments too.
KeywordWithin ==
  \/ \E n \in NodesOf(script) : \E p \in DOMAIN n.parts : \E s \in NodesOf(n.parts[p]) :
       s.is = "simple" /\ ToSet(s.words) \cap WordsOf(n) # {}
  \/ \E n \in NodesOf(script) : n.is = "simple" /\ \E k \in DOMAIN n.words : Awaited(<<n.words[k]>>) # ""

-----------------------------------------------------------------------------
(* Properties                                                                 *)

Text == ScriptText(script, style)
Read(text) == Parsed(Tokenized(text))

\* A script is read as it was written, whatever commands stand in one another
\* and wherever the lines end, unless it has one of the causes above: the scan
\* ahead for a reserved word finds the one that belongs to the command, each
\* list ends where it should, and the operators bind as they should.
ParsedAsWritten == ~Misread => Read(Text) = script

\* A script without one of its reserved words, or with another closing word in
\* its place, is refused somewhere: no list reaches over the gap. A case behind
\* time is left out, which is taken for words.
HasError(list) == \E n \in NodesOf(list) : n.err
Closing == {"fi", "done", "esac"}
Needed == Closing \cup {"then", "do", "elif", "while", "until", "{"}
Spoilt(text) ==
  {SubSeq(text, 1, i - 1) \o SubSeq(text, i + 1, Len(text)) : i \in {k \in DOMAIN text : text[k] \in Needed}}
  \cup {[text EXCEPT ![i] = w] : i \in {k \in DOMAIN text : text[k] \in Closing}, w \in Closing}
TimedCase == \E n \in NodesOf(script) : n.is = "time" /\ HiddenBy(n).is = "case"
SpoiltIsRefused ==
  growth < MaxGrowth /\ ~odd /\ ~Misread /\ ~TimedCase =>
    \A text \in Spoilt(Text) \ {Text} : HasError(Read(text))

\* Two other ways to the same commands: the pieces a script on the standard
\* input is run in, which must not end within a command; and the text a child
\* shell is given for a command in the background, but for its |&.
RECURSIVE WithPlainPipes(_)
WithPlainPipes(list) ==
  [k \in DOMAIN list |->
     [list[k] EXCEPT !.words = IF list[k].is = "pipeline" THEN [j \in DOMAIN @ |-> "|"] ELSE @,
                     !.parts = [p \in DOMAIN @ |-> WithPlainPipes(@[p])]]]
ReadPieces(texts) == FlattenSeq([k \in DOMAIN texts |-> Read(texts[k])])
ReadTheSame ==
  ~Misread =>
    /\ ~NotAwaited /\ ~KeywordWithin => ReadPieces(Pieces(Text)) = script
    /\ style = "line" => Read(SequenceText(script)) = WithPlainPipes(script)
=============================================================================
