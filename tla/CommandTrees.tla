---------------------------- MODULE CommandTrees ----------------------------
(* The commands of the shell language and how they are written: the grammar,  *)
(* the other way round. A command is a node with words and parts, each part a *)
(* list of commands; a list is what stands between two reserved words.        *)
EXTENDS ShellText

\* The last five fields are the parser's while it reads, and their idle values
\* in a tree: a mark of an error, the operator after the command, a ! before it.
Node(is, words, parts) ==
  [is |-> is, words |-> words, parts |-> parts, to |-> FALSE,
   err |-> FALSE, pipe |-> "", andor |-> "", bg |-> FALSE, not |-> FALSE]

Simple(words) == Node("simple", words, << >>)
Pipeline(operators, stages) == Node("pipeline", operators, <<stages>>)
AndOr(operators, members) == Node("list", operators, <<members>>)
InBackground(n) == Node("bg", << >>, <<<<n>>>>)
Inverted(n) == Node("not", << >>, <<<<n>>>>)
Timed(prefix, n) == Node("time", prefix, <<<<n>>>>)
Group(list) == Node("group", << >>, <<list>>)
Subshell(list) == Node("subshell", << >>, <<list>>)
\* branches: a word and two lists each, "if" c t, "elif" c t; "else" one list.
If(branches, parts) == Node("if", branches, parts)
Loop(word, condition, body) == Node("loop", <<word>>, <<condition, body>>)
For(body_word, header, body) == Node("for", <<body_word>> \o header, <<body>>)
Case(word, clauses) == Node("case", <<word>>, <<clauses>>)
\* header: the patterns with their |, and the terminator last.
Clause(header, body) == Node("clause", header, <<body>>)
\* form: "function" or "plain"; body_word: "{", "(" or "command".
Function(form, name, body_word, list) == Node("function", <<form, name, body_word>>, <<list>>)

WithTarget(n) == [n EXCEPT !.to = TRUE]

Joining == {"pipeline", "list", "not", "time", "bg"}   \* no lists in their parts

-----------------------------------------------------------------------------
(* How a tree is written. A style is "line", all of it on one line, "broken", *)
(* a line for each command, or "open", a line for each reserved word too.     *)

Break(style) == IF style = "line" THEN <<";">> ELSE <<"nl">>
Opened(style) == IF style = "open" THEN <<"nl">> ELSE << >>

Interleaved(texts, operators) ==
  FlattenSeq([k \in DOMAIN texts |-> IF k = 1 THEN texts[k] ELSE <<operators[k - 1]>> \o texts[k]])

IfText(words, t, style) ==
  LET \* before word k: two lists for each earlier branch
      Branch(k) == LET p == 2 * k - 1
                   IN  IF words[k] = "else" THEN <<"else">> \o Opened(style) \o t[p]
                       ELSE <<words[k]>> \o t[p] \o <<"then">> \o Opened(style) \o t[p + 1]
  IN  FlattenSeq([k \in DOMAIN words |-> Branch(k)]) \o <<"fi">>

BodyText(word, t, style) ==
  <<word>> \o Opened(style) \o t \o <<IF word = "do" THEN "done" ELSE IF word = "{" THEN "}" ELSE ")">>

\* t: for each part its commands, each with the break that ends it.
Written(n, t, style) ==
  CASE n.is = "simple" -> n.words
    [] n.is = "pipeline" -> Interleaved(t[1], n.words)
    [] n.is = "list" -> Interleaved(t[1], n.words)
    [] n.is = "not" -> <<"!">> \o t[1][1]
    [] n.is = "time" -> <<"time">> \o n.words \o t[1][1]
    [] n.is = "bg" -> t[1][1] \o <<"&">>
    [] n.is = "if" -> IfText(n.words, [k \in DOMAIN t |-> FlattenSeq(t[k])], style)
    [] n.is = "loop" -> n.words \o FlattenSeq(t[1]) \o BodyText("do", FlattenSeq(t[2]), style)
    [] n.is = "for" -> <<"for">> \o Tail(n.words) \o Break(style) \o BodyText(n.words[1], FlattenSeq(t[1]), style)
    [] n.is = "case" -> <<"case", n.words[1], "in">> \o Opened(style) \o FlattenSeq(t[1]) \o <<"esac">>
    [] n.is = "clause" -> Front(n.words) \o <<")">> \o Opened(style) \o FlattenSeq(t[1])
                            \o <<Last(n.words)>> \o Opened(style)
    [] n.is = "group" -> BodyText("{", FlattenSeq(t[1]), style)
    [] n.is = "subshell" -> BodyText("(", FlattenSeq(t[1]), style)
    [] n.is = "function" ->
         (IF n.words[1] = "function" THEN <<"function", n.words[2]>> ELSE <<n.words[2], "(", ")">>)
           \o (IF n.words[3] = "command" THEN Front(FlattenSeq(t[1]))
               ELSE BodyText(n.words[3], FlattenSeq(t[1]), style))

\* & ends a command as a break does, and a clause has its terminator.
Ended(n, parent, style) ==
  IF parent \in Joining \/ n.is \in {"bg", "clause"} THEN << >> ELSE Break(style)

RECURSIVE TextOf(_, _)
TextOf(n, style) ==
  Written(n, [p \in DOMAIN n.parts |->
               [k \in DOMAIN n.parts[p] |->
                  TextOf(n.parts[p][k], style) \o Ended(n.parts[p][k], n.is, style)]], style)
    \o (IF n.to THEN <<">", "t">> ELSE << >>)

\* A script: a list without the break after its last command.
ScriptText(script, style) ==
  FlattenSeq([k \in DOMAIN script |->
    TextOf(script[k], style) \o (IF k = Len(script) THEN << >> ELSE Ended(script[k], "", style))])
-------------------------------------------------------------------------------
(* A tree written back as a text: what a child shell is given to run when a   *)
(* compound command goes to the background, and what declare -f and exported  *)
(* functions show. It is one line; a pipeline's |& is not kept.               *)


Before(separator, texts) == FlattenSeq([k \in DOMAIN texts |-> IF k = 1 THEN texts[k] ELSE <<separator>> \o texts[k]])

IfSource_NoSeparator(words, t) ==
  FlattenSeq([k \in DOMAIN words |-> IF words[k] = "else" THEN <<"else">> \o t[2 * k - 1]
                                      ELSE <<words[k]>> \o t[2 * k - 1] \o <<"then">> \o t[2 * k]]) \o <<";", "fi">>
IfSource(words, t) ==
  LET Branch(k) == IF words[k] = "else" THEN <<"else">> \o t[2 * k - 1]
                   ELSE <<words[k]>> \o t[2 * k - 1] \o <<";", "then">> \o t[2 * k]
  IN  Before(";", [k \in DOMAIN words |-> Branch(k)]) \o <<";", "fi">>

\* command_body_source_text
BodySource(open, t) ==
  <<open>> \o t \o (CASE open = "do" -> <<";", "done">> [] open = "{" -> <<";", "}">> [] OTHER -> <<")">>)

\* bash_command_source_text: s, the texts of the commands in each part; t, the
\* same as sequences.
SourceOf(n, s, t) ==
  CASE n.is = "simple" -> n.words
    [] n.is = "pipeline" -> Before("|", s[1])
    [] n.is = "list" -> FlattenSeq([k \in DOMAIN s[1] |-> IF k = 1 THEN s[1][k] ELSE <<n.words[k - 1]>> \o s[1][k]])
    [] n.is = "time" -> <<"time">> \o SelectSeq(n.words, LAMBDA w : w # "--") \o s[1][1]
    [] n.is = "bg" -> s[1][1] \o <<"&">>
    [] n.is = "not" -> <<"!">> \o s[1][1]
    [] n.is = "if" -> IfSource(n.words, t)
    [] n.is = "loop" -> n.words \o t[1] \o <<";">> \o BodySource("do", t[2])
    [] n.is = "for" -> <<"for">> \o Tail(n.words) \o <<";">> \o BodySource(n.words[1], t[1])
    [] n.is = "case" -> <<"case", n.words[1], "in">> \o FlattenSeq(s[1]) \o <<"esac">>
    [] n.is = "clause" -> Front(n.words) \o <<")">> \o t[1] \o <<Last(n.words)>>
    [] n.is = "group" -> BodySource("{", t[1])
    [] n.is = "subshell" -> BodySource("(", t[1])
    [] n.is = "function" ->
         (IF n.words[1] = "function" THEN <<"function", n.words[2]>> ELSE <<n.words[2], "(", ")">>)
           \o (IF n.words[3] = "command" THEN t[1] ELSE BodySource(n.words[3], t[1]))

\* bash_command_sequence_text: the texts that are not empty, with ; between.
Sequence(texts) == Before(";", SelectSeq(texts, LAMBDA t : t # << >>))

RECURSIVE SourceText(_)
SourceText(n) ==
  LET s == [p \in DOMAIN n.parts |-> [k \in DOMAIN n.parts[p] |-> SourceText(n.parts[p][k])]]
  IN  SourceOf(n, s, [p \in DOMAIN s |-> Sequence(s[p])]) \o (IF n.to THEN <<">", "t">> ELSE << >>)
SequenceText(list) == Sequence([k \in DOMAIN list |-> SourceText(list[k])])
=============================================================================
