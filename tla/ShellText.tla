------------------------------ MODULE ShellText ------------------------------
(* From a text to the tokens the parser reads: the lexer's lines and groups,  *)
(* and the pieces in which a script on the standard input is read.            *)
(*                                                                            *)
(* A text is a sequence of atoms set apart by blanks, "nl" the end of a line. *)
(* A token is a sequence of atoms too: one, or a whole "{ ... }" the lexer    *)
(* keeps together. Quotes, here documents and substitutions are left out.     *)
EXTENDS Integers, Sequences, FiniteSets, SequencesExt

Breaks == {";", "nl"}                 \* both one kind of token
Operators == {";", "nl", "&", "&&", "||", "|", "|&"}
Terminators == {";;", ";&", ";;&"}    \* words, to the lexer
Parens == {"(", ")"}
Reserved ==
  {"if", "then", "elif", "else", "fi", "while", "until", "do", "done", "for", "case", "esac",
   "in", "function", "time", "!", "{", "}"} \cup Parens
Redirects == {">"}
IsWordAtom(a) == a \notin Operators \cup Reserved \cup Redirects

-----------------------------------------------------------------------------
(* Braces                                                                     *)

\* Reserved words after which another may follow, and the characters.
Openings == {"for", "while", "until", "then", "do", "else", "elif", "in", "fi", "done"}
Separating == Operators \cup Terminators \cup {"(", "{"}

\* update_brace_group_case_depth: cases counts the open ones, free says whether
\* a reserved word may stand here. Braces within a case are not counted.
CaseStep(s, a, separating) ==
  CASE s.free /\ a = "case" -> [cases |-> s.cases + 1, free |-> FALSE]
    [] s.free /\ a = "esac" -> [cases |-> IF s.cases = 0 THEN 0 ELSE s.cases - 1, free |-> TRUE]
    [] OTHER -> [cases |-> s.cases, free |-> a \in separating \/ (s.free /\ a \in Openings)]

\* unquoted_brace_group_depth
RECURSIVE DepthFrom(_, _, _, _)
DepthFrom(line, i, depth, s) ==
  IF i > Len(line) THEN depth
  ELSE LET t == CaseStep(s, line[i], Separating \cup {")"})
           next == IF t.cases > 0 THEN depth
                   ELSE IF line[i] = "{" THEN depth + 1
                   ELSE IF line[i] = "}" /\ depth > 0 THEN depth - 1 ELSE depth
       IN  DepthFrom(line, i + 1, next, t)
BraceDepth(line) == DepthFrom(line, 1, 0, [cases |-> 0, free |-> TRUE])

\* brace_close_can_end_compact_group: what may follow the last brace.
MayFollowGroup ==
  Operators \cup Terminators \cup Redirects \cup
  {")", "do", "done", "elif", "else", "esac", "fi", "then"}

\* skip_brace: the last atom of the token that begins with the brace before i.
\* A brace that cannot be the last is passed over, and the text goes on.
RECURSIVE GroupEnd(_, _, _, _)
GroupEnd(line, i, depth, s) ==
  IF i > Len(line) THEN Len(line)
  ELSE LET t == CaseStep(s, line[i], Separating)
           counted == t.cases = 0
       IN  IF counted /\ line[i] = "{" THEN GroupEnd(line, i + 1, depth + 1, t)
           ELSE IF counted /\ line[i] = "}" /\ depth > 1 THEN GroupEnd(line, i + 1, depth - 1, t)
           ELSE IF counted /\ line[i] = "}" /\ (i = Len(line) \/ line[i + 1] \in MayFollowGroup) THEN i
           ELSE GroupEnd(line, i + 1, depth, t)

-----------------------------------------------------------------------------
(* Lines                                                                      *)

\* tokenize_plain: one logical line.
RECURSIVE LineTokens(_, _, _)
LineTokens(line, i, tokens) ==
  IF i > Len(line) THEN tokens
  ELSE LET last == IF line[i] = "{" THEN GroupEnd(line, i + 1, 1, [cases |-> 0, free |-> TRUE]) ELSE i
       IN  LineTokens(line, last + 1, Append(tokens, SubSeq(line, i, last)))

\* has_unclosed_brace_group: only some lines with a brace are read on for it.
OpensGroup(line) ==
  /\ line # << >>
  /\ \/ line[1] = "{"
     \/ \E i \in 2..Len(line) : line[i] = "{" /\ line[i - 1] \in {"&&", "||", ";"}
UnclosedGroup(line) == OpensGroup(line) /\ BraceDepth(line) > 0

\* tokenize_with_heredocs: lines joined while a group is open, and the break
\* after each of them.
RECURSIVE TokensFrom(_, _, _, _)
TokensFrom(lines, k, open, tokens) ==
  IF k > Len(lines)
  THEN IF open = << >> THEN tokens ELSE LineTokens(open, 1, tokens) \o <<<<"nl">>>>
  ELSE LET line == IF open = << >> THEN lines[k] ELSE open \o <<"nl">> \o lines[k]
       IN  IF UnclosedGroup(line) THEN TokensFrom(lines, k + 1, line, tokens)
           ELSE TokensFrom(lines, k + 1, << >>, LineTokens(line, 1, tokens) \o <<<<"nl">>>>)

\* The lines of a text.
RECURSIVE LinesFrom(_, _, _, _)
LinesFrom(text, i, line, lines) ==
  IF i > Len(text) THEN IF line = << >> THEN lines ELSE Append(lines, line)
  ELSE IF text[i] = "nl" THEN LinesFrom(text, i + 1, << >>, Append(lines, line))
  ELSE LinesFrom(text, i + 1, Append(line, text[i]), lines)
Lines(text) == LinesFrom(text, 1, << >>, << >>)

\* tokenize: the break after the last line is not kept.
WithoutLastBreak(tokens) == IF tokens = << >> THEN tokens ELSE Front(tokens)
Tokenized(text) == WithoutLastBreak(TokensFrom(Lines(text), 1, << >>, << >>))

-----------------------------------------------------------------------------
(* A script on the standard input                                             *)

\* stdin_source_is_function_signature
IsSignature(text) ==
  \/ Len(text) = 3 /\ IsWordAtom(text[1]) /\ text[2] = "(" /\ text[3] = ")"
  \/ Len(text) = 2 /\ text[1] = "function" /\ IsWordAtom(text[2])

\* stdin_source_has_unclosed_function_delimited_body: of a function the text
\* begins with.
FirstBody(text, open) ==
  {i \in DOMAIN text : text[i] = open /\ ~(open = "(" /\ i < Len(text) /\ text[i + 1] = ")")}
Count(text, from, a) == Cardinality({i \in from..Len(text) : text[i] = a})
HasOpenBody(text, open, close) ==
  \E i \in FirstBody(text, open) :
    /\ \A j \in FirstBody(text, open) : i <= j
    /\ IsSignature(SubSeq(text, 1, i - 1)) \/ (i > 2 /\ text[1] = "function" /\ IsWordAtom(text[2]))
    /\ \E j \in i..Len(text) : Count(text, j, open) > Count(text, j, close)

\* The keywords of all tokens, wherever they stand.
Awaited_NoLoops(token) == IF token = <<"case">> THEN "esac" ELSE IF token = <<"if">> THEN "fi" ELSE ""
Awaited(token) ==
  CASE token = <<"case">> -> "esac" [] token = <<"if">> -> "fi"
    [] token \in {<<"for">>, <<"while">>, <<"until">>} -> "done"
    [] OTHER -> ""
RECURSIVE OpenKeywords(_, _, _)
OpenKeywords(tokens, i, stack) ==
  IF i > Len(tokens) THEN stack
  ELSE OpenKeywords(tokens, i + 1,
         IF Awaited(tokens[i]) # "" THEN Append(stack, Awaited(tokens[i]))
         ELSE IF stack # << >> /\ tokens[i] = <<Last(stack)>> THEN Front(stack)
         ELSE stack)

\* stdin_source_needs_more
NeedsMore(text) ==
  \/ IsSignature(text)
  \/ HasOpenBody(text, "{", "}") \/ HasOpenBody(text, "(", ")")
  \/ OpenKeywords(Tokenized(text), 1, << >>) # << >>

\* run_stdin_script: what is run at a time.
RECURSIVE PiecesFrom(_, _, _, _)
PiecesFrom(lines, k, open, pieces) ==
  IF k > Len(lines) THEN IF open = << >> THEN pieces ELSE Append(pieces, open)
  ELSE LET text == IF open = << >> THEN lines[k] ELSE open \o <<"nl">> \o lines[k]
       IN  IF NeedsMore(text) THEN PiecesFrom(lines, k + 1, text, pieces)
           ELSE PiecesFrom(lines, k + 1, << >>, Append(pieces, text))
Pieces(text) == PiecesFrom(Lines(text), 1, << >>, << >>)
=============================================================================
