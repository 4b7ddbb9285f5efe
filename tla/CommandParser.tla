---------------------------- MODULE CommandParser ----------------------------
(* The parser: one pass over the tokens of a list. Where a compound command   *)
(* may start, its reserved words are looked up ahead, by a scan that knows    *)
(* nothing but a stack of the closers it waits for; each list found between   *)
(* them is a slice of the tokens, parsed on its own. At the end of a list the *)
(* operators left on its commands are folded into pipelines and lists.        *)
(*                                                                            *)
(* Left out: select, coproc, (( )), [[ ]], assignments, all redirections but  *)
(* one of the output, and the aliases that are tried on what is refused.      *)
EXTENDS CommandTrees

Blank == Simple(<< >>)
IsEmpty(n) == n = Blank
IsPendingInversion(n) == n.not /\ [n EXCEPT !.not = FALSE] = Blank
MayStartCompound(n) == IsEmpty(n) \/ IsPendingInversion(n)
Marked(n) == [n EXCEPT !.err = TRUE]

At(tokens, i) == IF i \in DOMAIN tokens THEN tokens[i] ELSE << >>
Key(tokens, i, word) == At(tokens, i) = <<word>>
IsAny(token, words) == Len(token) = 1 /\ token[1] \in words
IsGroupToken(token) == Len(token) > 1 /\ token[1] = "{" /\ Last(token) = "}"
IsWordToken(token) == Len(token) = 1 /\ IsWordAtom(token[1])

RECURSIVE SkipBreaks(_, _)
SkipBreaks(tokens, i) == IF IsAny(At(tokens, i), Breaks) THEN SkipBreaks(tokens, i + 1) ELSE i

-----------------------------------------------------------------------------
(* The scan for a reserved word                                               *)

\* command_boundary_keyword_allowed
BoundaryWords ==
  {"{", "(", ")", "then", "do", "else", "elif", "fi", "done", "esac", "}"} \cup Operators \cup Terminators
AtBoundary(tokens, i) ==
  i = 1 \/ IsGroupToken(tokens[i - 1]) \/ IsAny(tokens[i - 1], BoundaryWords)

\* is_case_end_keyword: esac before ) or | may be a pattern.
EsacIsPattern(tokens, i) ==
  /\ i = 1 \/ ~IsAny(tokens[i - 1], Terminators)
  /\ Key(tokens, i + 1, ")") \/ Key(tokens, i + 1, "|")
  /\ \E close \in (i + 1)..Len(tokens) :
       /\ tokens[close] = <<")">>
       /\ \A k \in (i + 1)..(close - 1) : tokens[k] # <<")">> /\ ~IsAny(tokens[k], Breaks)
       /\ \E k \in (close + 1)..Len(tokens) :
            /\ IsAny(tokens[k], Terminators \cup {"esac"})
            /\ \A m \in (close + 1)..(k - 1) : ~(tokens[m] = <<")">> /\ AtBoundary(tokens, m))
IsCaseEnd(tokens, i) == Key(tokens, i, "esac") /\ ~EsacIsPattern(tokens, i)

Closer(token) ==
  CASE token = <<"if">> -> "fi" [] token = <<"case">> -> "esac"
    [] token \in {<<"for">>, <<"while">>, <<"until">>} -> "done"
    [] OTHER -> ""

\* update_compound_boundary_stack
Tracked_WhereverItStands(tokens, i, stack) ==
  IF stack # << >> /\ Key(tokens, i, Last(stack)) THEN Front(stack)
  ELSE IF Closer(tokens[i]) # "" THEN Append(stack, Closer(tokens[i])) ELSE stack
Tracked_NoCases(tokens, i, stack) ==
  IF stack # << >> /\ Key(tokens, i, Last(stack)) THEN Front(stack)
  ELSE IF AtBoundary(tokens, i) /\ Closer(tokens[i]) \in {"fi", "done"}
  THEN Append(stack, Closer(tokens[i])) ELSE stack
Tracked(tokens, i, stack) ==
  IF stack # << >> /\ Key(tokens, i, Last(stack)) /\ (Last(stack) = "esac" => IsCaseEnd(tokens, i))
  THEN Front(stack)
  ELSE IF AtBoundary(tokens, i) /\ Closer(tokens[i]) # "" THEN Append(stack, Closer(tokens[i]))
  ELSE stack

\* find_if_then, parse_if_section, find_loop_do, parse_loop_body, case_body_end:
\* the first of these words at the top level where a reserved word may stand,
\* or a terminator anywhere at that level.
RECURSIVE Scan(_, _, _, _)
Scan(tokens, i, words, stack) ==
  IF i > Len(tokens) THEN i
  ELSE IF stack = << >> /\ IsAny(tokens[i], words)
          /\ (AtBoundary(tokens, i) \/ IsAny(tokens[i], Terminators))
  THEN i
  ELSE Scan(tokens, i + 1, words, Tracked(tokens, i, stack))
First(tokens, i, words) == Scan(tokens, i, words, << >>)

\* matching_brace_group_end: the brace that closes the one before i, or 0.
Completed(token) ==
  \/ IsAny(token, Breaks \cup {"}", ")", "fi", "done", "esac"})
  \/ IsGroupToken(token) /\ Len(token) > 2 /\ token[Len(token) - 1] \in Breaks \cup {"}", ")", "fi", "done", "esac"}
RECURSIVE BraceEnd(_, _, _, _, _)
BraceEnd(tokens, from, i, depth, stack) ==
  IF i > Len(tokens) THEN 0
  ELSE LET s == Tracked(tokens, i, stack)
           here == s = << >> /\ AtBoundary(tokens, i)
       IN  IF here /\ Key(tokens, i, "}") /\ ~(i > from /\ Completed(tokens[i - 1])) THEN 0
           ELSE IF here /\ Key(tokens, i, "}") /\ depth = 1 THEN i
           ELSE BraceEnd(tokens, from, i + 1,
                  IF ~here THEN depth ELSE IF Key(tokens, i, "{") THEN depth + 1
                  ELSE IF Key(tokens, i, "}") THEN depth - 1 ELSE depth, s)

\* matching_subshell_end: parentheses counted outside of cases, or 0.
RECURSIVE ParenEnd(_, _, _, _, _)
ParenEnd(tokens, from, i, depth, cases) ==
  IF i > Len(tokens) THEN 0
  ELSE LET here == i = from \/ AtBoundary(tokens, i)
       IN  IF here /\ Key(tokens, i, "case") THEN ParenEnd(tokens, from, i + 1, depth, cases + 1)
           ELSE IF here /\ IsCaseEnd(tokens, i)
           THEN ParenEnd(tokens, from, i + 1, depth, IF cases = 0 THEN 0 ELSE cases - 1)
           ELSE IF cases > 0 THEN ParenEnd(tokens, from, i + 1, depth, cases)
           ELSE IF Key(tokens, i, "(") THEN ParenEnd(tokens, from, i + 1, depth + 1, cases)
           ELSE IF Key(tokens, i, ")") /\ depth = 1 THEN i
           ELSE ParenEnd(tokens, from, i + 1, IF Key(tokens, i, ")") THEN depth - 1 ELSE depth, cases)

-----------------------------------------------------------------------------
(* The compound commands: what each of them is made of. A shape has the       *)
(* slices of its lists, still unparsed, and the place after it.               *)

Shape(is, words, lists, next) ==
  [is |-> is, words |-> words, lists |-> lists, next |-> next, around |-> << >>]
NoShape == Shape("none", << >>, << >>, 0)
ErrorShape(next) == Shape("error", << >>, << >>, next)
Slice(tokens, from, to) == SubSeq(tokens, from, to)

\* No command comes of separators and of a ) that is dropped.
NothingIn(tokens) == \A k \in DOMAIN tokens : IsAny(tokens[k], Breaks \cup {")"})

\* Two lists in a row: where the first ends and where the second does.
SectionAt(tokens, at, ends) == [at |-> at, end |-> First(tokens, at + 1, ends)]
Section(tokens, i, words, ends) == SectionAt(tokens, First(tokens, i + 1, words), ends)
IsSection(tokens, s) == s.at <= Len(tokens) /\ s.end <= Len(tokens)

\* parse_if_command: s, the section of the if or elif at i; the lists so far.
SectionEnds == {"fi", "done", "esac", "then", "elif", "else"}
IfSection(tokens, i) == Section(tokens, i, {"then"}, SectionEnds)
ElseShape_AnyCloser(tokens, else, end, words, lists) ==
  IF end > Len(tokens) \/ Key(tokens, end, "then") THEN NoShape
  ELSE Shape("if", Append(words, "else"), Append(lists, Slice(tokens, else + 1, end - 1)), end + 1)
ElseShape(tokens, else, end, words, lists) ==
  IF end > Len(tokens) \/ Key(tokens, end, "then") THEN NoShape
  ELSE IF Key(tokens, end, "fi")
  THEN Shape("if", Append(words, "else"), Append(lists, Slice(tokens, else + 1, end - 1)), end + 1)
  ELSE ErrorShape(Len(tokens) + 1)
RECURSIVE IfShape(_, _, _, _, _)
IfShape(tokens, i, s, words, lists) ==
  LET condition == Slice(tokens, i + 1, s.at - 1)
      soFar == lists \o <<condition, Slice(tokens, s.at + 1, s.end - 1)>>
      wordsSoFar == words \o tokens[i]
  IN  IF ~IsSection(tokens, s) \/ Key(tokens, s.end, "then") \/ (words = << >> /\ NothingIn(condition))
      THEN NoShape
      ELSE IF Key(tokens, s.end, "elif")
      THEN IfShape(tokens, s.end, IfSection(tokens, s.end), wordsSoFar, soFar)
      ELSE IF Key(tokens, s.end, "else")
      THEN ElseShape(tokens, s.end, First(tokens, s.end + 1, SectionEnds), wordsSoFar, soFar)
      ELSE IF Key(tokens, s.end, "fi") THEN Shape("if", wordsSoFar, soFar, s.end + 1)
      ELSE ErrorShape(Len(tokens) + 1)

\* parse_loop_command
LoopOf(tokens, i, s) ==
  LET condition == Slice(tokens, i + 1, s.at - 1)
  IN  IF s.at > Len(tokens) \/ NothingIn(condition) \/ ~Key(tokens, s.end, "done") THEN NoShape
      ELSE Shape("loop", tokens[i], <<condition, Slice(tokens, s.at + 1, s.end - 1)>>, s.end + 1)
LoopShape_BodyToAnyDone(tokens, i) ==
  LET do == First(tokens, i + 1, {"do"})
      dones == {k \in (do + 1)..Len(tokens) : tokens[k] = <<"done">>} \cup {Len(tokens) + 1}
  IN  LoopOf(tokens, i, [at |-> do, end |-> CHOOSE k \in dones : \A m \in dones : k <= m])
LoopShape(tokens, i) == LoopOf(tokens, i, Section(tokens, i, {"do"}, {"done", "do"}))

\* The words of a for up to its body, other tokens skipped, and where the body
\* starts, 0 for a brace that comes before any separator.
IsBraceBody(token) == IsGroupToken(token) \/ token = <<"{">>
RECURSIVE ForWords(_, _, _)
ForWords(tokens, i, words) ==
  IF i > Len(tokens) THEN [words |-> words, at |-> i]
  ELSE IF IsAny(tokens[i], Breaks)
  THEN LET next == SkipBreaks(tokens, i)
       IN  IF Key(tokens, next, "do") \/ IsBraceBody(At(tokens, next)) THEN [words |-> words, at |-> next]
           ELSE ForWords(tokens, next, words)
  ELSE IF IsBraceBody(tokens[i]) THEN [words |-> words, at |-> 0]
  ELSE ForWords(tokens, i + 1,
         IF IsAny(tokens[i], Operators \cup Redirects) THEN words ELSE words \o tokens[i])

\* parse_for_command: the body is what lies between do and done, or a group.
Enclosed(tokens, at, end, is, words) ==
  IF end \in DOMAIN tokens THEN Shape(is, words, <<Slice(tokens, at + 1, end - 1)>>, end + 1) ELSE NoShape
ForBody(tokens, at, words) ==
  IF at = 0 THEN NoShape
  ELSE IF IsGroupToken(At(tokens, at))
  THEN Shape("for", <<"{">> \o words, <<Tokenized(SubSeq(tokens[at], 2, Len(tokens[at]) - 1))>>, at + 1)
  ELSE IF Key(tokens, at, "{")
  THEN Enclosed(tokens, at, BraceEnd(tokens, at + 1, at + 1, 1, << >>), "for", <<"{">> \o words)
  ELSE IF Key(tokens, at, "do")
  THEN Enclosed(tokens, at, First(tokens, at + 1, {"done"}), "for", <<"do">> \o words)
  ELSE NoShape
ForHeader(tokens, afterName) ==
  IF Key(tokens, afterName, "in") THEN ForWords(tokens, afterName + 1, <<"in">>)
  ELSE [words |-> << >>, at |-> afterName]
ForOf(tokens, i, header) == ForBody(tokens, header.at, tokens[i + 1] \o header.words)
ForShape(tokens, i) ==
  IF IsWordToken(At(tokens, i + 1)) THEN ForOf(tokens, i, ForHeader(tokens, SkipBreaks(tokens, i + 2))) ELSE NoShape

\* The patterns from i to their ), empty ones refused: the place of the ) or 0.
RECURSIVE PatternEnd(_, _, _, _)
PatternEnd(tokens, i, some, depth) ==
  IF i > Len(tokens) THEN 0
  ELSE IF Key(tokens, i, ")") /\ depth = 0 THEN IF some THEN i ELSE 0
  ELSE PatternEnd(tokens, i + 1, IF Key(tokens, i, "|") THEN some /\ depth > 0 ELSE TRUE,
         IF Key(tokens, i, "(") THEN depth + 1
         ELSE IF Key(tokens, i, ")") THEN depth - 1 ELSE depth)

\* case_body_has_newline_for_header
HasForOnLine(body) ==
  \E k \in 1..(Len(body) - 2) :
    body[k] = <<"for">> /\ AtBoundary(body, k) /\ IsWordToken(body[k + 1]) /\ body[k + 2] = <<"nl">>

\* The clauses from i on: the headers, with their terminators, and the bodies.
ClauseEnds == {"esac", "done", "fi", "then", "else", "elif"} \cup Terminators
ClauseAt(tokens, open, close) ==
  IF close = 0 THEN [open |-> Len(tokens) + 1, close |-> 0, end |-> 0]
  ELSE [open |-> open, close |-> close, end |-> First(tokens, close + 1, ClauseEnds)]
ClauseFrom(tokens, open) == ClauseAt(tokens, open, PatternEnd(tokens, open, FALSE, 0))
NextClause(tokens, i) ==
  LET at == SkipBreaks(tokens, i)
  IN  IF at > Len(tokens) \/ IsCaseEnd(tokens, at) THEN [open |-> at, close |-> 0, end |-> 0]
      ELSE ClauseFrom(tokens, IF Key(tokens, at, "(") THEN at + 1 ELSE at)
BodyOf(tokens, c) == Slice(tokens, c.close + 1, c.end - 1)
PatternsOf(tokens, c) ==
  FlattenSeq(SelectSeq(Slice(tokens, c.open, c.close - 1), LAMBDA t : ~IsAny(t, Operators \ {"|"})))
RECURSIVE CaseShape(_, _, _, _, _)
CaseShape(tokens, c, word, headers, bodies) ==
  LET terminated == IsAny(At(tokens, c.end), Terminators)
      next == IF terminated THEN c.end + 1 ELSE c.end
      terminator == IF terminated THEN tokens[c.end][1] ELSE ";;"
  IN  IF c.close = 0
      THEN IF c.open <= Len(tokens) /\ IsCaseEnd(tokens, c.open)
           THEN Shape("case", <<word>> \o headers, bodies, c.open + 1) ELSE NoShape
      ELSE IF HasForOnLine(BodyOf(tokens, c)) THEN NoShape
      ELSE CaseShape(tokens, NextClause(tokens, next), word,
             Append(headers, Append(PatternsOf(tokens, c), terminator)), Append(bodies, BodyOf(tokens, c)))

\* parse_case_command: the word, in, and at once esac or the clauses.
CaseCommand(tokens, i) ==
  LET in == CHOOSE k \in (i + 2)..(Len(tokens) + 2) :
              /\ k > Len(tokens) \/ IsAny(tokens[k], {"in", "do", "then"})
              /\ \A m \in (i + 2)..(k - 1) : m <= Len(tokens) /\ ~IsAny(tokens[m], {"in", "do", "then"})
      word == At(tokens, i + 1)
  IN  IF Len(word) # 1 \/ word[1] \in Operators \cup Redirects \/ ~Key(tokens, in, "in") THEN NoShape
      ELSE IF Key(tokens, in + 1, "esac") THEN Shape("case", word, << >>, in + 2)
      ELSE CaseShape(tokens, NextClause(tokens, in + 1), word[1], << >>, << >>)

\* parse_subshell_command
SubshellShape(tokens, i) ==
  Enclosed(tokens, i, ParenEnd(tokens, i + 1, i + 1, 1, 0), "subshell", << >>)

\* parse_brace_group_command
Else(shape, other) == IF shape.is = "none" THEN other ELSE shape
OneToken(i, inner, tokens) ==
  IF inner # << >> /\ (Last(inner) \in Breaks \/ Completed(Last(tokens)))
  THEN Shape("group", << >>, <<tokens>>, i + 1) ELSE ErrorShape(i + 1)
GroupShape(tokens, i) ==
  LET inner == SubSeq(tokens[i], 2, Len(tokens[i]) - 1)
  IN  IF IsGroupToken(tokens[i]) THEN OneToken(i, inner, Tokenized(inner))
      ELSE Else(Enclosed(tokens, i, BraceEnd(tokens, i + 1, i + 1, 1, << >>), "group", << >>),
                ErrorShape(Len(tokens) + 1))

\* parse_function_command: around is what a compound body is put into. A body
\* that is refused is read again up to the last of its closers.
NameOf(tokens, i) == IF Key(tokens, i, "function") THEN i + 1 ELSE i
HasParens(tokens, i) == Key(tokens, i + 1, "(") /\ Key(tokens, i + 2, ")")
BodyStart(tokens, i) ==
  SkipBreaks(tokens, NameOf(tokens, i) + (IF HasParens(tokens, NameOf(tokens, i)) THEN 3 ELSE 1))
StartsFunction(tokens, i) ==
  /\ IsWordToken(At(tokens, NameOf(tokens, i)))
  /\ Key(tokens, i, "function") \/ HasParens(tokens, i)

LastBrace(tokens, i) ==
  LET closers == {k \in (i + 1)..Len(tokens) : tokens[k] = <<"}">>}
  IN  IF closers = {} THEN 0 ELSE CHOOSE k \in closers : \A m \in closers : m <= k

\* matching_function_if_end, matching_function_loop_end
RECURSIVE NestedEnd(_, _, _, _, _)
NestedEnd(tokens, i, closer, depth, start) ==
  IF i > Len(tokens) THEN 0
  ELSE LET here == i = start \/ AtBoundary(tokens, i)
       IN  IF here /\ tokens[i] = <<closer>> THEN IF depth = 1 THEN i ELSE NestedEnd(tokens, i + 1, closer, depth - 1, start)
           ELSE NestedEnd(tokens, i + 1, closer,
                          IF here /\ Closer(tokens[i]) = closer THEN depth + 1 ELSE depth, start)

WholeBody(tokens, i, end, words) ==
  IF end = 0 THEN NoShape ELSE Shape("function", words, <<Slice(tokens, i, end)>>, end + 1)

CompoundBody(tokens, i) ==
  CASE At(tokens, i) = <<"if">> -> IfShape(tokens, i, IfSection(tokens, i), << >>, << >>)
    [] At(tokens, i) = <<"for">> -> ForShape(tokens, i)
    [] At(tokens, i) = <<"case">> -> CaseCommand(tokens, i)
    [] At(tokens, i) \in {<<"while">>, <<"until">>} -> LoopShape(tokens, i)
    [] OTHER -> NoShape

\* A body of commands of its own: a group, a list in parentheses, or a command
\* refused above, up to the last of its closers.
OwnBody(tokens, i, words) ==
  LET closer == Closer(At(tokens, i))
  IN  IF Key(tokens, i, "(")
      THEN Enclosed(tokens, i, ParenEnd(tokens, i + 1, i + 1, 1, 0), "function", Append(words, "("))
      ELSE IF Key(tokens, i, "{")
      THEN Else(Enclosed(tokens, i, BraceEnd(tokens, i + 1, i + 1, 1, << >>), "function", Append(words, "{")),
                Enclosed(tokens, i, LastBrace(tokens, i), "function", Append(words, "{")))
      ELSE IF closer \in {"fi", "done"} /\ ~Key(tokens, i, "for")
      THEN WholeBody(tokens, i, NestedEnd(tokens, i, closer, 0, i), Append(words, "command"))
      ELSE NoShape
Around(shape, words) == IF shape.is = "none" THEN shape ELSE [shape EXCEPT !.around = words]
FunctionBody(tokens, i, words) ==
  IF IsGroupToken(At(tokens, i))
  THEN Shape("function", Append(words, "{"), <<Tokenized(SubSeq(tokens[i], 2, Len(tokens[i]) - 1))>>, i + 1)
  ELSE Else(Around(CompoundBody(tokens, i), words), OwnBody(tokens, i, words))

FunctionShape(tokens, i) ==
  IF ~StartsFunction(tokens, i) THEN NoShape
  ELSE FunctionBody(tokens, BodyStart(tokens, i),
         <<IF Key(tokens, i, "function") THEN "function" ELSE "plain", tokens[NameOf(tokens, i)][1]>>)

\* parse_time_prefixed_compound_command: a time before a simple command is a
\* word until the list is folded. time of a function is left out.
RECURSIVE PrefixEnd(_, _)
PrefixEnd(tokens, i) == IF IsAny(At(tokens, i), {"-p", "--", "!"}) THEN PrefixEnd(tokens, i + 1) ELSE i
TimedBody(tokens, at) ==
  IF Key(tokens, at, "{") \/ IsGroupToken(At(tokens, at)) THEN GroupShape(tokens, at)
  ELSE IF Key(tokens, at, "(") THEN SubshellShape(tokens, at)
  ELSE CompoundBody(tokens, at)
TimedFrom(tokens, i, at) == Around(TimedBody(tokens, at), <<"time">> \o FlattenSeq(Slice(tokens, i + 1, at - 1)))
TimeShape(tokens, i) == TimedFrom(tokens, i, PrefixEnd(tokens, i + 1))

\* The place after the next such word.
After(tokens, i, word) ==
  LET found == {k \in (i + 1)..Len(tokens) : tokens[k] = <<word>>}
  IN  IF found = {} THEN Len(tokens) + 1 ELSE 1 + CHOOSE k \in found : \A m \in found : k <= m

\* An if that is none: refused if its condition is empty or no fi follows its
\* then, and left to be a word otherwise.
FailedIf(tokens, i) ==
  IF \/ i = Len(tokens) \/ IsAny(At(tokens, i + 1), Breaks \cup {"then"})
     \/ <<"then">> \in ToSet(Slice(tokens, i, Len(tokens))) /\ <<"fi">> \notin ToSet(Slice(tokens, i, Len(tokens)))
  THEN ErrorShape(After(tokens, i, "fi")) ELSE NoShape

\* try_parse_compound_start
ShapeAt(tokens, i) ==
  LET token == tokens[i]
  IN  CASE token = <<"time">> -> TimeShape(tokens, i)
        [] token = <<"if">> -> Else(CompoundBody(tokens, i), FailedIf(tokens, i))
        [] token = <<"for">> -> CompoundBody(tokens, i)
        [] token \in {<<"while">>, <<"until">>} -> Else(CompoundBody(tokens, i), ErrorShape(After(tokens, i, "done")))
        [] token = <<"case">> -> Else(CompoundBody(tokens, i), ErrorShape(After(tokens, i, "esac")))
        [] token = <<"(">> -> Else(SubshellShape(tokens, i), ErrorShape(After(tokens, i, ")")))
        [] token = <<"{">> \/ IsGroupToken(token) -> GroupShape(tokens, i)
        [] Len(token) > 1 /\ token[1] = "{" /\ "}" \notin ToSet(token) /\ ToSet(token) \cap (Terminators \cup {";"}) # {} ->
             ErrorShape(After(tokens, i, "}"))
        [] IsWordToken(token) \/ token = <<"function">> -> FunctionShape(tokens, i)
        [] OTHER -> NoShape

-----------------------------------------------------------------------------
(* The fold of a list: what the operators after its commands mean.            *)

Cleared(n) == [n EXCEPT !.pipe = "", !.andor = "", !.bg = FALSE]

\* time_prefix_from_command: time is a word so far; the ones after it.
StartsWithTime(n) == n.is = "simple" /\ n.words # << >> /\ n.words[1] = "time"
TimePrefix(n) ==
  LET k == CHOOSE j \in 1..Len(n.words) :
             /\ \A m \in 2..j : n.words[m] \in {"-p", "--", "!"}
             /\ j = Len(n.words) \/ n.words[j + 1] \notin {"-p", "--", "!"}
  IN  SubSeq(n.words, 2, k)
Untimed(n) == [n EXCEPT !.words = SubSeq(n.words, 2 + Len(TimePrefix(n)), Len(n.words))]

\* What the operators around a command do, moved to the node put around it.
Moved(from, to) == [to EXCEPT !.andor = from.andor, !.bg = from.bg, !.not = from.not, !.pipe = from.pipe]
TimedSimple(n) ==
  IF StartsWithTime(n) THEN Moved(n, Timed(TimePrefix(n), [Cleared(Untimed(n)) EXCEPT !.not = FALSE])) ELSE n

LooksLikeCase(stages) == Len(stages[1].words) >= 4 /\ stages[1].is = "simple" /\ stages[1].words[3] = "in"

\* fold_pipeline_commands and fold_time_pipeline_commands
Piped(stages) ==
  LET first == [Cleared(stages[1]) EXCEPT !.not = FALSE]
      timed == StartsWithTime(stages[1])
      rest == [k \in 1..(Len(stages) - 1) |-> Cleared(TimedSimple(stages[k + 1]))]
      pipeline == Pipeline([k \in 1..(Len(stages) - 1) |-> stages[k].pipe],
                           <<IF timed THEN Untimed(first) ELSE first>> \o rest)
      whole == IF timed THEN Timed(TimePrefix(stages[1]), pipeline) ELSE pipeline
  IN  [Moved(Last(stages), whole) EXCEPT !.not = stages[1].not]
PipeStep(s, n) ==
  IF n.pipe # "" THEN [s EXCEPT !.run = Append(@, n)]
  ELSE IF s.run = << >> THEN [s EXCEPT !.out = Append(@, n)]
  ELSE [out |-> s.out \o (IF LooksLikeCase(s.run) THEN Append(s.run, n) ELSE <<Piped(Append(s.run, n))>>),
        run |-> << >>]
FoldPipes_TimesFirstStage(nodes) ==
  LET s == FoldLeft(PipeStep, [out |-> << >>, run |-> << >>], [k \in DOMAIN nodes |-> TimedSimple(nodes[k])])
  IN  IF s.run = << >> THEN s.out ELSE Append(s.out, Marked(s.run[1]))
FoldPipes(nodes) ==
  LET s == FoldLeft(PipeStep, [out |-> << >>, run |-> << >>], nodes)
  IN  IF s.run = << >> THEN s.out ELSE Append(s.out, Marked(s.run[1]))

\* fold_inverted_commands
FoldInverted(nodes) ==
  [k \in DOMAIN nodes |->
     IF nodes[k].not
     THEN [Inverted([nodes[k] EXCEPT !.not = FALSE, !.andor = "", !.bg = FALSE])
            EXCEPT !.andor = nodes[k].andor, !.bg = nodes[k].bg]
     ELSE nodes[k]]

\* fold_and_or_list_commands: a list whose last operator has no right side is
\* refused only if it has but one command.
AndOrStep(s, n) ==
  IF n.andor # "" THEN [s EXCEPT !.run = Append(@, n)]
  ELSE IF s.run = << >> THEN [s EXCEPT !.out = Append(@, n)]
  ELSE LET members == Append(s.run, n)
           list == AndOr([k \in DOMAIN s.run |-> s.run[k].andor], [k \in DOMAIN members |-> Cleared(members[k])])
       IN  [out |-> Append(s.out, [list EXCEPT !.bg = n.bg]), run |-> << >>]
FoldAndOrs(nodes) ==
  LET s == FoldLeft(AndOrStep, [out |-> << >>, run |-> << >>], nodes)
  IN  s.out \o (IF Len(s.run) = 1 THEN <<Marked(s.run[1])>> ELSE s.run)

\* fold_background_commands
FoldBackground(nodes) ==
  [k \in DOMAIN nodes |-> IF nodes[k].bg THEN InBackground([nodes[k] EXCEPT !.bg = FALSE]) ELSE nodes[k]]

Folded(nodes) ==
  LET piped == FoldPipes(nodes)
  IN  FoldBackground(FoldAndOrs(FoldInverted([k \in DOMAIN piped |-> TimedSimple(piped[k])])))

-----------------------------------------------------------------------------
(* One pass                                                                   *)

\* collect_trailing_redirections
RECURSIVE SkipTargets(_, _)
SkipTargets(tokens, i) ==
  IF Key(tokens, i, ">") /\ IsWordToken(At(tokens, i + 1)) THEN SkipTargets(tokens, i + 2) ELSE i

\* finish_compound_command: the operator after a compound command, if there is
\* one; anything else just begins the next command.
Finished(tokens, at, n) ==
  LET i == SkipTargets(tokens, at)
      m == [n EXCEPT !.to = i > at]
  IN  CASE IsAny(At(tokens, i), {"|", "|&"}) -> [node |-> [m EXCEPT !.pipe = tokens[i][1]], next |-> i + 1]
        [] IsAny(At(tokens, i), {"&&", "||"}) -> [node |-> [m EXCEPT !.andor = tokens[i][1]], next |-> i + 1]
        [] Key(tokens, i, "&") -> [node |-> [m EXCEPT !.bg = TRUE], next |-> i + 1]
        [] IsAny(At(tokens, i), Breaks) -> [node |-> m, next |-> i + 1]
        [] OTHER -> [node |-> m, next |-> i]

\* The node of a shape whose lists have been parsed, and the place after it.
ShapeNode(shape, parts) ==
  CASE shape.is = "error" -> Marked(Blank)
    [] shape.is = "case" ->
         Case(shape.words[1], [k \in DOMAIN parts |-> Clause(shape.words[k + 1], parts[k])])
    [] OTHER -> Node(shape.is, shape.words, parts)
InFunction(words, f) == Function(words[1], words[2], "command", <<f.node>>)
\* f: the command itself, finished.
Wrapped(tokens, shape, f) ==
  CASE shape.around = << >> -> [f EXCEPT !.next = IF shape.is = "function" THEN SkipBreaks(tokens, @) ELSE @]
    [] shape.around # << >> /\ shape.around[1] = "time" ->
         [f EXCEPT !.node = Moved(@, Timed(Tail(shape.around), Cleared(@)))]
    [] OTHER -> LET g == Finished(tokens, f.next, InFunction(shape.around, f))
                IN  [g EXCEPT !.next = SkipBreaks(tokens, @)]
Built(tokens, shape, parts) ==
  IF shape.is = "error" /\ shape.around = << >> THEN [node |-> Marked(Blank), next |-> shape.next]
  ELSE Wrapped(tokens, shape, Finished(tokens, shape.next, ShapeNode(shape, parts)))

\* handle_token: the command being read, the ones read, and the next place.
Pushed(s, n) == [cur |-> Blank, done |-> Append(s.done, n), lines |-> Append(s.lines, s.line), line |-> 0, next |-> s.next]
LineOf(tokens, i) == 1 + Cardinality({k \in 1..(i - 1) : tokens[k] = <<"nl">>})
Noted(s, tokens, i) == [s EXCEPT !.line = IF @ = 0 THEN LineOf(tokens, i) ELSE @, !.next = i + 1]
WithWord(s, token) == [s EXCEPT !.cur.words = @ \o token]
\* A } with no group to close takes the commands of its line with it.
WithoutLine(s, line) ==
  LET kept == CHOOSE k \in 0..Len(s.done) :
                /\ \A m \in (k + 1)..Len(s.done) : s.lines[m] = line
                /\ k = 0 \/ s.lines[k] # line
  IN  [s EXCEPT !.done = SubSeq(@, 1, kept), !.lines = SubSeq(@, 1, kept)]
Handled(tokens, i, s0) ==
  LET token == tokens[i]
      empty == IsEmpty(s0.cur)
      s == [s0 EXCEPT !.next = i + 1]
      n == Noted(s0, tokens, i)
  IN  CASE IsAny(token, {"|", "|&"}) -> Pushed(s, [s.cur EXCEPT !.pipe = token[1]])
        [] IsAny(token, Breaks) -> IF empty THEN s ELSE Pushed(s, s.cur)
        [] IsAny(token, {"&&", "||"}) ->
             Pushed(s, IF empty THEN Marked(Blank) ELSE [s.cur EXCEPT !.andor = token[1]])
        [] token = <<"&">> -> Pushed(s, [s.cur EXCEPT !.bg = TRUE])
        [] token = <<">">> ->
             IF IsWordToken(At(tokens, i + 1)) THEN [n EXCEPT !.cur.to = TRUE, !.next = i + 2] ELSE n
        [] token = <<"!">> /\ empty -> [n EXCEPT !.cur.not = TRUE]
        [] empty /\ IsAny(token, {"then", "do", "else", "elif", "fi", "done", "esac"}) -> Pushed(n, Marked(Blank))
        [] token = <<"}">> /\ empty -> Pushed(Noted(WithoutLine(s, LineOf(tokens, i)), tokens, i), Marked(Blank))
        [] token = <<"(">> /\ ~empty -> [s EXCEPT !.cur.err = TRUE]
        [] token = <<")">> -> s
        [] OTHER -> WithWord(n, token)

\* parse_with_options: parse. look: the compound command that starts here.
Begun == [cur |-> Blank, done |-> << >>, lines |-> << >>, line |-> 0, next |-> 1]
Shown(tokens, s) ==
  IF s.next <= Len(tokens) /\ MayStartCompound(s.cur) THEN ShapeAt(tokens, s.next) ELSE NoShape
Look(tokens, s) == [at |-> s, look |-> Shown(tokens, s)]
Taken(tokens, s, shape, built) ==
  [Pushed(s, [built.node EXCEPT !.not = s.cur.not])
     EXCEPT !.next = built.next,
            !.lines[Len(s.done) + 1] = IF shape.is = "error" THEN 0 ELSE LineOf(tokens, s.next)]
Finish(s) == Folded(IF IsEmpty(s.cur) THEN s.done ELSE Append(s.done, s.cur))
RECURSIVE Walk(_, _)
Walk(tokens, w) ==
  IF w.at.next > Len(tokens) THEN Finish(w.at)
  ELSE Walk(tokens, Look(tokens,
         IF w.look.is = "none" THEN Handled(tokens, w.at.next, w.at)
         ELSE Taken(tokens, w.at, w.look,
                Built(tokens, w.look, [k \in DOMAIN w.look.lists |->
                  Walk(w.look.lists[k], Look(w.look.lists[k], Begun))]))))

Parsed(tokens) == Walk(tokens, Look(tokens, Begun))
=============================================================================
