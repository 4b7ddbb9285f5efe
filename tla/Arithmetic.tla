------------------------------ MODULE Arithmetic ------------------------------
(* Arithmetic evaluation: one pass over the text that parses and evaluates at *)
(* once. An operand that && || or ?: leaves unevaluated is skipped as text,   *)
(* the value of a variable is itself a text to evaluate, and all arithmetic   *)
(* wraps. The reference is the expression tree, evaluated as in C.            *)
(*                                                                            *)
(* A text is a sequence of tokens; arrays, namerefs and $x are left out.      *)
EXTENDS Integers, Sequences, FiniteSets, SequencesExt

CONSTANTS
  Width,     \* bits of a number, 64 in the code
  CountMax,  \* the greatest shift count, u32::MAX in the code
  Literals,  \* token -> [base, digits, decimal]: decimal is what str::parse makes of it
  ArithNames,     \* variables
  ReadonlyNames,  \* of these, the readonly ones
  Stores,    \* ArithNames -> Values: what the variables hold at first
  Trees      \* the expressions

ASSUME WidthAssumption ==
  Width \in Nat \ {0} /\ CountMax \in Nat /\ ReadonlyNames \subseteq ArithNames

\* bash_arith: to a signed number of Width bits.
Half == 2 ^ (Width - 1)
Wrap_Never(n) == n
Wrap(n) == ((n + Half) % (2 * Half)) - Half
InWidth == -Half..(Half - 1)

Number(n) == [kind |-> "number", value |-> n]     \* written by an evaluation
Text(tokens) == [kind |-> "text", tokens |-> tokens]
UnsetValue == [kind |-> "unset"]

-----------------------------------------------------------------------------
(* The operations, as [ok, val]                                               *)

Bit(b) == IF b THEN 1 ELSE 0
BitAt(n, i) == (n \div 2 ^ i) % 2
Bitwise2(a, b, f(_, _)) ==
  LET bit == [i \in 0..(Width - 1) |-> f(BitAt(a, i), BitAt(b, i))]
  IN  Wrap(FoldLeft(LAMBDA acc, i : acc + bit[i - 1] * 2 ^ (i - 1), 0, [i \in 1..Width |-> i]))

\* Rust's / and % truncate towards zero.
Magnitude(n) == IF n < 0 THEN -n ELSE n
Quotient(a, b) ==
  LET q == Magnitude(a) \div Magnitude(b) IN IF (a < 0) = (b < 0) THEN q ELSE -q

\* checked_arithmetic_pow: a product wrapped at every step.
RECURSIVE Pow(_, _)
Pow(a, n) == IF n = 0 THEN 1 ELSE Wrap(a * Pow(a, n - 1))

Val(n) == [ok |-> TRUE, val |-> Wrap(n)]
NoVal == [ok |-> FALSE, val |-> 0]

\* A count that is no u32 is refused, the others are masked to the width.
Shifted(a, op, b) ==
  LET n == b % Width
  IN  IF b \notin 0..CountMax THEN NoVal
      ELSE IF op = "<<" THEN Val(a * 2 ^ n) ELSE Val(a \div 2 ^ n)

Arith(op, a, b) ==
  CASE op = "+" -> Val(a + b)
    [] op = "-" -> Val(a - b)
    [] op = "*" -> Val(a * b)
    [] op = "/" -> IF b = 0 THEN NoVal ELSE Val(Quotient(a, b))
    [] op = "%" -> IF b = 0 \/ (a = -Half /\ b = -1) THEN NoVal ELSE Val(a - b * Quotient(a, b))
    [] op = "**" -> IF b < 0 THEN NoVal ELSE Val(Pow(a, b))
    [] op \in {"<<", ">>"} -> Shifted(a, op, b)
    [] op = "==" -> Val(Bit(a = b)) [] op = "!=" -> Val(Bit(a # b))
    [] op = "<" -> Val(Bit(a < b)) [] op = ">" -> Val(Bit(a > b))
    [] op = "<=" -> Val(Bit(a <= b)) [] op = ">=" -> Val(Bit(a >= b))
    [] op = "&" -> Val(Bitwise2(a, b, LAMBDA p, q : p * q))
    [] op = "|" -> Val(Bitwise2(a, b, LAMBDA p, q : Bit(p + q > 0)))
    [] op = "^" -> Val(Bitwise2(a, b, LAMBDA p, q : (p + q) % 2))

Unary(op, a) ==
  CASE op = "-" -> Wrap(-a) [] op = "+" -> a [] op = "!" -> Bit(a = 0) [] op = "~" -> Wrap(-a - 1)

AssignOps == {"=", "+=", "*="}       \* of the twelve
Underlying(op) == CASE op = "+=" -> "+" [] op = "*=" -> "*"

-----------------------------------------------------------------------------
(* ConditionalArithParser. s is the parser: where it is, the variables,       *)
(* whether it still goes on, and the last value; nest counts the texts that   *)
(* are open, endless says that a text was opened beyond any bound, unbound    *)
(* which unset variables the outermost text read.                             *)

At(text, s) == IF s.pos \in DOMAIN text THEN text[s.pos] ELSE "end"
Step(s, n) == [s EXCEPT !.pos = @ + n]
Fail(s) == [s EXCEPT !.ok = FALSE]
Yield(s, r) == IF r.ok THEN [s EXCEPT !.val = r.val] ELSE Fail(s)
Start(env, nest) ==
  [pos |-> 1, env |-> env, ok |-> TRUE, val |-> 0, nest |-> nest, endless |-> FALSE, unbound |-> {}]

MaxNest == Cardinality(ArithNames) + 1

\* A literal with a digit too great for its base is an error.
LiteralValue(token) ==
  LET l == Literals[token]
  IN  IF \E i \in DOMAIN l.digits : l.digits[i] >= l.base THEN NoVal
      ELSE Val(FoldLeft(LAMBDA acc, digit : Wrap(acc * l.base + digit), 0, l.digits))

AssignmentNext(text, pos) ==
  pos + 1 \in DOMAIN text /\ text[pos] \in ArithNames /\ text[pos + 1] \in AssignOps

\* skip_arithmetic_rhs: to a boundary outside parentheses.
RECURSIVE SkipRhs(_, _, _, _)
SkipRhs(text, pos, depth, boundaries) ==
  IF pos \notin DOMAIN text \/ (depth = 0 /\ text[pos] \in boundaries) THEN pos
  ELSE IF text[pos] = "(" THEN SkipRhs(text, pos + 1, depth + 1, boundaries)
  ELSE IF text[pos] = ")" THEN IF depth = 0 THEN pos ELSE SkipRhs(text, pos + 1, depth - 1, boundaries)
  ELSE SkipRhs(text, pos + 1, depth, boundaries)

\* skip_arithmetic_conditional_branch: also outside the ?: met on the way.
SkipBranch_AnyColon(text, pos, depth, ternary, boundaries) ==
  SkipRhs(text, pos, depth, boundaries)

RECURSIVE SkipBranch(_, _, _, _, _)
SkipBranch(text, pos, depth, ternary, boundaries) ==
  IF pos \notin DOMAIN text \/ (depth = 0 /\ ternary = 0 /\ text[pos] \in boundaries) THEN pos
  ELSE LET token == text[pos] IN
    IF token = "(" THEN SkipBranch(text, pos + 1, depth + 1, ternary, boundaries)
    ELSE IF token = ")" /\ depth = 0 THEN pos
    ELSE SkipBranch(text, pos + 1,
           IF token = ")" THEN depth - 1 ELSE depth,
           IF depth # 0 THEN ternary
           ELSE IF token = "?" THEN ternary + 1
           ELSE IF token = ":" /\ ternary > 0 THEN ternary - 1 ELSE ternary, boundaries)

\* The levels of the binary operators that associate to the left.
Tighter(ops, rule) == [ops |-> ops, tighter |-> rule]
Levels ==
  [bitor |-> Tighter({"|"}, "bitxor"), bitxor |-> Tighter({"^"}, "bitand"),
   bitand |-> Tighter({"&"}, "comparison"),
   comparison |-> Tighter({"==", "!=", ">=", "<=", ">", "<"}, "shift"),
   shift |-> Tighter({"<<", ">>"}, "sum"), sum |-> Tighter({"+", "-"}, "term"),
   term |-> Tighter({"*", "/", "%"}, "power")]

\* The parser's functions call each other through Parse.
RECURSIVE Parse(_, _, _, _)

Opened(text, env, nest, resolving) == Parse("comma", text, Start(env, nest), resolving)

\* variable_value: a number, or a text to evaluate, unless it is being
\* evaluated already; the environment it leaves is the caller's.
Resolving_Forgotten(resolving, name) == resolving

Resolving(resolving, name) == resolving \cup {name}

VariableValue(s, name, resolving) ==
  LET value == s.env[name] IN
  IF name \in resolving THEN Fail(s)
  ELSE IF value.kind = "unset"
  THEN [[s EXCEPT !.val = 0] EXCEPT !.unbound = IF s.nest = 0 THEN @ \cup {name} ELSE @]
  ELSE IF value.kind = "number" THEN [s EXCEPT !.val = value.value]
  ELSE IF Len(value.tokens) = 1 /\ value.tokens[1] \in DOMAIN Literals
  THEN [s EXCEPT !.val = Wrap(Literals[value.tokens[1]].decimal)]
  ELSE IF s.nest > MaxNest THEN [Fail(s) EXCEPT !.endless = TRUE]
  ELSE LET r == Opened(value.tokens, s.env, s.nest + 1, Resolving(resolving, name))
       IN  [s EXCEPT !.env = r.env, !.val = r.val, !.endless = r.endless,
                     !.ok = r.ok /\ r.pos > Len(value.tokens)]

Store(s, name, n) == [s EXCEPT !.env[name] = Number(n), !.val = n]

\* The current value is read when the right side is done.
Assign(s, name, op, resolving) ==
  IF name \in ReadonlyNames THEN Fail(s)
  ELSE IF op = "=" THEN Store(s, name, s.val)
  ELSE LET current == VariableValue(s, name, resolving)
           r == Arith(Underlying(op), current.val, s.val)
       IN  IF ~current.ok \/ ~r.ok THEN Fail(current) ELSE Store(current, name, r.val)

\* update_lvalue
Update(s, name, delta, prefix, resolving) ==
  LET current == VariableValue(s, name, resolving)
      updated == Store(current, name, Wrap(current.val + delta))
  IN  IF name \in ReadonlyNames THEN Fail(s)
      ELSE IF ~current.ok THEN current
      ELSE IF prefix THEN updated ELSE [updated EXCEPT !.val = current.val]

RECURSIVE CommaRest(_, _, _)
Comma(text, s, resolving) == CommaRest(text, Parse("assignment", text, s, resolving), resolving)
CommaRest(text, s, resolving) ==
  IF ~s.ok \/ At(text, s) # "," THEN s
  ELSE CommaRest(text, Parse("assignment", text, Step(s, 1), resolving), resolving)

Assignment(text, s, resolving) ==
  IF AssignmentNext(text, s.pos)
  THEN LET r == Parse("assignment", text, Step(s, 2), resolving)
       IN  IF r.ok THEN Assign(r, text[s.pos], text[s.pos + 1], resolving) ELSE r
  ELSE Parse("conditional", text, s, resolving)

Conditional(text, s, resolving) ==
  LET c == Parse("or", text, s, resolving) IN
  IF ~c.ok \/ At(text, c) # "?" THEN c
  ELSE IF c.val = 0
  THEN LET colon == SkipBranch(text, c.pos + 1, 0, 0, {":"})
       IN  IF colon \notin DOMAIN text \/ text[colon] # ":" THEN Fail(c)
           ELSE Parse("conditional", text, [c EXCEPT !.pos = colon + 1], resolving)
  ELSE LET t == Parse("comma", text, Step(c, 1), resolving)
           end == SkipBranch(text, t.pos + 1, 0, 0, {",", ")", ":"})
       IN  IF ~t.ok \/ At(text, t) # ":" \/ AssignmentNext(text, t.pos + 1) \/ end = t.pos + 1
           THEN Fail(t) ELSE [t EXCEPT !.pos = end]

RECURSIVE OrRest(_, _, _)
LogicalOr(text, s, resolving) == OrRest(text, Parse("and", text, s, resolving), resolving)
OrRest(text, s, resolving) ==
  IF ~s.ok \/ At(text, s) # "||" THEN s
  ELSE IF AssignmentNext(text, s.pos + 1) THEN Fail(s)
  ELSE IF s.val # 0
  THEN OrRest(text, [s EXCEPT !.val = 1,
         !.pos = SkipRhs(text, @ + 1, 0, {"||", ",", "?", ":", ")"})], resolving)
  ELSE LET r == Parse("and", text, Step(s, 1), resolving)
       IN  OrRest(text, [r EXCEPT !.val = Bit(@ # 0)], resolving)

RECURSIVE AndRest(_, _, _)
LogicalAnd(text, s, resolving) == AndRest(text, Parse("bitor", text, s, resolving), resolving)
AndRest(text, s, resolving) ==
  IF ~s.ok \/ At(text, s) # "&&" THEN s
  ELSE IF AssignmentNext(text, s.pos + 1) THEN Fail(s)
  ELSE IF s.val = 0
  THEN AndRest(text, [s EXCEPT !.pos = SkipRhs(text, @ + 1, 0, {"&&", "||", ",", "?", ":", ")"})], resolving)
  ELSE LET r == Parse("bitor", text, Step(s, 1), resolving)
       IN  AndRest(text, [r EXCEPT !.val = Bit(@ # 0)], resolving)

RECURSIVE LevelRest(_, _, _, _)
Level(level, text, s, resolving) ==
  LevelRest(level, text, Parse(level.tighter, text, s, resolving), resolving)
LevelRest(level, text, s, resolving) ==
  IF ~s.ok \/ At(text, s) \notin level.ops THEN s
  ELSE LET r == Parse(level.tighter, text, Step(s, 1), resolving)
       IN  IF ~r.ok THEN r
           ELSE LevelRest(level, text, Yield(r, Arith(At(text, s), s.val, r.val)), resolving)

Power(text, s, resolving) ==
  LET base == Parse("factor", text, s, resolving) IN
  IF ~base.ok \/ At(text, base) # "**" THEN base
  ELSE LET r == Parse("power", text, Step(base, 1), resolving)
       IN  IF r.ok THEN Yield(r, Arith("**", base.val, r.val)) ELSE r

\* A quoted operand is a text of its own, evaluated with nothing resolving.
ClosingQuote(text, pos) ==
  LET later == {i \in DOMAIN text : i > pos /\ text[i] = "quote"}
  IN  IF later = {} THEN 0 ELSE CHOOSE i \in later : \A j \in later : i <= j

Quoted(text, s) ==
  LET close == ClosingQuote(text, s.pos)
      inner == SubSeq(text, s.pos + 1, close - 1)
  IN  IF close = 0 THEN Fail(s)
      ELSE IF inner = << >> THEN [Step(s, 2) EXCEPT !.val = 0]
      ELSE LET r == Opened(inner, s.env, s.nest, {})
           IN  [s EXCEPT !.env = r.env, !.val = r.val, !.endless = r.endless, !.pos = close + 1,
                         !.unbound = @ \cup r.unbound,
                         !.ok = r.ok /\ r.pos > Len(inner)]

Factor(text, s, resolving) ==
  LET token == At(text, s)
      next == At(text, Step(s, 1))
  IN  IF token \in {"++", "--"}
      THEN IF next \in ArithNames
           THEN Update(Step(s, 2), next, IF token = "++" THEN 1 ELSE -1, TRUE, resolving)
           ELSE Parse("factor", text, Step(s, 1), resolving)
      ELSE IF token \in {"+", "-", "!", "~"}
      THEN LET r == Parse("factor", text, Step(s, 1), resolving)
           IN  IF r.ok THEN [r EXCEPT !.val = Unary(token, @)] ELSE r
      ELSE IF token = "("
      THEN LET r == Parse("comma", text, Step(s, 1), resolving)
           IN  IF r.ok /\ At(text, r) = ")" THEN Step(r, 1) ELSE Fail(r)
      ELSE IF token = "quote" THEN Quoted(text, s)
      ELSE IF token \in DOMAIN Literals THEN Yield(Step(s, 1), LiteralValue(token))
      ELSE IF token \notin ArithNames THEN Fail(s)
      ELSE IF next \in {"++", "--"}
      THEN Update(Step(s, 2), token, IF next = "++" THEN 1 ELSE -1, FALSE, resolving)
      ELSE VariableValue(Step(s, 1), token, resolving)

Parse(rule, text, s, resolving) ==
  CASE rule = "comma" -> Comma(text, s, resolving)
    [] rule = "assignment" -> Assignment(text, s, resolving)
    [] rule = "conditional" -> Conditional(text, s, resolving)
    [] rule = "or" -> LogicalOr(text, s, resolving)
    [] rule = "and" -> LogicalAnd(text, s, resolving)
    [] rule = "power" -> Power(text, s, resolving)
    [] rule = "factor" -> Factor(text, s, resolving)
    [] OTHER -> Level(Levels[rule], text, s, resolving)

\* eval_mutable_arith_result: no text may be left.
Evaluated(text, env) ==
  LET r == Opened(text, env, 0, {})
  IN  [r EXCEPT !.ok = @ /\ r.pos > Len(text)]

\* arithmetic_unbound_variable, under set -u, looks at the text before: every
\* name that = does not follow must be set, evaluated or not.
IsTarget_OfComparison(text, i) == i + 1 \in DOMAIN text /\ text[i + 1] \in {"=", "=="}

IsTarget(text, i) == i + 1 \in DOMAIN text /\ text[i + 1] = "="

Refused(text, env) ==
  \E i \in DOMAIN text :
    text[i] \in ArithNames /\ ~IsTarget(text, i) /\ env[text[i]].kind = "unset"

-----------------------------------------------------------------------------
(* The reference: trees                                                       *)

Leaf(token) == [op |-> "leaf", token |-> token]
BinaryTree(op, l, r) == [op |-> op, l |-> l, r |-> r]
UnaryTree(op, t) == [op |-> "unary", sign |-> op, t |-> t]
StepTree(name, sign, prefix) == [op |-> "step", name |-> name, sign |-> sign, prefix |-> prefix]
AssignTree(name, op, t) == [op |-> "assign", name |-> name, by |-> op, t |-> t]
CondTree(c, t, e) == [op |-> "cond", c |-> c, t |-> t, e |-> e]

\* Precedence in C, with ** above the multiplications.
Precedence == <<{","}, {"assign"}, {"cond"}, {"||"}, {"&&"}, {"|"}, {"^"}, {"&"}, {"==", "!="},
                {"<", ">", "<=", ">="}, {"<<", ">>"}, {"+", "-"}, {"*", "/", "%"}, {"**"},
                {"unary", "step", "leaf"}>>
Prec(t) == CHOOSE i \in DOMAIN Precedence : t.op \in Precedence[i]

RECURSIVE Written(_)
InParens(t, least) == IF Prec(t) >= least THEN Written(t) ELSE <<"(">> \o Written(t) \o <<")">>

\* The text of a tree, with the parentheses it needs and no others.
Written(t) ==
  CASE t.op = "leaf" -> <<t.token>>
    [] t.op = "unary" -> <<t.sign>> \o InParens(t.t, 15)
    [] t.op = "step" -> IF t.prefix THEN <<t.sign, t.name>> ELSE <<t.name, t.sign>>
    [] t.op = "assign" -> <<t.name, t.by>> \o InParens(t.t, 2)
    [] t.op = "cond" ->
         InParens(t.c, 4) \o <<"?">> \o InParens(t.t, 1) \o <<":">> \o InParens(t.e, 3)
    [] t.op = "**" -> InParens(t.l, 15) \o <<"**">> \o InParens(t.r, 14)
    [] OTHER -> InParens(t.l, Prec(t)) \o <<t.op>> \o InParens(t.r, Prec(t) + 1)

RECURSIVE Meaning(_, _, _)

\* What becomes of m, which is [env, ok, val], by an operation that gives r, by the
\* assignment of its value, and by the value of a variable.
Yields(m, r) == IF m.ok /\ r.ok THEN [m EXCEPT !.val = r.val] ELSE [m EXCEPT !.ok = FALSE]
Truth(m) == [m EXCEPT !.val = Bit(@ # 0)]
Wrote(m, name) ==
  IF m.ok /\ name \notin ReadonlyNames THEN [m EXCEPT !.env[name] = Number(m.val)]
  ELSE [m EXCEPT !.ok = FALSE]
TextMeaning(r, tokens) == [env |-> r.env, ok |-> r.ok /\ r.pos > Len(tokens), val |-> r.val]
MeaningOf(name, m, open) ==
  IF ~m.ok \/ name \in open THEN [m EXCEPT !.ok = FALSE]
  ELSE CASE m.env[name].kind = "unset" -> [m EXCEPT !.val = 0]
         [] m.env[name].kind = "number" -> [m EXCEPT !.val = m.env[name].value]
         [] OTHER -> TextMeaning(Opened(m.env[name].tokens, m.env, 1, open \cup {name}),
                                 m.env[name].tokens)

\* The operands on the right, a being what the ones on the left left behind. What
\* is not needed is not looked at; x += e reads x after e.
Binary(t, a, b) == Yields(b, Arith(t.op, a.val, b.val))
Logical(t, a, open) ==
  IF (a.val = 0) = (t.op = "&&") THEN Truth(a) ELSE Truth(Meaning(t.r, a, open))
Stepped(t, a) == Wrote(Yields(a, Val(a.val + IF t.sign = "++" THEN 1 ELSE -1)), t.name)
Updated(t, a, b) == Wrote(Yields(b, Arith(Underlying(t.by), b.val, a.val)), t.name)
After(t, a, open) ==
  CASE t.op = "unary" -> Yields(a, Val(Unary(t.sign, a.val)))
    [] t.op = "step" -> IF t.prefix THEN Stepped(t, a) ELSE Yields(Stepped(t, a), a)
    [] t.op = "assign" -> IF t.by = "=" \/ t.name \in ReadonlyNames THEN Wrote(a, t.name)
                          ELSE Updated(t, a, MeaningOf(t.name, a, open))
    [] t.op = "cond" -> Meaning(IF a.val # 0 THEN t.t ELSE t.e, a, open)
    [] t.op = "," -> Meaning(t.r, a, open)
    [] t.op \in {"&&", "||"} -> Logical(t, a, open)
    [] OTHER -> Binary(t, a, Meaning(t.r, a, open))

\* The meaning of a tree: operands from left to right, and what was assigned
\* before an error assigned.
Meaning(t, m, open) ==
  IF ~m.ok THEN m ELSE
  CASE t.op = "leaf" -> IF t.token \in ArithNames THEN MeaningOf(t.token, m, open)
                        ELSE Yields(m, LiteralValue(t.token))
    [] t.op = "step" -> IF t.name \in ReadonlyNames THEN [m EXCEPT !.ok = FALSE]
                        ELSE After(t, MeaningOf(t.name, m, open), open)
    [] t.op \in {"unary", "assign"} -> After(t, Meaning(t.t, m, open), open)
    [] t.op = "cond" -> After(t, Meaning(t.c, m, open), open)
    [] OTHER -> After(t, Meaning(t.l, m, open), open)

Relations == {"<", ">", "<=", ">="}
Equalities == {"==", "!="}

\* Where the code is known to part from C: it gives == the precedence of <.
RECURSIVE Departs(_)
Departs(t) ==
  CASE t.op \in {"leaf", "step"} -> FALSE
    [] t.op \in {"unary", "assign"} -> Departs(t.t)
    [] t.op = "cond" -> Departs(t.c) \/ Departs(t.t) \/ Departs(t.e)
    [] OTHER -> (t.op \in Equalities /\ t.r.op \in Relations) \/ Departs(t.l) \/ Departs(t.r)

-----------------------------------------------------------------------------
VARIABLES
  store,    \* the variables
  before,   \* history: the variables before the evaluation
  tree,     \* the expression evaluated, << >> before
  result,   \* what the evaluation gave
  nounset,  \* set -u
  refused   \* did set -u keep the expression from being evaluated?

arVars == <<store, before, tree, result, nounset, refused>>

ArithInit ==
  /\ store \in Stores /\ before = store
  /\ tree = << >> /\ result = Start(store, 0)
  /\ nounset \in BOOLEAN /\ refused = FALSE

\* (( tree )): refused under set -u, or evaluated.
Evaluate(t) ==
  LET text == Written(t) IN
  /\ ~(nounset /\ Refused(text, store))
  /\ result' = Evaluated(text, store)
  /\ store' = result'.env
  /\ tree' = <<t>>
  /\ UNCHANGED <<before, nounset, refused>>

RefuseUnbound(t) ==
  /\ nounset /\ Refused(Written(t), store)
  /\ result' = Fail(Start(store, 0)) /\ refused' = TRUE
  /\ tree' = <<t>>
  /\ UNCHANGED <<store, before, nounset>>

ArithNext == tree = << >> /\ \E t \in Trees : Evaluate(t) \/ RefuseUnbound(t)

ArithSpec == ArithInit /\ [][ArithNext]_arVars

-----------------------------------------------------------------------------
(* Properties *)

\* Every value fits the width.
ArithTypeOK ==
  /\ result.val \in InWidth
  /\ \A name \in ArithNames : store[name].kind = "number" => store[name].value \in InWidth

Gives(m) == result.ok = m.ok /\ store = m.env /\ (result.ok => result.val = m.val)

\* The one pass over the text gives the value of the tree and leaves the
\* variables as its operands do from left to right, those skipped without
\* effect: also when an error ends it half way.
ArithmeticAgrees ==
  tree # << >> /\ ~nounset /\ ~Departs(tree[1]) =>
    Gives(Meaning(tree[1], [env |-> before, ok |-> TRUE, val |-> 0], {}))

HasQuote(value) == value.kind = "text" /\ \E i \in DOMAIN value.tokens : value.tokens[i] = "quote"

\* Variables that stand for each other end the evaluation with an error and not
\* never, unless a value is quoted.
EvaluationEnds == (\A name \in ArithNames : ~HasQuote(before[name])) => ~result.endless

\* The names whose values a tree asks for, evaluated or not, and those it changes by
\* += and the like. The comments on arithmetic_unbound_variable (issue #67) call the
\* latter write targets too; the code exempts = alone and so refuses them.
RECURSIVE NamesRead(_)
NamesRead(t) ==
  CASE t.op = "leaf" -> {t.token} \cap ArithNames
    [] t.op = "step" -> {t.name}
    [] t.op \in {"unary", "assign"} -> NamesRead(t.t)
    [] t.op = "cond" -> NamesRead(t.c) \cup NamesRead(t.t) \cup NamesRead(t.e)
    [] OTHER -> NamesRead(t.l) \cup NamesRead(t.r)

RECURSIVE CompoundTargets(_)
CompoundTargets(t) ==
  CASE t.op \in {"leaf", "step"} -> {}
    [] t.op = "unary" -> CompoundTargets(t.t)
    [] t.op = "assign" -> CompoundTargets(t.t) \cup IF t.by = "=" THEN {} ELSE {t.name}
    [] t.op = "cond" -> CompoundTargets(t.c) \cup CompoundTargets(t.t) \cup CompoundTargets(t.e)
    [] OTHER -> CompoundTargets(t.l) \cup CompoundTargets(t.r)

\* set -u refuses an expression exactly if a variable it reads is unset, or one it
\* changes by += and the like; so none that the expression itself names is read as 0.
UnboundRefused ==
  nounset /\ tree # << >> =>
    /\ result.unbound = {}
    /\ refused <=> \E name \in NamesRead(tree[1]) \cup CompoundTargets(tree[1]) :
                     before[name].kind = "unset"

\* An expression means what its tree does, in numbers of the width, and no unset
\* name of it is taken for 0 under set -u; evaluating it ends.
ArithmeticSound == ArithTypeOK /\ ArithmeticAgrees /\ UnboundRefused /\ EvaluationEnds
=============================================================================
