----------------------------- MODULE ReadOptions -----------------------------
(* The arguments of the read builtin. There is no getopt here: the clusters   *)
(* of letters a word may be made of are spelled out one by one, each with the *)
(* argument in the same word or in the next. A step takes one arm of the loop *)
(* over the words. What the words mean is what the getopt of the other        *)
(* builtins (builtins/getopt.c in Bash) makes of them.                        *)
EXTENDS Integers, Sequences, SequencesExt, TLC

CONSTANT ReadWords   \* the argument lists; a word is the sequence of its letters

Switches == {"e", "r", "s"}
WithArgument == {"a", "d", "i", "n", "N", "p", "t", "u"}
Digit == ("0" :> 0) @@ ("2" :> 2)       \* the numbers written here
NameLetters == {"x", "y", "r", "e"}     \* the identifiers written here

\* What an argument list comes to. status is that of a refusal, 0 if none.
NoReadOptions == [
  raw |-> FALSE, limit |-> -1, exact |-> FALSE, fd |-> -1, poll |-> FALSE, text |-> <<"none">>,
  delimiter |-> "newline", array |-> << >>, names |-> << >>, fields |-> 0, bad |-> FALSE,
  stop |-> FALSE, refused |-> 0]

IsName(word) == word # << >> /\ \A i \in DOMAIN word : word[i] \in NameLetters
IsNumber(word) == Len(word) = 1 /\ word[1] \in DOMAIN Digit
FirstOf(word) == IF word = << >> THEN "NUL" ELSE word[1]

-----------------------------------------------------------------------------
(* Each option letter with its argument. A missing argument is << >> with     *)
(* given = FALSE.                                                             *)

Counted(o, word, given, exact) ==
  IF ~given THEN [o EXCEPT !.limit = -1, !.exact = exact]
  ELSE IF IsNumber(word) THEN [o EXCEPT !.limit = Digit[word[1]], !.exact = exact]
  ELSE [o EXCEPT !.refused = 1]

FromDescriptor(o, word, given) ==
  IF ~given THEN [o EXCEPT !.refused = 2]
  ELSE IF IsNumber(word) THEN [o EXCEPT !.fd = Digit[word[1]]]
  ELSE [o EXCEPT !.refused = 1]

Polled(o, word, given) ==
  IF ~given THEN [o EXCEPT !.refused = 2]
  ELSE IF IsNumber(word) THEN [o EXCEPT !.poll = (Digit[word[1]] = 0)]
  ELSE [o EXCEPT !.refused = 1]

Delimited(o, word) == [o EXCEPT !.delimiter = FirstOf(word)]

Preset(o, word, given) == [o EXCEPT !.text = IF given THEN word ELSE <<"none">>]

\* A bad name in a word of its own counts as a field, one in the cluster stops
\* the names that follow.
IntoArray(o, word, given, apart) ==
  IF ~given THEN [o EXCEPT !.refused = 2]
  ELSE IF IsName(word) THEN [o EXCEPT !.array = word]
  ELSE IF apart THEN [o EXCEPT !.bad = TRUE, !.fields = @ + 1]
  ELSE [o EXCEPT !.bad = TRUE, !.stop = TRUE]

WithOption(o, letter, word, given, apart) ==
  CASE letter = "a" -> IntoArray(o, word, given, apart)
    [] letter = "d" -> Delimited(o, word)
    [] letter = "i" -> Preset(o, word, given)
    [] letter = "n" -> Counted(o, word, given, FALSE)
    [] letter = "N" -> Counted(o, word, given, TRUE)
    [] letter = "p" -> o                   \* the prompt, shown and forgotten
    [] letter = "t" -> Polled(o, word, given)
    [] letter = "u" -> FromDescriptor(o, word, given)

Named(o, word) ==
  IF o.stop THEN o
  ELSE IF IsName(word) THEN [o EXCEPT !.names = Append(@, word), !.fields = @ + 1]
  ELSE [o EXCEPT !.bad = TRUE, !.fields = @ + 1, !.stop = TRUE]

-----------------------------------------------------------------------------
(* The clusters that are spelled out.                                         *)

IsOption(word) == Len(word) > 1 /\ word[1] = "-"
Letters(word) == Tail(word)
LeadingSwitches(letters) ==
  CHOOSE n \in 0..Len(letters) :
    /\ \A i \in 1..n : letters[i] \in Switches
    /\ n < Len(letters) => letters[n + 1] \notin Switches

\* Switches in front of an option letter: none, one, r with another in either
\* order, all three in any order. Not e and s without r, and no letter twice.
AnyOrder(S) == {s \in [1..3 -> S] : \A i, j \in 1..3 : i # j => s[i] # s[j]}
SpelledPrefixes ==
  {<< >>} \cup {<<s>> : s \in Switches} \cup AnyOrder(Switches)
    \cup {<<"r", s>> : s \in {"e", "s"}} \cup {<<s, "r">> : s \in {"e", "s"}}

\* Two option letters in a word, taken together: i with the switches, with d
\* and with n; -ar is -ra.
PresetClusters == {<<"i", "d">>, <<"d", "i">>, <<"i", "e">>, <<"i", "s">>}
DelimitedPresets == {<<"e", "d", "i">>, <<"d", "e", "i">>}
CountedPresets == {<<"n", "i">>, <<"i", "n">>}
PairClusters == PresetClusters \cup DelimitedPresets \cup CountedPresets

Pair(letters) == {c \in PairClusters : IsPrefix(c, letters)}
ArrayRaw(letters) == letters = <<"a", "r">>

\* -ri and -rsi throw their text away, -rei and -ersi do not.
Dropped(prefix, letter) == letter = "i" /\ prefix \in {<<"r">>, <<"r", "s">>, <<"s", "r">>}

-----------------------------------------------------------------------------
VARIABLES
  rwords,   \* the arguments
  rindex,   \* index: the word looked at
  ropts     \* the locals that the scan fills

roVars == <<rwords, rindex, ropts>>

ReadOptionsInit == rwords \in ReadWords /\ rindex = 1 /\ ropts = NoReadOptions

AtReadWord == rindex <= Len(rwords) /\ ropts.refused = 0
ThisWord == rwords[rindex]
HasNext(k) == rindex + k <= Len(rwords)
NextWord(k) == IF HasNext(k) THEN rwords[rindex + k] ELSE << >>
\* An option's argument is left to be taken for a name.
TakeWords_OnlyOne(n) == rindex' = rindex + IF n = 2 THEN 1 ELSE n
TakeWords(n) == rindex' = rindex + n

\* --: every word after it is a name.
EndOfReadOptions ==
  /\ AtReadWord /\ ThisWord = <<"-", "-">>
  /\ ropts' = FoldLeft(LAMBDA o, w : Named(o, w), ropts, SubSeq(rwords, rindex + 1, Len(rwords)))
  /\ TakeWords(Len(rwords) - rindex + 1)
  /\ UNCHANGED rwords

ReadSwitches ==
  /\ AtReadWord /\ IsOption(ThisWord)
  /\ LeadingSwitches(Letters(ThisWord)) = Len(Letters(ThisWord))
  /\ ropts' = [ropts EXCEPT !.raw = @ \/ Contains(ThisWord, "r")]
  /\ TakeWords(1)
  /\ UNCHANGED rwords

\* One option letter behind spelled switches.
ReadOption ==
  /\ AtReadWord /\ IsOption(ThisWord)
  /\ LET letters == Letters(ThisWord)
         n == LeadingSwitches(letters)
         prefix == SubSeq(letters, 1, n)
         rest == SubSeq(letters, n + 2, Len(letters))
         o == [ropts EXCEPT !.raw = @ \/ Contains(prefix, "r")]
     IN  /\ n < Len(letters) /\ letters[n + 1] \in WithArgument
         /\ prefix \in SpelledPrefixes /\ Pair(letters) = {} /\ ~ArrayRaw(letters)
         /\ ropts' = IF Dropped(prefix, letters[n + 1]) THEN o
                     ELSE IF rest = << >>
                     THEN WithOption(o, letters[n + 1], NextWord(1), HasNext(1), TRUE)
                     ELSE WithOption(o, letters[n + 1], rest, TRUE, FALSE)
         /\ TakeWords(IF rest = << >> THEN 2 ELSE 1)
  /\ UNCHANGED rwords

\* -ar name
ReadArrayRaw ==
  /\ AtReadWord /\ IsOption(ThisWord) /\ ArrayRaw(Letters(ThisWord))
  /\ ropts' = IntoArray([ropts EXCEPT !.raw = TRUE], NextWord(1), HasNext(1), TRUE)
  /\ TakeWords(2)
  /\ UNCHANGED rwords

\* -id, -di, -ie, -is
ReadPresetCluster ==
  /\ AtReadWord /\ IsOption(ThisWord)
  /\ LET letters == Letters(ThisWord)
         rest == SubSeq(letters, 3, Len(letters))
     IN  /\ Pair(letters) \cap PresetClusters # {}
         /\ ropts' = IF rest = << >> THEN Preset(ropts, NextWord(1), HasNext(1))
                     ELSE Preset(ropts, rest, TRUE)
         /\ TakeWords(IF rest = << >> THEN 2 ELSE 1)
  /\ UNCHANGED rwords

\* -edi, -dei: the delimiter and the text are the next two words, or the
\* letter i and the rest of this one.
ReadDelimitedPreset ==
  /\ AtReadWord /\ IsOption(ThisWord)
  /\ LET letters == Letters(ThisWord)
         rest == SubSeq(letters, 4, Len(letters))
     IN  /\ Pair(letters) \cap DelimitedPresets # {}
         /\ ropts' = IF rest = << >>
                     THEN Preset(Delimited(ropts, NextWord(1)), NextWord(2), HasNext(2))
                     ELSE Preset(Delimited(ropts, <<"i">>), rest, TRUE)
         /\ TakeWords(IF rest = << >> THEN 3 ELSE 1)
  /\ UNCHANGED rwords

\* -ni and -in
ReadCountedPreset ==
  /\ AtReadWord /\ IsOption(ThisWord)
  /\ LET letters == Letters(ThisWord)
         rest == SubSeq(letters, 3, Len(letters))
         first == letters[1] = "n"
         count == IF first THEN 1 ELSE 2
         KeepsExact(o) == [o EXCEPT !.exact = ropts.exact]
     IN  /\ Pair(letters) \cap CountedPresets # {}
         /\ ropts' = IF rest = << >>
                     THEN KeepsExact(Counted(Preset(ropts, NextWord(3 - count), HasNext(3 - count)),
                                             NextWord(count), HasNext(count), FALSE))
                     ELSE IF ~first THEN Preset(ropts, rest, TRUE)
                     ELSE IF IsNumber(rest) THEN [ropts EXCEPT !.limit = Digit[rest[1]]]
                     ELSE ropts
         /\ TakeWords(IF rest = << >> THEN 3 ELSE 1)
  /\ UNCHANGED rwords

\* Any other word with a dash.
ReadOptionRefused ==
  /\ AtReadWord /\ IsOption(ThisWord) /\ ThisWord # <<"-", "-">>
  /\ LET letters == Letters(ThisWord)
         n == LeadingSwitches(letters)
     IN  /\ n < Len(letters) /\ Pair(letters) = {}
         /\ \/ letters[n + 1] \notin WithArgument
            \/ SubSeq(letters, 1, n) \notin SpelledPrefixes
  /\ ropts' = [ropts EXCEPT !.refused = 2]
  /\ UNCHANGED <<rwords, rindex>>

ReadOperand ==
  /\ AtReadWord /\ ~IsOption(ThisWord)
  /\ ropts' = Named(ropts, ThisWord)
  /\ TakeWords(1)
  /\ UNCHANGED rwords

ReadOptionsNext ==
  \/ EndOfReadOptions \/ ReadSwitches \/ ReadOption \/ ReadArrayRaw \/ ReadPresetCluster
  \/ ReadDelimitedPreset \/ ReadCountedPreset \/ ReadOptionRefused \/ ReadOperand

ReadOptionsSpec == ReadOptionsInit /\ [][ReadOptionsNext]_roVars

-----------------------------------------------------------------------------
(* What the words mean: options up to the first operand, an option's argument *)
(* is the rest of its word or the next word.                                  *)

RECURSIVE MeantFrom(_, _, _)
MeantFrom(o, i, k) ==
  IF i > Len(rwords) \/ o.refused # 0 THEN o
  ELSE LET word == rwords[i] IN
    IF k = 2 /\ (~IsOption(word) \/ word = <<"-", "-">>)
    THEN FoldLeft(LAMBDA p, w : Named(p, w), o,
                 SubSeq(rwords, IF IsOption(word) THEN i + 1 ELSE i, Len(rwords)))
    ELSE IF k > Len(word) THEN MeantFrom(o, i + 1, 2)
    ELSE IF word[k] \in Switches
    THEN MeantFrom([o EXCEPT !.raw = @ \/ word[k] = "r"], i, k + 1)
    ELSE IF word[k] \notin WithArgument THEN [o EXCEPT !.refused = 2]
    ELSE IF k < Len(word)
    THEN MeantFrom(WithOption(o, word[k], SubSeq(word, k + 1, Len(word)), TRUE, FALSE), i + 1, 2)
    ELSE IF i < Len(rwords)
    THEN MeantFrom(WithOption(o, word[k], rwords[i + 1], TRUE, FALSE), i + 2, 2)
    ELSE [o EXCEPT !.refused = 2]

\* What the rest of read looks at.
Effect(o) ==
  IF o.refused # 0 THEN <<"refused", o.refused>>
  ELSE <<"read", o.raw, o.limit, o.limit >= 0 /\ o.exact, o.fd, o.poll, o.text, o.delimiter,
         o.array, IF o.array = << >> THEN o.names ELSE << >>, o.bad>>

\* Where the code is known to part from it.
OptionAfterOperand ==
  \E i, j \in DOMAIN rwords : i < j /\ ~IsOption(rwords[i]) /\ IsOption(rwords[j])
ClusterOf(word) ==
  LET letters == Letters(word)
      n == LeadingSwitches(letters)
  IN  \/ Pair(letters) # {} \/ ArrayRaw(letters)
      \/ n < Len(letters) /\ \/ SubSeq(letters, 1, n) \notin SpelledPrefixes
                             \/ Dropped(SubSeq(letters, 1, n), letters[n + 1])
OddCluster == \E i \in DOMAIN rwords : IsOption(rwords[i]) /\ ClusterOf(rwords[i])
ArgumentLeftOut ==
  /\ rwords # << >> /\ IsOption(Last(rwords))
  /\ Last(Last(rwords)) \in {"d", "i", "n", "N", "p"}

\* A bad array name leaves the scalar names to be read into.
BadArrayName == ropts.bad /\ ropts.array = << >> /\ \E i \in DOMAIN rwords : Contains(rwords[i], "a")

ReadOptionsTypeOK ==
  /\ rwords \in ReadWords /\ rindex \in 1..(Len(rwords) + 3)
  /\ ropts.refused \in 0..2 /\ ropts.raw \in BOOLEAN /\ ropts.limit \in {-1, 0, 2}
  /\ Len(ropts.names) <= ropts.fields

\* The scan of a list of words comes to what getopt makes of it, but for the
\* clusters that are not spelled or spelled otherwise, options after a name,
\* and an option that misses its argument at the end.
ReadOptionsAgree ==
  ~AtReadWord =>
    \/ Effect(ropts) = Effect(MeantFrom(NoReadOptions, 1, 2))
    \/ OptionAfterOperand \/ OddCluster \/ ArgumentLeftOut \/ BadArrayName
=============================================================================
