------------------------------- MODULE Getopts -------------------------------
(* The getopts builtin: one call takes one option. Between calls the scan     *)
(* lives in two variables, OPTIND and an offset inside the current word, that *)
(* the script, and the functions it calls between two calls, can touch.       *)
EXTENDS Integers, Sequences

CONSTANTS
  Known,      \* option letters of the option string
  WithArg,    \* those followed by ":" in it
  Characters, \* of words
  ArgLists,   \* argument lists parsed by the main loop
  CalleeArgs  \* argument lists parsed by a function called from it

\* Left out of the words: the letter ":", which the code looks up in the option
\* string as any other and so takes for an option wherever the string has one.
ASSUME WithArgAssumption == WithArg \subseteq Known
ASSUME WordsAssumption == ArgLists \cup CalleeArgs \subseteq Seq(Seq(Characters))

Unset == "unset"

\* A word is the sequence of its characters.
IsDash(word) == word = <<"-">>
IsDashDash(word) == word = <<"-", "-">>
StartsWithDash(word) == word # << >> /\ word[1] = "-"
EndsOptions(word) == IsDash(word) \/ IsDashDash(word) \/ ~StartsWithDash(word)
Tails(word, k) == SubSeq(word, k, Len(word))

-----------------------------------------------------------------------------
(* What a parse promises: the options of an argument list, in order, each     *)
(* with the OPTARG it leaves, and the index of the first operand.             *)

\* The options of word i from each of its letters on, as <<letter, OPTARG>>, where
\* next are those of the words behind it and beyond those after the next word;
\* without a leading ":" in the option string unknown letters and missing
\* arguments give "?", with it OPTARG holds the letter.
LetterOptions(args, i, silent, next, beyond) ==
  LET word == args[i]
      from[k \in 2 .. Len(word) + 1] ==
        IF k > Len(word) THEN next
        ELSE LET letter == word[k]
                 complaint == IF silent THEN letter ELSE Unset
             IN  IF letter \notin Known THEN <<<<"?", complaint>>>> \o from[k + 1]
                 ELSE IF letter \notin WithArg THEN <<<<letter, Unset>>>> \o from[k + 1]
                 ELSE IF k < Len(word) THEN <<<<letter, Tails(word, k + 1)>>>> \o next
                 ELSE IF i < Len(args) THEN <<<<letter, args[i + 1]>>>> \o beyond
                 ELSE <<<<IF silent THEN ":" ELSE "?", complaint>>>>
  IN  from

\* The options from each word on.
WordOptions(args, silent) ==
  LET from[i \in 1 .. Len(args) + 2] ==
        IF i > Len(args) \/ EndsOptions(args[i]) THEN << >>
        ELSE LetterOptions(args, i, silent, from[i + 1], from[i + 2])[2]
  IN  from

Options(args, silent) == WordOptions(args, silent)[1]

-----------------------------------------------------------------------------
VARIABLES
  args,      \* the positional parameters of the frame that runs
  silent,    \* whether the option string starts with ":"
  target,    \* the name operand: a variable, a readonly one, no identifier
  optind,    \* OPTIND
  offset,    \* __RUBASH_GETOPTS_OFFSET, 1 when unset: from 0, in the current word
  optarg,    \* OPTARG
  status,    \* of the last call, 0 before the first
  found,     \* history: the options the calls of this frame gave
  stale,     \* history: the arguments changed and OPTIND was not set back
  caller     \* what `local OPTIND` saved, and the frame to come back to

gVars == <<args, silent, target, optind, offset, optarg, status, found, stale, caller>>

GetoptsTypeOK ==
  /\ args \in ArgLists \cup CalleeArgs
  /\ optind \in Nat \ {0} /\ (~stale => optind <= Len(args) + 1)
  /\ offset \in Nat \ {0}
  /\ status \in 0..2
  /\ Len(caller) <= 1

GetoptsInit ==
  /\ args \in ArgLists
  /\ silent \in BOOLEAN /\ target \in {"name", "readonly", "invalid"}
  /\ optind = 1 /\ offset = 1 /\ optarg = Unset
  /\ status = 0 /\ found = << >> /\ stale = FALSE /\ caller = << >>

\* getopts_bind_name
Bound == CASE target = "invalid" -> 1 [] target = "readonly" -> 2 [] OTHER -> 0

Word == args[optind]
AtStart == offset = 1
Letter == Word[offset + 1]
LastOfWord_ByOne == offset + 1 > Len(Word)

LastOfWord == offset + 2 > Len(Word)

\* The words that end the options before any of their letters is read.
Stops == AtStart /\ EndsOptions(Word)

\* A loop over getopts goes on while the status is 0.
Looping == status = 0
Scanning == Looping /\ optind <= Len(args) /\ ~Stops

Frame == UNCHANGED <<args, silent, target, stale, caller>>

\* A word "--" belongs to the options.
AfterOptions_AtDashes == optind

AfterOptions == IF IsDashDash(Word) THEN optind + 1 ELSE optind

\* getopts_finish_eof, from each of its three places: past the arguments, at a
\* word that is no option (after "--" when it is that), past the end of a word.
EndOfOptions ==
  /\ Looping
  /\ \/ optind > Len(args) /\ optind' = optind
     \/ optind <= Len(args) /\ Stops /\ optind' = AfterOptions
     \/ Scanning /\ offset + 1 > Len(Word) /\ optind' = optind + 1
  /\ offset' = 1 /\ optarg' = Unset /\ status' = 1
  /\ UNCHANGED found /\ Frame

\* The scan moves on by one letter.
Advance_LosesOffset ==
  /\ optind' = IF LastOfWord THEN optind + 1 ELSE optind
  /\ offset' = 1

Advance ==
  /\ optind' = IF LastOfWord THEN optind + 1 ELSE optind
  /\ offset' = IF LastOfWord THEN 1 ELSE offset + 1

Give(name, value) ==
  /\ found' = Append(found, <<name, value>>)
  /\ optarg' = value
  /\ status' = Bound
  /\ Frame

AtLetter == Scanning /\ offset + 1 <= Len(Word)

InvalidOption ==
  /\ AtLetter /\ Letter \notin Known
  /\ Advance
  /\ Give("?", IF silent THEN Letter ELSE Unset)

PlainOption ==
  /\ AtLetter /\ Letter \in Known \ WithArg
  /\ Advance
  /\ Give(Letter, Unset)

InlineArgument ==
  /\ AtLetter /\ Letter \in WithArg /\ ~LastOfWord
  /\ optind' = optind + 1 /\ offset' = 1
  /\ Give(Letter, Tails(Word, offset + 2))

NextWordArgument ==
  /\ AtLetter /\ Letter \in WithArg /\ LastOfWord /\ optind < Len(args)
  /\ optind' = optind + 2 /\ offset' = 1
  /\ Give(Letter, args[optind + 1])

MissingArgument ==
  /\ AtLetter /\ Letter \in WithArg /\ LastOfWord /\ optind = Len(args)
  /\ Advance
  /\ Give(IF silent THEN ":" ELSE "?", IF silent THEN Letter ELSE Unset)

GetoptsCall ==
  EndOfOptions \/ InvalidOption \/ PlainOption \/ InlineArgument \/ NextWordArgument
    \/ MissingArgument

\* OPTIND=1: a plain assignment of OPTIND forgets the offset.
ResetOptind ==
  /\ optind' = 1 /\ offset' = 1
  /\ status' = 0 /\ found' = << >> /\ stale' = FALSE
  /\ UNCHANGED <<args, silent, target, optarg, caller>>

\* set --: new positional parameters, and the scan stays where it was.
SetParameters(list) ==
  /\ args' = list
  /\ stale' = (optind # 1 \/ offset # 1)
  /\ status' = 0 /\ found' = << >>
  /\ UNCHANGED <<silent, target, optind, offset, optarg, caller>>

\* A function with `local OPTIND=1`: declaring it saves OPTIND and the offset
\* and removes the offset; the function's positional parameters are its own.
CallFunction(list) ==
  /\ caller = << >>
  /\ caller' = <<[args |-> args, optind |-> optind, offset |-> offset,
                  status |-> status, found |-> found, stale |-> stale]>>
  /\ args' = list
  /\ optind' = 1 /\ offset' = 1 /\ status' = 0 /\ found' = << >> /\ stale' = FALSE
  /\ UNCHANGED <<silent, target, optarg>>

\* restore_function_locals puts both back.
ReturnFromFunction_KeepsOptind ==
  /\ caller # << >>
  /\ args' = caller[1].args
  /\ status' = caller[1].status /\ found' = caller[1].found
  /\ stale' = caller[1].stale
  /\ caller' = << >>
  /\ UNCHANGED <<silent, target, optind, offset, optarg>>

ReturnFromFunction ==
  /\ caller # << >>
  /\ args' = caller[1].args
  /\ optind' = caller[1].optind /\ offset' = caller[1].offset
  /\ status' = caller[1].status /\ found' = caller[1].found
  /\ stale' = caller[1].stale
  /\ caller' = << >>
  /\ UNCHANGED <<silent, target, optarg>>

GetoptsNext ==
  \/ EndOfOptions \/ InvalidOption \/ PlainOption
  \/ InlineArgument \/ NextWordArgument \/ MissingArgument
  \/ ResetOptind
  \/ \E list \in CalleeArgs : SetParameters(list)
  \/ \E list \in CalleeArgs : CallFunction(list)
  \/ ReturnFromFunction

GetoptsSpec == GetoptsInit /\ [][GetoptsNext]_gVars

-----------------------------------------------------------------------------
(* Properties *)

\* One option a call, the calls of a frame give the options of its arguments in
\* order and, when the loop ends by itself, all of them: clusters, arguments in
\* the word or in the next, and functions with a local OPTIND called anywhere
\* in between, in the middle of a cluster too, change nothing.
OptionsInOrder ==
  ~stale => LET all == Options(args, silent)
  IN  /\ Len(found) <= Len(all) /\ found = SubSeq(all, 1, Len(found))
      /\ status = 1 /\ target # "invalid" => found = all

\* A call never looks at a letter twice: within a frame the scan moves to a later
\* letter, so that every loop over getopts ends.
ScanAdvances ==
  [][Len(found') > Len(found) /\ caller' = caller
       => optind' > optind \/ (optind' = optind /\ offset' > offset)]_gVars

\* At the end OPTIND is the first operand: what stands before it is options,
\* their arguments and the "--".
OperandsKept ==
  status = 1 /\ target # "invalid" /\ ~stale =>
    \/ optind = Len(args) + 1
    \/ IsDash(args[optind]) \/ ~StartsWithDash(args[optind])
    \/ \E j \in 1..(optind - 1) : IsDashDash(args[j])

\* What a loop over getopts sees is what the arguments say: the options in order,
\* then the first operand.
ArgumentsScanned == GetoptsTypeOK /\ OptionsInOrder /\ OperandsKept
=============================================================================
