---------------------------- MODULE MCDescriptors ----------------------------
(* Scripts that use a few kinds of redirections together, and what read and   *)
(* mapfile take from the streams they lead to. A behaviour is one of the two, *)
(* or one read with all its arguments, or one line and its fields.            *)
EXTENDS Descriptors, ReadOptions, ReadFields, InputStreams, TLC

MCFeatureSets == {
  {"in", "out", "rw", "copy", "close", "exec"},
  {"psub", "out", "copy", "close", "exec"},
  {"in", "out", "command", "exec", "copy", "close"},
  {"in", "out", "rw", "compound", "exec", "copy"},
  {"psub", "compound", "exec", "close", "nested"},
  {"in", "command", "compound", "close", "nested"},
  {"subshell", "exec", "out", "close", "copy"},
  {"coproc", "exec", "copy", "close", "out"},
  {"coproc", "command", "close", "out", "exec"},
  {"coproc", "compound", "rw", "exec", "close", "nested"},
  {"in", "psub", "command", "exec", "close"}}

\* read: switches and an option, the argument in the word or in the next one.
MCSwitches == {<< >>, <<"e">>, <<"r">>, <<"s">>, <<"e", "s">>, <<"r", "e">>, <<"s", "e", "r">>,
               <<"r", "r">>}
MCHeads == {<<"-">> \o p \o <<l>> : p \in MCSwitches, l \in WithArgument}
             \cup {<<"-">> \o p : p \in MCSwitches} \cup {<<"-">> \o c : c \in PairClusters}
             \cup {<<"-", "q">>, <<"-", "-">>, <<"-", "a", "r">>}
MCTails == {<< >>, <<"2">>, <<"x">>, <<"0">>}
MCReadWords ==
  {<< >>} \cup {<<h \o t>> : h \in MCHeads, t \in MCTails}
    \cup {<<h \o t, v>> : h \in MCHeads, t \in MCTails, v \in {<<"x">>, <<"2">>}}
    \cup {<<h, v, w>> : h \in MCHeads, v \in {<<"x">>, <<"2">>, <<"-", "r">>},
                       w \in {<<"y">>, <<"-", "n", "2">>, <<"0">>}}

MCReadLines == UNION {[1..n -> {"x", " ", ":", "\\"}] : n \in 0..4}
MCSeparators == {{}, {" "}, {":"}, {" ", ":"}}

\* Lines that go on, an empty line, last lines with and without a newline.
MCTexts == [s \in Streams |->
  CASE s = "own" -> <<"x", "\\", "\n", "x", "\n">>
    [] s = "process" -> <<"x", "\n", "\n", "x", "\n">>
    [] s = "pipe" -> <<"\n", "x">>
    [] s = "loop" -> <<"x", "\\", "\n", "x", "\n", "x", "\n">>
    [] OTHER -> <<"x", "\n", "x", "x", "\n">>]

VARIABLE component   \* the one used

RedirectionsIdle ==
  /\ shell = Start /\ scopes = << >> /\ coproc = "none" /\ opened = << >>
  /\ promised = [files |-> Start.table, scopes |-> << >>] /\ departed = {} /\ features = {}
OptionsIdle == rwords = << >> /\ rindex = 1 /\ ropts = NoReadOptions
FieldsIdle ==
  /\ request = [line |-> << >>, ifs |-> {}, escapes |-> FALSE, array |-> FALSE, names |-> 0]
  /\ assigned = NothingAssigned
StreamsIdle == InputStreamsInit /\ inherit

MCDInit ==
  \/ component = "redirections" /\ DescriptorsInit /\ OptionsIdle /\ FieldsIdle /\ StreamsIdle
  \/ component = "read options" /\ RedirectionsIdle /\ ReadOptionsInit /\ FieldsIdle /\ StreamsIdle
  \/ component = "read fields" /\ RedirectionsIdle /\ OptionsIdle /\ ReadFieldsInit /\ StreamsIdle
  \/ component = "streams" /\ RedirectionsIdle /\ OptionsIdle /\ FieldsIdle /\ InputStreamsInit

MCDNext ==
  /\ UNCHANGED component
  /\ \/ component = "redirections" /\ DescriptorsNext /\ UNCHANGED <<roVars, rfVars, isVars>>
     \/ component = "read options" /\ ReadOptionsNext /\ UNCHANGED <<dVars, rfVars, isVars>>
     \/ component = "read fields" /\ ReadFieldsNext /\ UNCHANGED <<dVars, roVars, isVars>>
     \/ component = "streams" /\ InputStreamsNext /\ UNCHANGED <<dVars, roVars, rfVars>>

MCDSpec == MCDInit /\ [][MCDNext]_<<dVars, roVars, rfVars, isVars, component>>

\* read makes of its arguments what getopt would, of a line the fields POSIX
\* says, and read and mapfile take their text from where the redirections of
\* the script left it, each with the departures its module names.
InputSound ==
  /\ component = "read options" => ReadOptionsTypeOK /\ ReadOptionsAgree
  /\ component = "read fields" => FieldsAssigned
  /\ component = "streams" => InputStreamsTypeOK /\ ReadsAsPromised
=============================================================================
