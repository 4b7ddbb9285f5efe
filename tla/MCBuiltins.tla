------------------------------ MODULE MCBuiltins ------------------------------
(* The builtins whose state outlives the command, each driven by every script *)
(* of a few values, and arithmetic. A behaviour uses one of them, the others  *)
(* stand by.                                                                  *)
EXTENDS WorkingDirectory, Getopts, Arithmetic, TLC

d == <<"d">>
link == <<"d", "l">>
MCReal == (Root :> Root) @@ (d :> d) @@ (link :> Root)
MCCdPath == <<d>>
MCCdableVars == [v \in {"d"} |-> d]

\* Words with one option, with two, with an argument inside or outside, ends
\* and operands.
MCWords == {<<"-","a">>, <<"-","a","b">>, <<"-","b">>, <<"-","b","x">>,
            <<"-","x","a">>, <<"-","-">>, <<"-">>, <<"x">>, << >>}
MCArgLists == UNION {[1..n -> MCWords] : n \in 0..3}
MCCalleeArgs == {<<<<"-","a","b">>, <<"x">>>>, <<<<"-","b">>>>}

\* Expressions of up to three operators over two variables, the number 2 and a
\* readonly variable, in 4 bits: -8 is the least number, 7 the greatest.
MCLiterals == "2" :> [base |-> 10, digits |-> <<2>>, decimal |-> 2]
Leaves == {Leaf("2"), Leaf("x"), Leaf("y")}
MCBinary(A, B) ==
  {BinaryTree(op, a, b) : op \in {"-", "/", "%", "**", "<<", "<", "==", "&", "&&", "||", ","},
                          a \in A, b \in B}
MCUnary(A) ==
  {UnaryTree(op, a) : op \in {"-", "!"}, a \in A} \cup
  {AssignTree("x", op, a) : op \in {"=", "+="}, a \in A}
MCConds(A, B, C) == {CondTree(a, b, c) : a \in A, b \in B, c \in C}
Small == Leaves \cup MCBinary(Leaves, Leaves) \cup MCUnary(Leaves) \cup MCConds(Leaves, Leaves, Leaves)
           \cup {StepTree("x", "++", p) : p \in BOOLEAN} \cup {StepTree("y", "--", TRUE)}
           \cup {AssignTree("z", "=", Leaf("2")), StepTree("z", "++", FALSE)}
JustX == {Leaf("x")}
Just2 == {Leaf("2")}
MCTrees == Small \cup MCBinary(Small, JustX) \cup MCBinary(JustX, Small) \cup MCUnary(Small)
             \cup MCConds(Small, JustX, Just2) \cup MCConds(JustX, Small, Just2)
             \cup MCConds(JustX, Just2, Small)

XY(x, y) == ("x" :> x) @@ ("y" :> y) @@ ("z" :> Number(1))
MCStores ==
  {XY(Number(3), Number(-8)), XY(Number(0), Text(<<"x", "++">>)), XY(Text(<<"y">>), Text(<<"x">>)),
   XY(UnsetValue, Text(<<"2", "-", "x">>)), XY(Text(<<"quote", "x", "quote">>), Number(-1))}

VARIABLE component   \* the one used

WdIdle ==
  /\ cwd = Root /\ pwd = Root /\ typed = Root /\ oldpwd = NoPath
  /\ stack = << >> /\ outer = << >> /\ strayed = FALSE /\ unsynced = FALSE /\ trail = << >>

GetoptsIdle ==
  /\ args = << >> /\ silent = FALSE /\ target = "name"
  /\ optind = 1 /\ offset = 1 /\ optarg = Unset /\ status = 0 /\ found = << >>
  /\ stale = FALSE /\ caller = << >>

ArithIdle ==
  /\ store = XY(UnsetValue, UnsetValue) /\ before = store
  /\ tree = << >> /\ result = Start(store, 0) /\ nounset = FALSE /\ refused = FALSE

BuiltinsInit ==
  \/ component = "directories" /\ WdInit /\ GetoptsIdle /\ ArithIdle
  \/ component = "getopts" /\ WdIdle /\ GetoptsInit /\ ArithIdle
  \/ component = "arithmetic" /\ WdIdle /\ GetoptsIdle /\ ArithInit

BuiltinsNext ==
  /\ UNCHANGED component
  /\ \/ component = "directories" /\ WdNext /\ UNCHANGED <<gVars, arVars>>
     \/ component = "getopts" /\ GetoptsNext /\ UNCHANGED <<wdVars, arVars>>
     \/ component = "arithmetic" /\ ArithNext /\ UNCHANGED <<wdVars, gVars>>

bVars == <<wdVars, gVars, arVars, component>>

BuiltinsSpec == BuiltinsInit /\ [][BuiltinsNext]_bVars
=============================================================================
