----------------------------- MODULE MCControlFlow -----------------------------
(* The scripts that are run, by what they do. *)
EXTENDS ControlFlow

ScriptKinds == {{"exit"} \cup s : s \in
  {{"loop", "function", "shell", "break", "return"},
   {"for", "if", "function", "break", "return"},
   {"errexit", "and-or", "function", "return"},
   {"errexit", "and-or", "shell"},
   {"errexit", "loop", "break"},
   {"errexit", "for", "if", "break"},
   {"errexit", "invert", "time", "group"},
   {"ERR", "errtrace", "for", "function", "break", "return", "handler-jumps"},
   {"ERR", "for", "shell", "break"},
   {"EXIT", "for", "function", "break", "return", "handler-jumps"},
   {"EXIT", "errexit", "if", "return", "function"},
   {"EXIT", "shell"},
   {"redirect-fails", "shell"}}}

\* An and-or list under errexit.
Lists == {{"errexit", "and-or"}}
===============================================================================
