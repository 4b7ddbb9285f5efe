--------------------------- MODULE MCFunctionFrames ---------------------------
(* One variable, two plain values and one that only temporary assignments     *)
(* give; which scripts are run is up to the configuration.                    *)
EXTENDS FunctionFrames
CONSTANTS x, v1, v2, t1
OneName == {x}
AllValues == {v1, v2, t1}
TemporaryValues == {t1}

\* The plain values are interchangeable.
Sym == Permutations({v1, v2})

\* Locals of readonly and exported variables under temporary assignments; what
\* changes the variables that locals hide; what is unwound by errors.
ScriptKinds ==
  {{"local", "prefix", "readonly"},
   {"local", "unset", "global", "export", "export-n"},
   {"prefix", "eval", "subshell", "trap"}}

\* A trap that ends in an error inside a function with locals.
Handlers == {{"local", "trap"}}
===============================================================================
