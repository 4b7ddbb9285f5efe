------------------------------- MODULE MCTexts -------------------------------
(* The modules about text in one run: a behaviour grows a script or a word.   *)
EXTENDS MCLanguage, MCConditions

textVars == <<lVars, subject>>

LanguageIdle == script = << >> /\ style = "line" /\ growth = 0 /\ odd = FALSE

TextsInit ==
  \/ LanguageInit /\ subject = Nothing
  \/ LanguageIdle /\ (WordsInit \/ ConditionsInit)
TextsNext ==
  \/ subject = Nothing /\ LanguageNext /\ UNCHANGED subject
  \/ subject # Nothing /\ (WordsNext \/ ConditionsNext) /\ UNCHANGED lVars
TextsSpec == TextsInit /\ [][TextsNext]_textVars
=============================================================================
