SPECIFICATION TextsSpec
CONSTANTS
  MaxGrowth = 3
  MaxGrowthOfOdd = 2
  Alphabet <- MCAlphabet
  Files <- MCFiles
  Directories <- MCDirectories
  Links <- MCLinks
  Codes <- MCCodes
  Largest <- MCLargest
INVARIANTS
  ParsedAsWritten SpoiltIsRefused ReadTheSame
  PatternsMatch WordsAsPromised ConditionsAsWritten
CHECK_DEADLOCK FALSE
