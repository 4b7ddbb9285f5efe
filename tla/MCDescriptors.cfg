SPECIFICATION MCDSpec
CONSTANTS
  Fds = {3,10,11}
  Numbered = {3}
  FeatureSets <- MCFeatureSets
  MaxOpens = 2
  MaxScopes = 2
  ReadWords <- MCReadWords
  Lines <- MCReadLines
  Separators <- MCSeparators
  MaxNames = 3
  Texts <- MCTexts
  MaxNesting = 2
  MaxCommands = 4
INVARIANTS DescriptorsSound InputSound
CHECK_DEADLOCK FALSE
