CONSTANTS
  Lines <- MCLines
  MaxPath = 9
  MaxArguments = 9
  Prefix <- MCPrefix
  Suffix <- MCSuffix
  StackTop = 80
SPECIFICATION Spec
INVARIANTS
  ArgvMatches
  ParsesPath
  ShortCommandsAreSafe
