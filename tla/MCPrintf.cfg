CONSTANTS
  Formats <- MCFormats
  Ints <- MCInts
  Strings <- MCStrings
  Bits = 8
  TextSize = 5
  PrintSize = 4
SPECIFICATION PrintfSpec
INVARIANTS
  PrintsMeaning
