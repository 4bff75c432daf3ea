SPECIFICATION Spec
CONSTANTS
  Roots <- MCRoots
  Classes <- MCClasses
  Fuel = 2
  Lengths = {0, 2}
  RootLengths = {0, 1, 254, 255, 256}
  Booleans <- MCBooleans
  Chars <- MCChars
  Ints <- MCInts
  Strings <- MCStrings
  BigInts <- MCBigInts
  MaxWire = 6
INVARIANT InStep
PROPERTIES Faithful AllRead
CHECK_DEADLOCK FALSE
