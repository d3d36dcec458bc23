SPECIFICATION Spec
CONSTANTS
  SignBit = 8
  StackWords <- MCStackWords
  Junk = Junk
INVARIANTS
  TypeOK
  CallsAligned
  MeansCharacter
  TrapsOnZeroOnly
