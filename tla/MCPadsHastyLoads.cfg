CONSTANTS
  k = k
  a = a
  b = b
  NoSeat = NoSeat
  None = None
  Players = 3
  Keyboards <- OneKeyboard
  Lasting <- TwoPads
  Units <- TwoPads
  MaxPlugs = 3
  MaxTurns = 5
  Slots = 2
  TableSize = 3
SPECIFICATION Spec
SYMMETRY MCSymmetry
PROPERTY TableNamesSome
