CONSTANTS
  h = h
  c = c
  NoOne = NoOne
  Nodes <- Two
  Campaigners <- One
  Seats = 4
  MaxTurns = 4
SPECIFICATION SessionsFairSpec
PROPERTIES
  ChoiceIsFinal
  LobbyStarts
  PendingEnds
