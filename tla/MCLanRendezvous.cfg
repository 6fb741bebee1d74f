CONSTANTS
  client = client
  newcomer = newcomer
  c1 = c1
  c2 = c2
  Machines <- MCMachines
  Cookies <- OneCookie
  Pair <- OnePair
  PartnerTicks = 4
  ResendTicks = 1
  Slack = 0
  Losses = 1
  MaxTries = 2
SPECIFICATION FairSpec
INVARIANTS
  PairsDespiteLosses
PROPERTIES
  StopsWhenKnown
  EveryBeginEnds
