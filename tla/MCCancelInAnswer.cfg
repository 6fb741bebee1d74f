CONSTANTS
  client = client
  newcomer = newcomer
  c1 = c1
  c2 = c2
  Machines <- MCMachines
  Cookies <- TwoCookies
  Pair <- TwoPairs
  PartnerTicks = 2
  ResendTicks = 1
  Slack = 0
  Losses = 0
  MaxTries = 1
SPECIFICATION Spec
PROPERTIES
  NothingAfterCancel
