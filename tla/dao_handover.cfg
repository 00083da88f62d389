\* Three players, one bet, two owners who may renounce, a registry that comes and goes.
CONSTANTS
  p1 = p1
  p2 = p2
  p3 = p3
  dao1 = dao1
  dao2 = dao2
  yes = yes
  no = no
  maybe = maybe
  tokenX = tokenX
  tokenY = tokenY
  FeeScale = 10000
  RatioOne = 2
  U64 = 65536
  PriceDecimals = 0
  I128Max = 1000
  Players <- ThreePlayers
  Accounts = {dao1, dao2}
  InitOwner = dao1
  Tokens = {tokenX, tokenY}
  Titles = {yes, no, maybe}
  OptionSets <- YesNo
  EndTimes = {0}
  Configs <- HandoverConfigs
  Stakes = {10}
  InitPurse = 20
  OwnershipChanges = TRUE
  RegistryChanges = TRUE
  MaxBets = 1
  MaxTime = 0
  NoResult = NoResult
  Nobody = Nobody
SPECIFICATION FairSpec
\* a contract without an owner stops when its players have spent their coins
CHECK_DEADLOCK FALSE
PROPERTIES
  RenouncedForGood
  ImplementsEscrow
  WinnersArePaid
