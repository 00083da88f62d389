\* Documented: a cancelled bet gives the stakes back.
CONSTANTS
  p1 = p1
  p2 = p2
  p3 = p3
  dao1 = dao1
  dao2 = dao2
  yes = yes
  no = no
  maybe = maybe
  tokenX = tokenX
  tokenY = tokenY
  FeeScale = 10000
  RatioOne = 2
  U64 = 65536
  PriceDecimals = 0
  I128Max = 1000
  Players <- TwoPlayers
  Accounts = {dao1}
  InitOwner = dao1
  Tokens = {tokenX}
  Titles = {yes, no, maybe}
  OptionSets <- YesNo
  EndTimes = {0, 1}
  Configs <- OneConfig
  Stakes = {10}
  InitPurse = 20
  OwnershipChanges = FALSE
  RegistryChanges = FALSE
  MaxBets = 2
  MaxTime = 1
  NoResult = NoResult
  Nobody = Nobody
SPECIFICATION Spec
SYMMETRY SymPlayers
PROPERTIES
  CancelRefundsInFull
