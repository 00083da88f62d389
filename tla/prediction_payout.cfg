\* Three players share one settled round: rounding of shares, fee and cuts.
CONSTANTS
  p1 = p1
  p2 = p2
  p3 = p3
  admin1 = admin1
  admin2 = admin2
  denomA = denomA
  denomB = denomB
  tickerA = tickerA
  tickerB = tickerB
  tokenX = tokenX
  tokenY = tokenY
  FeeScale = 10000
  RatioOne = 2
  U64 = 32
  PriceDecimals = 0
  I128Max = 1000
  Players <- ThreePlayers
  Accounts = {admin1, admin2}
  InitAdmins = {admin1, admin2}
  Tokens = {tokenX}
  Denoms = {denomA}
  Tickers = {tickerA}
  DenomTickers <- OneDenom
  Answers <- TwoPrices
  MaxOldPriceTime = 1
  Configs <- HalvesConfig
  WalletLists <- SomeWallets
  BetArrays <- NoBetArrays
  Stakes = {10, 20}
  InitPurse = 20
  HaltAllowed = FALSE
  RegistryChanges = FALSE
  MaxRound = 3
  MaxTime = 3
  NoRound = NoRound
SPECIFICATION Spec
SYMMETRY Symmetric
INVARIANTS
  RoundPaysOutItsPool
  Solvent
  WinnersCanClaim
