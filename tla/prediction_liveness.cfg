\* Scheduler, players, halting administrators, two denoms, unusable oracle answers.
CONSTANTS
  p1 = p1
  p2 = p2
  p3 = p3
  admin1 = admin1
  admin2 = admin2
  denomA = denomA
  denomB = denomB
  tickerA = tickerA
  tickerB = tickerB
  tokenX = tokenX
  tokenY = tokenY
  FeeScale = 10000
  RatioOne = 2
  U64 = 65536
  PriceDecimals = 1
  I128Max = 200
  Players <- TwoPlayers
  Accounts = {admin1}
  InitAdmins = {admin1}
  Tokens = {tokenX}
  Denoms = {denomA, denomB}
  Tickers = {tickerA}
  DenomTickers <- OneDenom
  Answers <- RoundAnswers
  MaxOldPriceTime = 1
  Configs <- RoundConfigs
  WalletLists <- SomeWallets
  BetArrays <- RoundArrays
  Stakes = {10}
  InitPurse = 10
  HaltAllowed = TRUE
  RegistryChanges = TRUE
  MaxRound = 3
  MaxTime = 3
  NoRound = NoRound
SPECIFICATION FairSpec
INVARIANTS
  DenomsPriced
PROPERTIES
  DueRoundsSettle
  WinnersArePaid
  ImplementsGame
