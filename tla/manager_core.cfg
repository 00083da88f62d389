\* Up to two games, an owner who may renounce, halts, late prices, two users contracts.
CONSTANTS
  velo = velo
  dave = dave
  erin = erin
  gameCode = gameCode
  usersCode = usersCode
  usersA = usersA
  usersB = usersB
  outside = outside
  daoBets = daoBets
  thirds = thirds
  halves = halves
  Manager = velo
  People = {dave}
  InitOwner = dave
  GameCodes = {gameCode}
  Codes = {gameCode, usersCode}
  UsersContracts = {usersA, usersB}
  InitUsers = usersA
  OutsideGames = {}
  Strangers = {}
  WalletLists = {halves, thirds}
  WholeLists = {halves}
  InitWallets = halves
  DirectMessages <- Halts
  UsersMessages <- Dismissals
  OwnershipChanges = TRUE
  MaxHeight = 1
  Nobody = Nobody
SPECIFICATION FairSpec
INVARIANTS
  TypeOK
  OwnerCanCreate
  EmergencyHalt
PROPERTIES
  GamesStayWired
  DueGamesClose
