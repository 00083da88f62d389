\* Documented: the users contract of all the games can be updated.
CONSTANTS
  velo = velo
  dave = dave
  erin = erin
  gameCode = gameCode
  usersCode = usersCode
  usersA = usersA
  usersB = usersB
  outside = outside
  daoBets = daoBets
  thirds = thirds
  halves = halves
  Manager = velo
  People = {dave}
  InitOwner = dave
  GameCodes = {gameCode}
  Codes = {gameCode, usersCode}
  UsersContracts = {usersA, usersB}
  InitUsers = usersA
  OutsideGames = {outside}
  Strangers = {daoBets}
  WalletLists = {halves, thirds}
  WholeLists = {halves}
  InitWallets = halves
  DirectMessages <- Nothing
  UsersMessages <- Nothing
  OwnershipChanges = FALSE
  MaxHeight = 1
  Nobody = Nobody
SPECIFICATION Spec
INVARIANTS
  UsersContractUpdatable
