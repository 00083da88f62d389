\* Documented: a username that is taken cannot be chosen.
CONSTANTS
  u1 = u1
  u2 = u2
  Ann = Ann
  ann = ann
  bob = bob
  g1 = g1
  g2 = g2
  admin1 = admin1
  admin2 = admin2
  party = party
  league = league
  levels = levels
  Addresses = {u1, u2}
  Accounts = {admin1}
  InitAdmins = {admin1}
  Games = {g1}
  Usernames = {Ann, ann, bob}
  Typed = {Ann, ann, bob}
  Lower <- LowerCase
  Configs = {levels}
  Experiences = {1}
  EloChanges <- NoElo
  EloResets = {1}
  EventNames = {}
  EventTimes = {0, 1, 2}
  EventGames = {}
  Verifications = {TRUE, FALSE}
  U64 = 3
  MaxTime = 1
  NoName = NoName
  AnyGame = AnyGame
SPECIFICATION Spec
SYMMETRY SymUsers
INVARIANTS
  UsernamesUnique
