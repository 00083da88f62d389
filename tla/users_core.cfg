\* Two users, usernames with and without capitals, one game, one event.
CONSTANTS
  u1 = u1
  u2 = u2
  Ann = Ann
  ann = ann
  bob = bob
  g1 = g1
  g2 = g2
  admin1 = admin1
  admin2 = admin2
  party = party
  league = league
  levels = levels
  Addresses = {u1, u2}
  Accounts = {admin1, admin2}
  InitAdmins = {admin1, admin2}
  Games = {g1}
  Usernames = {Ann, ann, bob}
  Typed = {Ann, bob}
  Lower <- LowerCase
  Configs = {levels}
  Experiences = {1}
  EloChanges <- OnePoint
  EloResets = {1}
  EventNames = {party}
  EventTimes = {0, 1}
  EventGames <- ClosedOrOpen
  Verifications = {TRUE}
  U64 = 2
  MaxTime = 1
  NoName = NoName
  AnyGame = AnyGame
SPECIFICATION Spec
SYMMETRY Symmetric
INVARIANTS
  TypeOK
  DirectoryConsistent
  LowerCaseCopiesFresh
  EventsNeverLost
PROPERTIES
  ProfilesIsolated
  ParticipationEarned
  ImplementsRegistry
