------------------------------- MODULE Users -------------------------------
(***************************************************************************)
(* The users contract: profiles with experience and elo, which only the    *)
(* registered games may raise, and events, which record who played.        *)
(*                                                                         *)
(* Every profile is stored twice: ADDRESS_TO_USER is read and written by   *)
(* every handler, USERNAME_TO_USER holds copies of profiles under a        *)
(* username.  modify_user writes the copy under the username in lower      *)
(* case, add_experience_and_elo under the username as it was typed,        *)
(* reset_elo not at all, and no key is ever removed.                       *)
(*                                                                         *)
(* Left out: the fields of a profile nobody reads (names, description,     *)
(* urls, socials) and the censorship, length and url checks on them, so    *)
(* Usernames holds usernames that pass; an Option<u64> or Option<bool>     *)
(* that is None counts as 0 or FALSE, as every reader takes it.            *)
(*                                                                         *)
(* A definition whose name ends in _Fault is not part of the model: it is  *)
(* the definition below it with a plausible bug, kept to show that the     *)
(* properties tell the two apart.                                          *)
(***************************************************************************)
EXTENDS Integers, FiniteSets, Storage

CONSTANTS
  Addresses,      \* accounts that have profiles
  Accounts,       \* accounts that may be administrators
  InitAdmins,     \* the sender of instantiate and the extra_admins
  Games,          \* contracts that may be registered as games
  Usernames,      \* valid usernames, with their lower-case forms
  Typed,          \* the usernames users choose
  Lower,          \* to_lowercase
  Configs,        \* level configurations: stored, read by clients only
  Experiences,    \* amounts of experience a game awards
  EloChanges,     \* changes of elo a game asks for, NoEloChange for None
  EloResets,      \* elo_substraction of ResetElo; None counts as 0
  EventNames,     \* names of events
  EventTimes,     \* their start and end timestamps
  EventGames,     \* the lists of games they are announced with
  Verifications,  \* the arguments of ModifyVerification
  U64,            \* 2^64 in the code: experience and elo are u64
  MaxTime,        \* bound on the clock
  NoName,         \* username: None
  AnyGame         \* {AnyGame} is games: None, an event open to every game

UserType ==
  [address : Addresses, username : Usernames \cup {NoName}, experience : Nat,
   elo : Nat, creation_date : Nat, is_verified : BOOLEAN]
EventType ==
  [start_timestamp : Nat, end_timestamp : Nat, games : SUBSET (Games \cup {AnyGame})]

(* The change of elo of a call that asks for none *)
NoEloChange == [amount |-> 0, add |-> TRUE]

ASSUME UsersAssumption ==
  /\ InitAdmins \subseteq Accounts /\ InitAdmins # {}
  /\ Lower \in [Usernames -> Usernames]
  /\ \A n \in Usernames : Lower[Lower[n]] = Lower[n]
  /\ NoName \notin Usernames /\ AnyGame \notin Games
  /\ Typed \subseteq Usernames /\ Verifications \subseteq BOOLEAN
  /\ EventGames \subseteq (SUBSET Games) \cup {{AnyGame}}
  /\ Experiences \subseteq Nat
  /\ EloChanges \subseteq [amount : Nat, add : BOOLEAN]
  /\ EloResets \subseteq Nat /\ EventTimes \subseteq Nat
  /\ MaxTime \in Nat /\ U64 \in Nat \ {0}

VARIABLES
  config,          \* CONFIG
  admins,          \* ADMINS
  gameContracts,   \* GAME_CONTRACTS
  numUsers,        \* NUM_USERS
  addressToUser,   \* ADDRESS_TO_USER
  usernameToUser,  \* USERNAME_TO_USER
  ongoingEvents,   \* ONGOING_EVENTS: name -> event
  finishedEvents,  \* FINISHED_EVENTS: name -> event
  participated,    \* PARTICIPATED_EVENTS: a set of <<user, event name>>
  now              \* block time

adminVars == <<config, admins, gameContracts>>
userVars  == <<numUsers, addressToUser, usernameToUser>>
eventVars == <<ongoingEvents, finishedEvents, participated>>
vars == <<adminVars, userVars, eventVars, now>>

Init ==
  /\ config \in Configs
  /\ admins = InitAdmins
  /\ gameContracts = {}
  /\ numUsers = 0 /\ addressToUser = EmptyMap /\ usernameToUser = EmptyMap
  /\ ongoingEvents = EmptyMap /\ finishedEvents = EmptyMap /\ participated = {}
  /\ now = 0

Tick ==
  /\ now < MaxTime
  /\ now' = now + 1
  /\ UNCHANGED <<adminVars, userVars, eventVars>>

----------------------------------------------------------------------------
(* Administration *)

UpdateConfig(sender, new_config) ==
  /\ sender \in admins
  /\ config' = new_config
  /\ UNCHANGED <<admins, gameContracts, userVars, eventVars, now>>

(* AddGame is AddGames of one *)
AddGames(sender, games) ==
  /\ sender \in admins
  /\ gameContracts' = gameContracts \cup games
  /\ UNCHANGED <<config, admins, userVars, eventVars, now>>

RemoveGame(sender, game) ==
  /\ sender \in admins
  /\ gameContracts' = gameContracts \ {game}
  /\ UNCHANGED <<config, admins, userVars, eventVars, now>>

AddAdmin(sender, new_admin) ==
  /\ sender \in admins
  /\ admins' = admins \cup {new_admin}
  /\ UNCHANGED <<config, gameContracts, userVars, eventVars, now>>

RemoveAdmin_Fault(sender, old_admin) ==        \* the last one may go
  /\ sender \in admins
  /\ admins' = admins \ {old_admin}
  /\ UNCHANGED <<config, gameContracts, userVars, eventVars, now>>

RemoveAdmin(sender, old_admin) ==
  /\ sender \in admins
  /\ admins \ {old_admin} # {}
  /\ admins' = admins \ {old_admin}
  /\ UNCHANGED <<config, gameContracts, userVars, eventVars, now>>

----------------------------------------------------------------------------
(* Profiles *)

HasProfile(a) == a \in DOMAIN addressToUser

(* A profile made by a game before its owner made one has no username *)
NewUser(a, username) ==
  [address |-> a, username |-> username, experience |-> 0, elo |-> 0,
   creation_date |-> now, is_verified |-> FALSE]

Registered_Fault(a) == numUsers + 1     \* counts a returning user again

Registered(a) == IF HasProfile(a) THEN numUsers ELSE numUsers + 1

(* validate_user: the sender may keep the name it has, and a sender whose  *)
(* profile has no name is let through.                                     *)
NameAllowed(sender, username) ==
  Lower[username] \in DOMAIN usernameToUser =>
    /\ HasProfile(sender)
    /\ addressToUser[sender].username \in {NoName, username}

Renamed_Fault(sender, username) ==      \* what was earned is overwritten
  NewUser(sender, username)

Renamed(sender, username) ==
  IF HasProfile(sender)
  THEN [addressToUser[sender] EXCEPT !.username = username]
  ELSE NewUser(sender, username)

DirectoryKey_Fault(username) == username      \* kept as it was typed

DirectoryKey(username) == Lower[username]

ModifyUser(sender, username) ==
  LET user == Renamed(sender, username)
  IN  /\ NameAllowed(sender, username)
      /\ numUsers' = Registered(sender)
      /\ addressToUser' = Save(addressToUser, sender, user)
      /\ usernameToUser' = Save(usernameToUser, DirectoryKey(username), user)
      /\ UNCHANGED <<adminVars, eventVars, now>>

(* The copy under the username replaces the profile of its address *)
ModifyVerification(sender, username, is_verified) ==
  /\ sender \in admins
  /\ username \in DOMAIN usernameToUser
  /\ LET user == [usernameToUser[username] EXCEPT !.is_verified = is_verified]
     IN  /\ addressToUser' = Save(addressToUser, user.address, user)
         /\ usernameToUser' = Save(usernameToUser, username, user)
  /\ UNCHANGED <<adminVars, numUsers, eventVars, now>>

SaturatingSub(m, n) == IF m > n THEN m - n ELSE 0

ResetElo(sender, elo_substraction) ==
  /\ sender \in admins
  /\ addressToUser' =
       [a \in DOMAIN addressToUser |->
          [addressToUser[a] EXCEPT !.elo = SaturatingSub(@, elo_substraction)]]
  /\ UNCHANGED <<adminVars, numUsers, usernameToUser, eventVars, now>>

----------------------------------------------------------------------------
(* Games and events *)

EloAfter(current, elo) ==
  IF elo.add THEN current + elo.amount ELSE SaturatingSub(current, elo.amount)

Ended == {e \in DOMAIN ongoingEvents : now >= ongoingEvents[e].end_timestamp}

FinishedAfter_Fault == finishedEvents   \* an ended event is dropped

FinishedAfter == SaveAll(finishedEvents, [e \in Ended |-> ongoingEvents[e]])

OpenTo_Fault(event, game) == TRUE       \* the list of games is not consulted

OpenTo(event, game) == event.games \cap {AnyGame, game} # {}

CopiesAfterAward_Fault(user) == usernameToUser   \* the copy is forgotten

CopiesAfterAward(user) ==
  IF user.username = NoName THEN usernameToUser
                            ELSE Save(usernameToUser, user.username, user)

AddExperienceAndElo(game, a, experience, elo) ==
  LET current == IF HasProfile(a) THEN addressToUser[a] ELSE NewUser(a, NoName)
      user    == [current EXCEPT !.experience = @ + experience,
                                 !.elo = EloAfter(@, elo)]
  IN  /\ game \in gameContracts
      /\ user.experience < U64 /\ user.elo < U64
      /\ numUsers' = Registered(a)
      /\ addressToUser' = Save(addressToUser, a, user)
      /\ usernameToUser' = CopiesAfterAward(user)
      /\ ongoingEvents' = Remove(ongoingEvents, Ended)
      /\ finishedEvents' = FinishedAfter
      /\ participated' = participated \cup
           {<<a, e>> : e \in {f \in DOMAIN ongoingEvents \ Ended :
                                OpenTo(ongoingEvents[f], game)}}
      /\ UNCHANGED <<adminVars, now>>

(* Only an ongoing event keeps its name taken *)
AddEvent(sender, event_name, event) ==
  /\ sender \in admins
  /\ event_name \notin DOMAIN ongoingEvents
  /\ event.start_timestamp < event.end_timestamp
  /\ now < event.end_timestamp
  /\ ongoingEvents' = Save(ongoingEvents, event_name, event)
  /\ UNCHANGED <<adminVars, userVars, finishedEvents, participated, now>>

(* Adding a game to an event that was open to all closes it to the others *)
AddGameToEvent(sender, event_name, game) ==
  /\ sender \in admins
  /\ event_name \in DOMAIN ongoingEvents
  /\ ongoingEvents' =
       [ongoingEvents EXCEPT ![event_name].games =
          IF @ = {AnyGame} THEN {game} ELSE @ \cup {game}]
  /\ UNCHANGED <<adminVars, userVars, finishedEvents, participated, now>>

----------------------------------------------------------------------------
Play ==
  \E game \in Games, a \in Addresses, experience \in Experiences, elo \in EloChanges :
    AddExperienceAndElo(game, a, experience, elo)

EditProfile == \E a \in Addresses, username \in Typed : ModifyUser(a, username)

ManageUsers(sender) ==
  \/ \E username \in Usernames, is_verified \in Verifications :
       ModifyVerification(sender, username, is_verified)
  \/ \E elo_substraction \in EloResets : ResetElo(sender, elo_substraction)

ManageEvents(sender) ==
  \E event_name \in EventNames :
    \/ \E start, end \in EventTimes, games \in EventGames :
         AddEvent(sender, event_name, [start_timestamp |-> start,
                                       end_timestamp |-> end, games |-> games])
    \/ \E game \in Games : AddGameToEvent(sender, event_name, game)

ManageContract(sender) ==
  \/ \E new_config \in Configs : UpdateConfig(sender, new_config)
  \/ \E games \in SUBSET Games : AddGames(sender, games)
  \/ \E game \in Games : RemoveGame(sender, game)
  \/ \E account \in Accounts : AddAdmin(sender, account) \/ RemoveAdmin(sender, account)

Next ==
  \/ Play
  \/ EditProfile
  \/ \E sender \in Accounts :
       ManageUsers(sender) \/ ManageEvents(sender) \/ ManageContract(sender)
  \/ Tick

Spec == Init /\ [][Next]_vars

----------------------------------------------------------------------------
(* Properties *)

(* Every item and map of the contract's storage has its declared type, and *)
(* the contract always has an administrator.                               *)
TypeOK ==
  /\ config \in Configs
  /\ admins \in SUBSET Accounts /\ admins # {}
  /\ gameContracts \in SUBSET Games
  /\ numUsers \in Nat
  /\ DOMAIN addressToUser \subseteq Addresses
  /\ addressToUser \in [DOMAIN addressToUser -> UserType]
  /\ DOMAIN usernameToUser \subseteq Usernames
  /\ usernameToUser \in [DOMAIN usernameToUser -> UserType]
  /\ DOMAIN ongoingEvents \subseteq EventNames
  /\ ongoingEvents \in [DOMAIN ongoingEvents -> EventType]
  /\ DOMAIN finishedEvents \subseteq EventNames
  /\ finishedEvents \in [DOMAIN finishedEvents -> EventType]
  /\ participated \subseteq Addresses \X EventNames
  /\ now \in Nat

(* NUM_USERS counts the profiles, whichever of the three handlers that     *)
(* save a profile made it.                                                 *)
UsersCounted == numUsers = Cardinality(DOMAIN addressToUser)

(* However stale the copies are, the two maps stay consistent in what      *)
(* modify_verification relies on when it writes a copy back, so that this  *)
(* neither makes a profile nor changes when it was made: a profile is      *)
(* stored under its own address; a copy is stored under its own username,  *)
(* as typed or in lower case, and its address has a profile made at the    *)
(* same time; and a username in use is taken in lower case.                *)
DirectoryConsistent ==
  /\ UsersCounted
  /\ \A a \in DOMAIN addressToUser :
       LET user == addressToUser[a]
       IN  /\ user.address = a
           /\ user.username # NoName => Lower[user.username] \in DOMAIN usernameToUser
  /\ \A n \in DOMAIN usernameToUser :
       LET copy == usernameToUser[n]
       IN  /\ copy.username # NoName
           /\ n \in {copy.username, Lower[copy.username]}
           /\ copy.address \in DOMAIN addressToUser
           /\ copy.creation_date = addressToUser[copy.address].creation_date

(* When verification is harmless: a player whose username is in lower case *)
(* has the current profile stored under it, elo apart (ResetElo skips the  *)
(* copies), unless another profile has meanwhile been saved there.  Only   *)
(* capitals in the username let the copy grow stale.                       *)
LowerCaseCopiesFresh ==
  \A a \in DOMAIN addressToUser :
    LET user == addressToUser[a]
        copy == usernameToUser[user.username]
    IN  /\ user.username # NoName /\ Lower[user.username] = user.username
        /\ copy.address = a
        => copy = [user EXCEPT !.elo = copy.elo]

(* "A user can modify their user information (except ELO, XP, creation     *)
(* date and address)" (README.md:23): what a user, or a game for a user,   *)
(* does never touches another profile, and an edit keeps what its own      *)
(* profile has earned, that of a ghost included.                           *)
ProfilesIsolated ==
  [][\A a \in Addresses :
       LET edits == \E n \in Usernames : ModifyUser(a, n)
           plays == \E g \in Games, x \in Experiences, elo \in EloChanges :
                      AddExperienceAndElo(g, a, x, elo)
           same(b, field) == addressToUser'[b][field] = addressToUser[b][field]
       IN  edits \/ plays =>
             \A b \in DOMAIN addressToUser :
               IF b # a THEN addressToUser'[b] = addressToUser[b]
               ELSE /\ same(b, "creation_date") /\ same(b, "is_verified")
                    /\ edits => same(b, "experience") /\ same(b, "elo")
                    /\ plays => /\ same(b, "username")
                               /\ addressToUser'[b].experience
                                    >= addressToUser[b].experience]_vars

(* Participation in an event is recorded only before it ends, and by a     *)
(* registered game that takes part in it; it is never lost.                *)
ParticipationStep ==
  /\ participated \subseteq participated'
  /\ \A entry \in participated' \ participated :
       LET event == ongoingEvents[entry[2]]
       IN  /\ entry[2] \in DOMAIN ongoingEvents
           /\ now < event.end_timestamp
           /\ \E g \in gameContracts : event.games \cap {AnyGame, g} # {}

(* No step does otherwise. *)
ParticipationEarned == [][ParticipationStep]_vars

(* Whoever took part in an event has a profile, the event is still known,  *)
(* as ongoing or as finished, and a finished event is over.                *)
EventsNeverLost ==
  /\ \A entry \in participated :
       /\ HasProfile(entry[1])
       /\ entry[2] \in DOMAIN ongoingEvents \cup DOMAIN finishedEvents
  /\ \A e \in DOMAIN finishedEvents : finishedEvents[e].end_timestamp <= now

----------------------------------------------------------------------------
(* What the manager and the administrators see of the contract *)
RegistryView == [admins |-> admins, gameContracts |-> gameContracts]

SeenRegistry == INSTANCE UsersInterface WITH Senders <- Accounts

(* Every step that changes the administrators or the listed games is one   *)
(* of the messages the manager and the administrators may send, accepted   *)
(* on the conditions the manager's model assumes.                          *)
ImplementsRegistry ==
  [][SeenRegistry!Steps(RegistryView, RegistryView')]_RegistryView

----------------------------------------------------------------------------
(* Statements of the documentation that the code does not keep             *)

(* A username may be chosen if it "is not already taken" (README.md:23):   *)
(* no two profiles have usernames that are equal in lower case.            *)
UsernamesUnique ==
  \A a, b \in DOMAIN addressToUser :
    LET name(c) == addressToUser[c].username
    IN  a # b /\ NoName \notin {name(a), name(b)} => Lower[name(a)] # Lower[name(b)]

(* "XP will never be reset or modified" (README.md:28) by the owners: the  *)
(* experience of a profile never decreases.                                *)
ExperienceNeverLost ==
  [][\A a \in DOMAIN addressToUser :
       addressToUser'[a].experience >= addressToUser[a].experience]_vars

============================================================================
