---------------------------- MODULE UsersProofs ----------------------------
(***************************************************************************)
(* Proofs about Users, for every value of its constants.                   *)
(*                                                                         *)
(* The three handlers that save a profile are first reduced to what they   *)
(* have in common (SavesProfile): one profile is stored under its own      *)
(* address and as a copy under some of its usernames.  DirectoryConsistent *)
(* is not inductive without KeysClosed: ModifyVerification may write back  *)
(* a copy whose owner has meanwhile changed the username, and the lower    *)
(* case of the old one must still be taken.                                *)
(*                                                                         *)
(* The last part is about what the documentation promises of usernames and *)
(* of experience and the code does not keep: the one step that breaks each *)
(* promise.                                                                *)
(***************************************************************************)
EXTENDS Users, FiniteSetTheorems, TLAPS

(* A username that has a copy also has one in lower case *)
KeysClosed == \A n \in DOMAIN usernameToUser : Lower[n] \in DOMAIN usernameToUser

(* The inductive invariant *)
IInv ==
  /\ TypeOK
  /\ DirectoryConsistent
  /\ KeysClosed
  /\ IsFiniteSet(DOMAIN addressToUser)

(* A contract without users satisfies it. *)
LEMMA InitInv == Init => IInv /\ LowerCaseCopiesFresh /\ EventsNeverLost
<1> SUFFICES ASSUME Init PROVE IInv /\ LowerCaseCopiesFresh /\ EventsNeverLost
  OBVIOUS
<1> USE UsersAssumption
<1>1. /\ DOMAIN addressToUser = {} /\ DOMAIN usernameToUser = {}
      /\ DOMAIN ongoingEvents = {} /\ DOMAIN finishedEvents = {}
      /\ participated = {} /\ numUsers = 0
  BY DEF Init, EmptyMap
<1>2. TypeOK
  BY <1>1 DEF Init, TypeOK
<1>3. UsersCounted /\ IsFiniteSet(DOMAIN addressToUser)
  BY <1>1, FS_EmptySet DEF UsersCounted
<1> QED
  BY <1>1, <1>2, <1>3 DEF IInv, DirectoryConsistent, KeysClosed,
       LowerCaseCopiesFresh, EventsNeverLost

(* What the handlers that save a profile have in common *)
SavesProfile(a, user, keys) ==
  /\ a \in Addresses /\ user \in UserType /\ user.address = a
  /\ addressToUser' = Save(addressToUser, a, user)
  /\ usernameToUser' = SaveAll(usernameToUser, [n \in keys |-> user])
  /\ keys \subseteq Usernames
  /\ \A n \in keys : /\ user.username # NoName
                     /\ n \in {user.username, Lower[user.username]}
                     /\ Lower[n] \in DOMAIN usernameToUser \cup keys
  /\ user.username # NoName =>
       /\ Lower[user.username] \in DOMAIN usernameToUser \cup keys
       /\ Lower[user.username] = user.username => user.username \in keys
  /\ a \in DOMAIN addressToUser => user.creation_date = addressToUser[a].creation_date
  /\ numUsers' = IF a \in DOMAIN addressToUser THEN numUsers ELSE numUsers + 1

(* The two maps afterwards *)
SavedMaps(a, user, keys) ==
  /\ DOMAIN addressToUser' = DOMAIN addressToUser \cup {a}
  /\ addressToUser'[a] = user
  /\ \A b \in DOMAIN addressToUser : b # a => addressToUser'[b] = addressToUser[b]
  /\ DOMAIN usernameToUser' = DOMAIN usernameToUser \cup keys
  /\ \A n \in keys : usernameToUser'[n] = user
  /\ \A n \in DOMAIN usernameToUser :
       n \notin keys => usernameToUser'[n] = usernameToUser[n]

(* Nothing but the saved profile and its copies changes. *)
LEMMA SavesFacts ==
  ASSUME NEW a, NEW user, NEW keys, SavesProfile(a, user, keys)
  PROVE  SavedMaps(a, user, keys)
BY DEF SavesProfile, SavedMaps, Save, SaveAll

(* A profile that exists has its type, and a new one is empty. *)
LEMMA ProfileFacts ==
  ASSUME IInv, NEW a \in Addresses
  PROVE  /\ a \in DOMAIN addressToUser => /\ addressToUser[a] \in UserType
                                          /\ addressToUser[a].address = a
         /\ \A username \in Usernames \cup {NoName} : NewUser(a, username) \in UserType
         /\ numUsers \in Nat /\ now \in Nat
BY DEF IInv, TypeOK, DirectoryConsistent, NewUser, UserType

(* An edit stores the profile under the username in lower case. *)
LEMMA EditSaves ==
  ASSUME IInv, NEW a \in Addresses, NEW username \in Usernames, ModifyUser(a, username)
  PROVE  SavesProfile(a, Renamed(a, username), {Lower[username]})
<1> USE UsersAssumption
<1> DEFINE user == Renamed(a, username)
           key  == Lower[username]
<1>1. /\ user \in UserType /\ user.address = a /\ user.username = username
      /\ a \in DOMAIN addressToUser => user.creation_date = addressToUser[a].creation_date
  BY ProfileFacts DEF Renamed, HasProfile, NewUser, UserType
<1>2. /\ addressToUser' = Save(addressToUser, a, user)
      /\ usernameToUser' = SaveAll(usernameToUser, [n \in {key} |-> user])
  BY DEF ModifyUser, DirectoryKey, Save
<1>3. numUsers' = IF a \in DOMAIN addressToUser THEN numUsers ELSE numUsers + 1
  BY DEF ModifyUser, Registered, HasProfile
<1>4. key \in Usernames /\ Lower[key] = key
  OBVIOUS
<1> HIDE DEF user, key
<1>5. /\ key \in {username, Lower[username]} /\ username # NoName
      /\ Lower[username] = key
  BY DEF key
<1>6. SavesProfile(a, user, {key})
  BY <1>1, <1>2, <1>3, <1>4, <1>5 DEF SavesProfile
<1> QED
  BY <1>6 DEF user, key

(* What a verification writes: the copy it found, under its own address. *)
VerifiedCopy(username, is_verified) ==
  [usernameToUser[username] EXCEPT !.is_verified = is_verified]

(* It saves that profile, under the same username. *)
LEMMA VerificationSaves ==
  ASSUME IInv, NEW sender, NEW username \in Usernames, NEW is_verified \in Verifications,
         ModifyVerification(sender, username, is_verified)
  PROVE  SavesProfile(usernameToUser[username].address,
                      VerifiedCopy(username, is_verified), {username})
<1> USE UsersAssumption
<1> DEFINE copy == usernameToUser[username]
           user == [copy EXCEPT !.is_verified = is_verified]
           a    == copy.address
<1>1. /\ username \in DOMAIN usernameToUser /\ copy \in UserType
      /\ copy.username # NoName /\ copy.username \in Usernames
      /\ username \in {copy.username, Lower[copy.username]}
      /\ a \in DOMAIN addressToUser
      /\ copy.creation_date = addressToUser[a].creation_date
      /\ Lower[username] \in DOMAIN usernameToUser
  BY DEF ModifyVerification, IInv, TypeOK, DirectoryConsistent, KeysClosed, UserType
<1>2. /\ user \in UserType /\ user.address = a /\ user.username = copy.username
      /\ user.creation_date = copy.creation_date
  BY <1>1 DEF UserType
<1>3. /\ addressToUser' = Save(addressToUser, a, user)
      /\ usernameToUser' = SaveAll(usernameToUser, [n \in {username} |-> user])
      /\ numUsers' = numUsers
  BY <1>2 DEF ModifyVerification, Save
<1>4. a \in Addresses /\ Lower[copy.username] = Lower[username]
  BY <1>1 DEF UserType
<1> HIDE DEF copy, user, a
<1>5. SavesProfile(a, user, {username})
  BY <1>1, <1>2, <1>3, <1>4 DEF SavesProfile
<1> QED
  BY <1>5 DEF VerifiedCopy, copy, user, a

(* A profile an award stores has lost nothing to it *)
NothingLost(a, user) ==
  a \in DOMAIN addressToUser =>
    /\ user.username = addressToUser[a].username
    /\ user.is_verified = addressToUser[a].is_verified
    /\ user.experience >= addressToUser[a].experience

(* An award stores the profile under its username as it is, if it has one. *)
LEMMA AwardSaves ==
  ASSUME IInv, NEW game, NEW a \in Addresses, NEW experience \in Experiences,
         NEW elo \in EloChanges, AddExperienceAndElo(game, a, experience, elo)
  PROVE  \E user, keys : /\ SavesProfile(a, user, keys) /\ NothingLost(a, user)
                         /\ a \notin DOMAIN addressToUser => user.username = NoName
<1> USE UsersAssumption
<1> DEFINE current == IF HasProfile(a) THEN addressToUser[a] ELSE NewUser(a, NoName)
           user    == [current EXCEPT !.experience = @ + experience,
                                      !.elo = EloAfter(@, elo)]
           keys    == IF user.username = NoName THEN {} ELSE {user.username}
<1>1. /\ current \in UserType /\ current.address = a
      /\ a \in DOMAIN addressToUser => current = addressToUser[a]
      /\ a \notin DOMAIN addressToUser => current.username = NoName
  BY ProfileFacts DEF HasProfile, NewUser
<1>2. \A n \in Nat : EloAfter(n, elo) \in Nat
  BY DEF EloAfter, SaturatingSub
<1>3. experience \in Nat
  OBVIOUS
<1> HIDE DEF current
<1>4. /\ user \in UserType /\ user.address = a
      /\ user.username = current.username
      /\ user.creation_date = current.creation_date
      /\ user.is_verified = current.is_verified
      /\ user.experience >= current.experience
  <2>1. current.experience + experience \in Nat /\ EloAfter(current.elo, elo) \in Nat
    BY <1>1, <1>2, <1>3 DEF UserType
  <2>2. current.experience + experience >= current.experience
    BY <1>1, <1>3 DEF UserType
  <2> QED
    BY <1>1, <2>1, <2>2 DEF UserType
<1>5. current.username \in Usernames \cup {NoName}
  BY <1>1 DEF UserType
<1>6. /\ addressToUser' = Save(addressToUser, a, user)
      /\ usernameToUser' = CopiesAfterAward(user)
      /\ numUsers' = IF a \in DOMAIN addressToUser THEN numUsers ELSE numUsers + 1
  BY DEF AddExperienceAndElo, Registered, HasProfile, current
<1> HIDE DEF user
<1>7. usernameToUser' = SaveAll(usernameToUser, [n \in keys |-> user])
  <2>1. usernameToUser = [n \in DOMAIN usernameToUser |-> usernameToUser[n]]
    BY DEF IInv, TypeOK
  <2> QED
    BY <1>6, <2>1 DEF CopiesAfterAward, Save, SaveAll
<1>8. user.username # NoName => Lower[user.username] \in DOMAIN usernameToUser
  BY <1>1, <1>4 DEF IInv, DirectoryConsistent
<1>9. keys \subseteq Usernames
  BY <1>4, <1>5
<1>10. SavesProfile(a, user, keys)
  BY <1>1, <1>4, <1>6, <1>7, <1>8, <1>9 DEF SavesProfile
<1>11. NothingLost(a, user)
  BY <1>1, <1>4 DEF NothingLost
<1> QED
  BY <1>1, <1>4, <1>10, <1>11

(* Saving a profile keeps both maps typed and consistent. *)
LEMMA SavesInv ==
  ASSUME IInv, NEW a, NEW user, NEW keys, SavesProfile(a, user, keys)
  PROVE  /\ DirectoryConsistent' /\ KeysClosed' /\ IsFiniteSet(DOMAIN addressToUser')
         /\ numUsers' \in Nat
         /\ DOMAIN addressToUser' \subseteq Addresses
         /\ addressToUser' \in [DOMAIN addressToUser' -> UserType]
         /\ DOMAIN usernameToUser' \subseteq Usernames
         /\ usernameToUser' \in [DOMAIN usernameToUser' -> UserType]
         /\ DOMAIN addressToUser \subseteq DOMAIN addressToUser'
<1> USE UsersAssumption
<1>maps. SavedMaps(a, user, keys)
  BY SavesFacts
<1>0. /\ a \in Addresses /\ user \in UserType /\ user.address = a
      /\ keys \subseteq Usernames
  BY DEF SavesProfile
<1>1. /\ numUsers \in Nat /\ numUsers = Cardinality(DOMAIN addressToUser)
      /\ IsFiniteSet(DOMAIN addressToUser)
  BY DEF IInv, TypeOK, DirectoryConsistent, UsersCounted
<1>2. UsersCounted' /\ IsFiniteSet(DOMAIN addressToUser') /\ numUsers' \in Nat
  <2>1. DOMAIN addressToUser' = DOMAIN addressToUser \cup {a}
    BY <1>maps DEF SavedMaps
  <2>2. a \notin DOMAIN addressToUser =>
          /\ IsFiniteSet(DOMAIN addressToUser \cup {a})
          /\ Cardinality(DOMAIN addressToUser \cup {a}) = Cardinality(DOMAIN addressToUser) + 1
    BY <1>1, FS_AddElement
  <2>3. a \in DOMAIN addressToUser => DOMAIN addressToUser' = DOMAIN addressToUser
    BY <2>1
  <2> QED
    BY <1>1, <2>1, <2>2, <2>3 DEF UsersCounted, SavesProfile
<1>3. /\ DOMAIN addressToUser' \subseteq Addresses
      /\ addressToUser' \in [DOMAIN addressToUser' -> UserType]
      /\ DOMAIN usernameToUser' \subseteq Usernames
      /\ usernameToUser' \in [DOMAIN usernameToUser' -> UserType]
      /\ DOMAIN addressToUser \subseteq DOMAIN addressToUser'
  BY <1>0 DEF IInv, TypeOK, SavesProfile, Save, SaveAll
<1>4. ASSUME NEW b \in DOMAIN addressToUser', addressToUser'[b].username # NoName
      PROVE  Lower[addressToUser'[b].username] \in DOMAIN usernameToUser'
  BY <1>4, <1>maps DEF SavedMaps, IInv, DirectoryConsistent, SavesProfile
<1>5. \A b \in DOMAIN addressToUser' : addressToUser'[b].address = b
  BY <1>0, <1>maps DEF SavedMaps, IInv, DirectoryConsistent
<1>6. ASSUME NEW n \in DOMAIN usernameToUser'
      PROVE  LET copy == usernameToUser'[n]
             IN  /\ copy.username # NoName
                 /\ n \in {copy.username, Lower[copy.username]}
                 /\ copy.address \in DOMAIN addressToUser'
                 /\ copy.creation_date = addressToUser'[copy.address].creation_date
  <2>1. CASE n \in keys
    BY <1>0, <2>1, <1>maps DEF SavedMaps, SavesProfile
  <2>2. CASE n \notin keys
    BY <2>2, <1>maps DEF SavedMaps, IInv, DirectoryConsistent, SavesProfile
  <2> QED
    BY <2>1, <2>2
<1>7. KeysClosed'
  BY <1>maps DEF SavedMaps, IInv, KeysClosed, SavesProfile
<1> QED
  BY <1>2, <1>3, <1>4, <1>5, <1>6, <1>7 DEF DirectoryConsistent

(* A username in lower case has the profile that was saved last under it.  *)
LEMMA SavesFresh ==
  ASSUME IInv, LowerCaseCopiesFresh, NEW a, NEW user, NEW keys, SavesProfile(a, user, keys)
  PROVE  LowerCaseCopiesFresh'
<1> USE UsersAssumption
<1>maps. SavedMaps(a, user, keys)
  BY SavesFacts
<1>0. /\ a \in Addresses /\ user \in UserType /\ user.address = a
      /\ user = [user EXCEPT !.elo = user.elo]
  BY DEF SavesProfile, UserType
<1> SUFFICES ASSUME NEW b \in DOMAIN addressToUser',
                    addressToUser'[b].username # NoName,
                    Lower[addressToUser'[b].username] = addressToUser'[b].username,
                    usernameToUser'[addressToUser'[b].username].address = b
             PROVE  LET copy == usernameToUser'[addressToUser'[b].username]
                    IN  copy = [addressToUser'[b] EXCEPT !.elo = copy.elo]
  BY DEF LowerCaseCopiesFresh
<1>1. CASE b = a
  BY <1>0, <1>1, <1>maps DEF SavedMaps, SavesProfile
<1>2. CASE b # a
  <2> DEFINE n == addressToUser[b].username
  <2>1. b \in DOMAIN addressToUser /\ addressToUser'[b] = addressToUser[b]
    BY <1>2, <1>maps DEF SavedMaps
  <2>2. n \notin keys
    BY <1>0, <1>2, <2>1, <1>maps DEF SavedMaps
  <2>3. n \in DOMAIN usernameToUser
    BY <2>1 DEF IInv, DirectoryConsistent
  <2>4. usernameToUser'[n] = usernameToUser[n]
    BY <2>2, <2>3, <1>maps DEF SavedMaps
  <2> QED
    BY <2>1, <2>4 DEF LowerCaseCopiesFresh
<1> QED
  BY <1>1, <1>2

(* A reset of the elo changes no field the directory depends on. *)
LEMMA ResetEloFacts ==
  ASSUME IInv, NEW sender, NEW elo_substraction \in EloResets,
         ResetElo(sender, elo_substraction)
  PROVE  /\ UNCHANGED <<adminVars, numUsers, usernameToUser, eventVars, now>>
         /\ DOMAIN addressToUser' = DOMAIN addressToUser
         /\ addressToUser' \in [DOMAIN addressToUser -> UserType]
         /\ \A a \in DOMAIN addressToUser :
              /\ addressToUser'[a].address = addressToUser[a].address
              /\ addressToUser'[a].username = addressToUser[a].username
              /\ addressToUser'[a].creation_date = addressToUser[a].creation_date
              /\ addressToUser'[a] = [addressToUser[a] EXCEPT !.elo = addressToUser'[a].elo]
<1> USE UsersAssumption
<1>1. /\ UNCHANGED <<adminVars, numUsers, usernameToUser, eventVars, now>>
      /\ DOMAIN addressToUser' = DOMAIN addressToUser
      /\ addressToUser' = [a \in DOMAIN addressToUser |-> addressToUser'[a]]
  BY DEF ResetElo
<1>2. ASSUME NEW a \in DOMAIN addressToUser
      PROVE  /\ addressToUser'[a] \in UserType
             /\ addressToUser'[a].address = addressToUser[a].address
             /\ addressToUser'[a].username = addressToUser[a].username
             /\ addressToUser'[a].creation_date = addressToUser[a].creation_date
             /\ addressToUser'[a] = [addressToUser[a] EXCEPT !.elo = addressToUser'[a].elo]
  <2> DEFINE elo == SaturatingSub(addressToUser[a].elo, elo_substraction)
  <2>1. addressToUser[a] \in UserType
    BY DEF IInv, TypeOK
  <2>2. elo \in Nat
    BY <2>1 DEF SaturatingSub, UserType
  <2>3. addressToUser'[a] = [addressToUser[a] EXCEPT !.elo = elo]
    BY DEF ResetElo
  <2> HIDE DEF elo
  <2> QED
    BY <2>1, <2>2, <2>3 DEF UserType
<1> QED
  BY <1>1, <1>2

(* A reset of the elo keeps the invariant: it leaves the maps' domains and *)
(* every field the directory depends on alone, and freshness is about the  *)
(* other fields.                                                           *)
LEMMA ResetEloInv ==
  ASSUME IInv, NEW sender, NEW elo_substraction \in EloResets,
         ResetElo(sender, elo_substraction)
  PROVE  IInv' /\ (LowerCaseCopiesFresh => LowerCaseCopiesFresh')
<1>1. TypeOK'
  BY ResetEloFacts DEF IInv, TypeOK, adminVars, eventVars
<1>2. DirectoryConsistent' /\ KeysClosed' /\ IsFiniteSet(DOMAIN addressToUser')
  <2>1. /\ numUsers' = numUsers /\ usernameToUser' = usernameToUser
        /\ DOMAIN addressToUser' = DOMAIN addressToUser
    BY ResetEloFacts
  <2>2. ASSUME NEW a \in DOMAIN addressToUser
        PROVE  /\ addressToUser'[a].address = addressToUser[a].address
               /\ addressToUser'[a].username = addressToUser[a].username
               /\ addressToUser'[a].creation_date = addressToUser[a].creation_date
    BY ResetEloFacts
  <2>3. UsersCounted' /\ KeysClosed' /\ IsFiniteSet(DOMAIN addressToUser')
    BY <2>1 DEF IInv, DirectoryConsistent, UsersCounted, KeysClosed
  <2> QED
    BY <2>1, <2>2, <2>3 DEF IInv, DirectoryConsistent
<1>3. ASSUME LowerCaseCopiesFresh, NEW a \in DOMAIN addressToUser,
             addressToUser'[a].username # NoName,
             Lower[addressToUser'[a].username] = addressToUser'[a].username,
             usernameToUser[addressToUser'[a].username].address = a
      PROVE  LET copy == usernameToUser[addressToUser'[a].username]
             IN  copy = [addressToUser'[a] EXCEPT !.elo = copy.elo]
  <2> DEFINE copy == usernameToUser[addressToUser[a].username]
             old  == addressToUser[a]
             new  == addressToUser'[a]
  <2>1. copy = [old EXCEPT !.elo = copy.elo]
    BY <1>3, ResetEloFacts DEF LowerCaseCopiesFresh
  <2>2. new = [old EXCEPT !.elo = new.elo] /\ old \in UserType
    BY ResetEloFacts DEF IInv, TypeOK
  <2>3. new.username = old.username
    BY ResetEloFacts
  <2> HIDE DEF copy, old, new
  <2>4. [new EXCEPT !.elo = copy.elo] = [old EXCEPT !.elo = copy.elo]
    BY <2>2 DEF UserType
  <2>5. copy = [new EXCEPT !.elo = copy.elo]
    BY <2>1, <2>4
  <2> QED
    BY <2>3, <2>5 DEF copy, new, old
<1>4. LowerCaseCopiesFresh => LowerCaseCopiesFresh'
  BY <1>3, ResetEloFacts DEF LowerCaseCopiesFresh
<1> QED
  BY <1>1, <1>2, <1>4 DEF IInv

(* Steps that save no profile. *)
LEMMA QuietInv ==
  ASSUME IInv, UNCHANGED userVars, TypeOK'
  PROVE  IInv' /\ (LowerCaseCopiesFresh => LowerCaseCopiesFresh')
BY DEF IInv, DirectoryConsistent, UsersCounted, KeysClosed, LowerCaseCopiesFresh, userVars

(* Administration keeps the types and an administrator, and touches       *)
(* neither profiles nor events.                                            *)
LEMMA ContractInv ==
  ASSUME IInv, NEW sender \in Accounts, ManageContract(sender)
  PROVE  TypeOK' /\ UNCHANGED <<userVars, eventVars, now>>
<1> USE UsersAssumption
<1>1. UNCHANGED <<userVars, eventVars, now>>
  BY DEF ManageContract, UpdateConfig, AddGames, RemoveGame, AddAdmin, RemoveAdmin
<1>2. /\ config' \in Configs /\ admins' \in SUBSET Accounts /\ admins' # {}
      /\ gameContracts' \in SUBSET Games
  BY DEF IInv, TypeOK, ManageContract, UpdateConfig, AddGames, RemoveGame, AddAdmin,
         RemoveAdmin
<1> QED
  BY <1>1, <1>2 DEF IInv, TypeOK, userVars, eventVars

(* An event that is added, or gets another game, keeps the types; no event *)
(* that was ongoing disappears.                                            *)
LEMMA EventsTyped ==
  ASSUME IInv, NEW sender \in Accounts, ManageEvents(sender)
  PROVE  /\ TypeOK'
         /\ UNCHANGED <<userVars, adminVars, finishedEvents, participated, now>>
         /\ DOMAIN ongoingEvents \subseteq DOMAIN ongoingEvents'
<1> USE UsersAssumption
<1>1. UNCHANGED <<userVars, adminVars, finishedEvents, participated, now>>
  BY DEF ManageEvents, AddEvent, AddGameToEvent
<1>2. /\ DOMAIN ongoingEvents' \subseteq EventNames
      /\ DOMAIN ongoingEvents \subseteq DOMAIN ongoingEvents'
      /\ ongoingEvents' \in [DOMAIN ongoingEvents' -> EventType]
  <2>1. ASSUME NEW e \in EventNames, NEW start \in EventTimes, NEW end \in EventTimes,
               NEW games \in EventGames,
               AddEvent(sender, e, [start_timestamp |-> start, end_timestamp |-> end,
                                    games |-> games])
        PROVE  /\ DOMAIN ongoingEvents' \subseteq EventNames
               /\ DOMAIN ongoingEvents \subseteq DOMAIN ongoingEvents'
               /\ ongoingEvents' \in [DOMAIN ongoingEvents' -> EventType]
    <3> DEFINE event == [start_timestamp |-> start, end_timestamp |-> end, games |-> games]
    <3>1. event \in EventType
      BY DEF EventType
    <3>2. ongoingEvents' = Save(ongoingEvents, e, event)
      BY <2>1 DEF AddEvent
    <3> HIDE DEF event
    <3> QED
      BY <3>1, <3>2 DEF Save, SaveAll, IInv, TypeOK
  <2>2. ASSUME NEW e \in EventNames, NEW game \in Games, AddGameToEvent(sender, e, game)
        PROVE  /\ DOMAIN ongoingEvents' \subseteq EventNames
               /\ DOMAIN ongoingEvents \subseteq DOMAIN ongoingEvents'
               /\ ongoingEvents' \in [DOMAIN ongoingEvents' -> EventType]
    <3> DEFINE old == ongoingEvents[e]
               games == IF old.games = {AnyGame} THEN {game} ELSE old.games \cup {game}
    <3>1. e \in DOMAIN ongoingEvents /\ old \in EventType
      BY <2>2 DEF AddGameToEvent, IInv, TypeOK
    <3>2. games \in SUBSET (Games \cup {AnyGame})
      BY <3>1 DEF EventType
    <3>3. ongoingEvents' = [ongoingEvents EXCEPT ![e] = [old EXCEPT !.games = games]]
      BY <2>2 DEF AddGameToEvent
    <3> HIDE DEF games, old
    <3>4. [old EXCEPT !.games = games] \in EventType
      BY <3>1, <3>2 DEF EventType
    <3> QED
      BY <3>1, <3>3, <3>4 DEF IInv, TypeOK
  <2> QED
    BY <2>1, <2>2 DEF ManageEvents
<1> QED
  BY <1>1, <1>2 DEF IInv, TypeOK, userVars, adminVars

(* What an award does to the events: those that have ended move from the   *)
(* ongoing to the finished ones, and participation is recorded in those    *)
(* still open to the game.                                                 *)
LEMMA PlayEvents ==
  ASSUME IInv, NEW game \in Games, NEW a \in Addresses, NEW experience \in Experiences,
         NEW elo \in EloChanges, AddExperienceAndElo(game, a, experience, elo)
  PROVE  /\ UNCHANGED <<adminVars, now>>
         /\ DOMAIN ongoingEvents' = DOMAIN ongoingEvents \ Ended
         /\ ongoingEvents' \in [DOMAIN ongoingEvents' -> EventType]
         /\ DOMAIN finishedEvents' = DOMAIN finishedEvents \cup Ended
         /\ finishedEvents' \in [DOMAIN finishedEvents' -> EventType]
         /\ \A e \in Ended : finishedEvents'[e] = ongoingEvents[e]
         /\ \A e \in DOMAIN finishedEvents \ Ended : finishedEvents'[e] = finishedEvents[e]
         /\ participated \subseteq participated'
         /\ \A entry \in participated' \ participated :
              /\ entry = <<a, entry[2]>>
              /\ entry[2] \in DOMAIN ongoingEvents \ Ended
              /\ OpenTo(ongoingEvents[entry[2]], game)
<1> DEFINE ended == [e \in Ended |-> ongoingEvents[e]]
<1>1. /\ UNCHANGED <<adminVars, now>>
      /\ ongoingEvents' = Remove(ongoingEvents, Ended)
      /\ finishedEvents' = SaveAll(finishedEvents, ended)
      /\ participated' = participated \cup
           {<<a, e>> : e \in {f \in DOMAIN ongoingEvents \ Ended :
                                OpenTo(ongoingEvents[f], game)}}
  BY DEF AddExperienceAndElo, FinishedAfter
<1>2. /\ DOMAIN ended = Ended
      /\ \A e \in Ended : ended[e] = ongoingEvents[e] /\ ended[e] \in EventType
  BY DEF Ended, IInv, TypeOK
<1> HIDE DEF ended
<1> QED
  BY <1>1, <1>2 DEF Remove, SaveAll, IInv, TypeOK

(* An award keeps the invariant. *)
LEMMA PlayInv ==
  ASSUME IInv, NEW game \in Games, NEW a \in Addresses, NEW experience \in Experiences,
         NEW elo \in EloChanges, AddExperienceAndElo(game, a, experience, elo)
  PROVE  IInv' /\ (LowerCaseCopiesFresh => LowerCaseCopiesFresh')
<1>1. PICK user, keys : SavesProfile(a, user, keys)
  BY AwardSaves
<1>2. /\ DOMAIN ongoingEvents' \subseteq EventNames
      /\ DOMAIN finishedEvents' \subseteq EventNames
  BY PlayEvents DEF IInv, TypeOK, Ended
<1>3. participated' \subseteq Addresses \X EventNames
  BY PlayEvents DEF IInv, TypeOK
<1>4. TypeOK'
  BY <1>1, <1>2, <1>3, PlayEvents, SavesInv DEF IInv, TypeOK, adminVars
<1> QED
  BY <1>1, <1>4, SavesInv, SavesFresh DEF IInv

(* Every step of the contract keeps the invariant, and the copies under    *)
(* lower-case usernames fresh.                                             *)
THEOREM NextInv ==
  IInv /\ [Next]_vars => IInv' /\ (LowerCaseCopiesFresh => LowerCaseCopiesFresh')
<1> SUFFICES ASSUME IInv, [Next]_vars
             PROVE  IInv' /\ (LowerCaseCopiesFresh => LowerCaseCopiesFresh')
  OBVIOUS
<1> USE UsersAssumption
<1>1. CASE Play
  BY <1>1, PlayInv DEF Play
<1>2. ASSUME NEW a, NEW user, NEW keys, SavesProfile(a, user, keys),
             UNCHANGED <<adminVars, eventVars, now>>
      PROVE  IInv' /\ (LowerCaseCopiesFresh => LowerCaseCopiesFresh')
  <2>1. TypeOK'
    BY <1>2, SavesInv DEF IInv, TypeOK, adminVars, eventVars
  <2> QED
    BY <1>2, <2>1, SavesInv, SavesFresh DEF IInv
<1>3. CASE EditProfile
  <2>1. PICK a \in Addresses, username \in Usernames : ModifyUser(a, username)
    BY <1>3 DEF EditProfile
  <2>2. UNCHANGED <<adminVars, eventVars, now>>
    BY <2>1 DEF ModifyUser
  <2> QED
    BY <1>2, <2>1, <2>2, EditSaves
<1>4. ASSUME NEW sender \in Accounts, ManageUsers(sender)
      PROVE  IInv' /\ (LowerCaseCopiesFresh => LowerCaseCopiesFresh')
  <2>1. ASSUME NEW username \in Usernames, NEW is_verified \in Verifications,
               ModifyVerification(sender, username, is_verified)
        PROVE  IInv' /\ (LowerCaseCopiesFresh => LowerCaseCopiesFresh')
    <3>1. UNCHANGED <<adminVars, eventVars, now>>
      BY <2>1 DEF ModifyVerification
    <3>2. PICK a, user : SavesProfile(a, user, {username})
      BY <2>1, <3>1, VerificationSaves
    <3> QED
      BY <1>2, <3>1, <3>2
  <2> QED
    BY <1>4, <2>1, ResetEloInv DEF ManageUsers
<1>5. ASSUME NEW sender \in Accounts, ManageEvents(sender)
      PROVE  IInv' /\ (LowerCaseCopiesFresh => LowerCaseCopiesFresh')
  BY <1>5, EventsTyped, QuietInv
<1>6. ASSUME NEW sender \in Accounts, ManageContract(sender)
      PROVE  IInv' /\ (LowerCaseCopiesFresh => LowerCaseCopiesFresh')
  BY <1>6, ContractInv, QuietInv
<1>7. CASE Tick
  <2>1. TypeOK' /\ UNCHANGED userVars
    BY <1>7 DEF Tick, IInv, TypeOK, adminVars, userVars, eventVars
  <2> QED
    BY <2>1, QuietInv
<1>8. CASE UNCHANGED vars
  <2>1. TypeOK' /\ UNCHANGED userVars
    BY <1>8 DEF vars, IInv, TypeOK, adminVars, userVars, eventVars
  <2> QED
    BY <2>1, QuietInv
<1> QED
  BY <1>1, <1>3, <1>4, <1>5, <1>6, <1>7, <1>8 DEF Next

(* Whatever the messages and their order, the invariant holds in every     *)
(* reachable state.                                                        *)
THEOREM Invariance == Spec => [](IInv /\ LowerCaseCopiesFresh)
<1>1. Init => IInv /\ LowerCaseCopiesFresh
  BY InitInv
<1>2. IInv /\ LowerCaseCopiesFresh /\ [Next]_vars => (IInv /\ LowerCaseCopiesFresh)'
  BY NextInv
<1> QED
  BY <1>1, <1>2, PTL DEF Spec

(* TypeOK: the storage keeps its types, and the contract an administrator. *)
THEOREM TypesHold == Spec => []TypeOK
<1>1. IInv => TypeOK
  BY DEF IInv
<1> QED
  BY <1>1, Invariance, PTL

(* DirectoryConsistent: the two maps of profiles agree on what             *)
(* modify_verification relies on, in any mix of edits, awards, resets and  *)
(* verifications of stale copies.                                          *)
THEOREM DirectoryStaysConsistent == Spec => []DirectoryConsistent
<1>1. IInv => DirectoryConsistent
  BY DEF IInv
<1> QED
  BY <1>1, Invariance, PTL

(* LowerCaseCopiesFresh: only capitals in a username let its copy grow     *)
(* stale.                                                                  *)
THEOREM LowerCaseCopiesStayFresh == Spec => []LowerCaseCopiesFresh
BY Invariance, PTL

(* A profile, once made, is there for good. *)
LEMMA ProfilesStay ==
  ASSUME IInv, NEW a, NEW user, NEW keys, SavesProfile(a, user, keys)
  PROVE  DOMAIN addressToUser \subseteq DOMAIN addressToUser' /\ a \in DOMAIN addressToUser'
<1>1. SavedMaps(a, user, keys)
  BY SavesFacts
<1> QED
  BY <1>1 DEF SavedMaps

(* A step other than an award records no participation, and loses neither  *)
(* a profile nor an event.                                                 *)
LEMMA OtherSteps ==
  ASSUME IInv, [Next]_vars, ~Play
  PROVE  /\ UNCHANGED <<finishedEvents, participated>>
         /\ DOMAIN ongoingEvents \subseteq DOMAIN ongoingEvents'
         /\ DOMAIN addressToUser \subseteq DOMAIN addressToUser'
         /\ now <= now' /\ now' \in Nat
<1> USE UsersAssumption
<1>0. now \in Nat
  BY DEF IInv, TypeOK
<1>1. CASE EditProfile
  <2>1. PICK a \in Addresses, username \in Usernames : ModifyUser(a, username)
    BY <1>1 DEF EditProfile
  <2>2. DOMAIN addressToUser \subseteq DOMAIN addressToUser'
    BY <2>1, EditSaves, ProfilesStay
  <2> QED
    BY <1>0, <2>1, <2>2 DEF ModifyUser, eventVars
<1>2. ASSUME NEW sender \in Accounts, ManageUsers(sender)
      PROVE  /\ UNCHANGED <<eventVars, now>>
             /\ DOMAIN addressToUser \subseteq DOMAIN addressToUser'
  <2>1. ASSUME NEW username \in Usernames, NEW is_verified \in Verifications,
               ModifyVerification(sender, username, is_verified)
        PROVE  /\ UNCHANGED <<eventVars, now>>
               /\ DOMAIN addressToUser \subseteq DOMAIN addressToUser'
    <3>1. UNCHANGED <<eventVars, now>>
      BY <2>1 DEF ModifyVerification
    <3>2. PICK a, user : SavesProfile(a, user, {username})
      BY <2>1, VerificationSaves
    <3> QED
      BY <3>1, <3>2, ProfilesStay
  <2>2. ASSUME NEW elo_substraction \in EloResets, ResetElo(sender, elo_substraction)
        PROVE  /\ UNCHANGED <<eventVars, now>>
               /\ DOMAIN addressToUser \subseteq DOMAIN addressToUser'
    BY <2>2, ResetEloFacts
  <2> QED
    BY <1>2, <2>1, <2>2 DEF ManageUsers
<1>3. CASE \E sender \in Accounts : ManageUsers(sender)
  BY <1>0, <1>2, <1>3 DEF eventVars
<1>4. CASE \E sender \in Accounts : ManageEvents(sender)
  BY <1>0, <1>4, EventsTyped DEF userVars
<1>5. CASE \E sender \in Accounts : ManageContract(sender)
  BY <1>0, <1>5, ContractInv DEF userVars, eventVars
<1>6. CASE Tick
  BY <1>0, <1>6 DEF Tick, userVars, eventVars
<1>7. CASE UNCHANGED vars
  BY <1>0, <1>7 DEF vars, userVars, eventVars
<1> QED
  BY <1>1, <1>3, <1>4, <1>5, <1>6, <1>7 DEF Next

(* Whoever took part keeps the profile, and the event is known. *)
LEMMA EventsStep ==
  IInv /\ EventsNeverLost /\ [Next]_vars => EventsNeverLost' /\ ParticipationStep
<1> SUFFICES ASSUME IInv, EventsNeverLost, [Next]_vars
             PROVE  EventsNeverLost' /\ ParticipationStep
  OBVIOUS
<1>1. ASSUME NEW game \in Games, NEW a \in Addresses, NEW experience \in Experiences,
             NEW elo \in EloChanges, AddExperienceAndElo(game, a, experience, elo)
      PROVE  EventsNeverLost' /\ ParticipationStep
  <2>1. DOMAIN addressToUser \subseteq DOMAIN addressToUser' /\ a \in DOMAIN addressToUser'
    BY <1>1, AwardSaves, ProfilesStay
  <2>2. /\ now' = now /\ now \in Nat
        /\ DOMAIN ongoingEvents' = DOMAIN ongoingEvents \ Ended
        /\ DOMAIN finishedEvents' = DOMAIN finishedEvents \cup Ended
        /\ \A e \in Ended : finishedEvents'[e] = ongoingEvents[e]
        /\ \A e \in DOMAIN finishedEvents \ Ended : finishedEvents'[e] = finishedEvents[e]
        /\ participated \subseteq participated'
        /\ \A entry \in participated' \ participated :
             /\ entry = <<a, entry[2]>>
             /\ entry[2] \in DOMAIN ongoingEvents \ Ended
             /\ OpenTo(ongoingEvents[entry[2]], game)
    BY <1>1, PlayEvents DEF IInv, TypeOK
  <2>3. ASSUME NEW e \in DOMAIN ongoingEvents
        PROVE  /\ ongoingEvents[e].end_timestamp \in Nat
               /\ e \in Ended <=> now >= ongoingEvents[e].end_timestamp
    BY DEF Ended, IInv, TypeOK, EventType
  <2>4. game \in gameContracts
    BY <1>1 DEF AddExperienceAndElo
  <2>5. ASSUME NEW entry \in participated'
        PROVE  /\ entry[1] \in DOMAIN addressToUser'
               /\ entry[2] \in DOMAIN ongoingEvents' \cup DOMAIN finishedEvents'
    <3>1. CASE entry \in participated
      BY <2>1, <2>2, <3>1 DEF EventsNeverLost, HasProfile
    <3>2. CASE entry \notin participated
      BY <2>1, <2>2, <3>2
    <3> QED
      BY <3>1, <3>2
  <2>6. ASSUME NEW e \in DOMAIN finishedEvents' PROVE finishedEvents'[e].end_timestamp <= now'
    <3>1. CASE e \in Ended
      BY <2>2, <2>3, <3>1 DEF Ended
    <3>2. CASE e \notin Ended
      BY <2>2, <3>2 DEF EventsNeverLost
    <3> QED
      BY <3>1, <3>2
  <2>7. EventsNeverLost'
    BY <2>5, <2>6 DEF EventsNeverLost, HasProfile
  <2>8. ASSUME NEW entry \in participated' \ participated
        PROVE  /\ entry[2] \in DOMAIN ongoingEvents
               /\ now < ongoingEvents[entry[2]].end_timestamp
               /\ \E g \in gameContracts :
                    ongoingEvents[entry[2]].games \cap {AnyGame, g} # {}
    <3>1. entry[2] \in DOMAIN ongoingEvents \ Ended
      BY <2>2
    <3>2. now < ongoingEvents[entry[2]].end_timestamp
      BY <2>2, <2>3, <3>1
    <3>3. OpenTo(ongoingEvents[entry[2]], game)
      BY <2>2
    <3> QED
      BY <2>4, <3>1, <3>2, <3>3 DEF OpenTo
  <2> QED
    BY <2>2, <2>7, <2>8 DEF ParticipationStep
<1>2. CASE ~Play
  <2>1. /\ finishedEvents' = finishedEvents /\ participated' = participated
        /\ DOMAIN ongoingEvents \subseteq DOMAIN ongoingEvents'
        /\ DOMAIN addressToUser \subseteq DOMAIN addressToUser'
        /\ now <= now' /\ now' \in Nat /\ now \in Nat
    BY <1>2, OtherSteps DEF IInv, TypeOK
  <2>2. \A e \in DOMAIN finishedEvents : finishedEvents[e].end_timestamp \in Nat
    BY DEF IInv, TypeOK, EventType
  <2>3. \A e \in DOMAIN finishedEvents : finishedEvents[e].end_timestamp <= now'
    BY <2>1, <2>2 DEF EventsNeverLost
  <2> QED
    BY <2>1, <2>3 DEF EventsNeverLost, HasProfile, ParticipationStep
<1> QED
  BY <1>1, <1>2 DEF Play

(* EventsNeverLost: the event of every participation is still known, and   *)
(* its participant has a profile, however late the ended events are moved. *)
THEOREM EventsAreNeverLost == Spec => []EventsNeverLost
<1>1. Init => EventsNeverLost
  BY InitInv
<1>2. IInv /\ EventsNeverLost /\ [Next]_vars => EventsNeverLost'
  BY EventsStep
<1> QED
  BY <1>1, <1>2, Invariance, PTL DEF Spec

(* ParticipationEarned: no step records a participation in an event that   *)
(* is over or closed to the game, or takes one back.                       *)
THEOREM ParticipationIsEarned == Spec => ParticipationEarned
<1>1. IInv /\ EventsNeverLost /\ [Next]_vars => [ParticipationStep]_vars
  BY EventsStep
<1> QED
  BY <1>1, Invariance, EventsAreNeverLost, PTL DEF Spec, ParticipationEarned

(* A step of one account, as ProfilesIsolated constrains it *)
Isolated(a) ==
  LET edits == \E n \in Usernames : ModifyUser(a, n)
      plays == \E g \in Games, x \in Experiences, elo \in EloChanges :
                 AddExperienceAndElo(g, a, x, elo)
      same(b, field) == addressToUser'[b][field] = addressToUser[b][field]
  IN  edits \/ plays =>
        \A b \in DOMAIN addressToUser :
          IF b # a THEN addressToUser'[b] = addressToUser[b]
          ELSE /\ same(b, "creation_date") /\ same(b, "is_verified")
               /\ edits => same(b, "experience") /\ same(b, "elo")
               /\ plays => /\ same(b, "username")
                          /\ addressToUser'[b].experience
                               >= addressToUser[b].experience

(* ProfilesIsolated: what an account does, or a game for it, leaves every  *)
(* other profile alone and keeps what its own has earned.                  *)
THEOREM ProfilesAreIsolated == Spec => ProfilesIsolated
<1>1. ASSUME IInv, NEW a \in Addresses PROVE Isolated(a)
  <2>1. ASSUME NEW n \in Usernames, ModifyUser(a, n)
        PROVE  \A b \in DOMAIN addressToUser :
                 IF b # a THEN addressToUser'[b] = addressToUser[b]
                 ELSE /\ addressToUser'[b].creation_date = addressToUser[b].creation_date
                      /\ addressToUser'[b].is_verified = addressToUser[b].is_verified
                      /\ addressToUser'[b].experience = addressToUser[b].experience
                      /\ addressToUser'[b].elo = addressToUser[b].elo
    <3>1. SavedMaps(a, Renamed(a, n), {Lower[n]})
      BY <1>1, <2>1, EditSaves, SavesFacts
    <3>2. a \in DOMAIN addressToUser =>
            /\ addressToUser[a] \in UserType
            /\ addressToUser'[a] = [addressToUser[a] EXCEPT !.username = n]
      BY <1>1, <3>1, ProfileFacts DEF SavedMaps, Renamed, HasProfile
    <3> QED
      BY <3>1, <3>2 DEF SavedMaps, UserType
  <2>2. ASSUME NEW g \in Games, NEW x \in Experiences, NEW elo \in EloChanges,
               AddExperienceAndElo(g, a, x, elo)
        PROVE  \A b \in DOMAIN addressToUser :
                 IF b # a THEN addressToUser'[b] = addressToUser[b]
                 ELSE /\ addressToUser'[b].creation_date = addressToUser[b].creation_date
                      /\ addressToUser'[b].is_verified = addressToUser[b].is_verified
                      /\ addressToUser'[b].username = addressToUser[b].username
                      /\ addressToUser'[b].experience >= addressToUser[b].experience
    <3>1. PICK user, keys : SavesProfile(a, user, keys) /\ NothingLost(a, user)
      BY <1>1, <2>2, AwardSaves
    <3>2. SavedMaps(a, user, keys)
      BY <3>1, SavesFacts
    <3>3. a \in DOMAIN addressToUser => user.creation_date = addressToUser[a].creation_date
      BY <3>1 DEF SavesProfile
    <3> QED
      BY <3>1, <3>2, <3>3 DEF SavedMaps, NothingLost
  <2> QED
    BY <2>1, <2>2 DEF Isolated
<1>2. IInv => [\A a \in Addresses : Isolated(a)]_vars
  BY <1>1
<1> QED
  BY <1>2, Invariance, PTL DEF ProfilesIsolated, Isolated

(* ImplementsRegistry: every step that changes the administrators or the   *)
(* listed games is a message UsersInterface describes, accepted as it      *)
(* says.                                                                   *)
THEOREM RegistryRefinement == Spec => ImplementsRegistry
<1> DEFINE Seen == SeenRegistry!Steps(RegistryView, RegistryView')
<1>1. ASSUME NEW sender \in Accounts, ManageContract(sender)
      PROVE  Seen \/ UNCHANGED RegistryView
  <2>1. ASSUME NEW games \in SUBSET Games, AddGames(sender, games) PROVE Seen
    <3> DEFINE msg == SeenRegistry!AddGames(games)
    <3>1. msg \in SeenRegistry!Messages
      BY DEF SeenRegistry!Messages
    <3>2. SeenRegistry!Accepts(RegistryView, sender, msg)
      BY <2>1 DEF AddGames, RegistryView, SeenRegistry!Accepts, SeenRegistry!AddGames
    <3>3. RegistryView' = SeenRegistry!After(RegistryView, msg)
      BY <2>1 DEF AddGames, RegistryView, SeenRegistry!After, SeenRegistry!AddGames
    <3> QED
      BY <3>1, <3>2, <3>3 DEF SeenRegistry!Steps
  <2>2. ASSUME NEW game \in Games, RemoveGame(sender, game) PROVE Seen
    <3> DEFINE msg == SeenRegistry!RemoveGame(game)
    <3>1. msg \in SeenRegistry!Messages
      BY DEF SeenRegistry!Messages
    <3>2. SeenRegistry!Accepts(RegistryView, sender, msg)
      BY <2>2 DEF RemoveGame, RegistryView, SeenRegistry!Accepts, SeenRegistry!RemoveGame
    <3>3. RegistryView' = SeenRegistry!After(RegistryView, msg)
      BY <2>2 DEF RemoveGame, RegistryView, SeenRegistry!After, SeenRegistry!RemoveGame
    <3> QED
      BY <3>1, <3>2, <3>3 DEF SeenRegistry!Steps
  <2>3. ASSUME NEW account \in Accounts, AddAdmin(sender, account) PROVE Seen
    <3> DEFINE msg == SeenRegistry!AddAdmin(account)
    <3>1. msg \in SeenRegistry!Messages
      BY DEF SeenRegistry!Messages
    <3>2. SeenRegistry!Accepts(RegistryView, sender, msg)
      BY <2>3 DEF AddAdmin, RegistryView, SeenRegistry!Accepts, SeenRegistry!AddAdmin
    <3>3. RegistryView' = SeenRegistry!After(RegistryView, msg)
      BY <2>3 DEF AddAdmin, RegistryView, SeenRegistry!After, SeenRegistry!AddAdmin
    <3> QED
      BY <3>1, <3>2, <3>3 DEF SeenRegistry!Steps
  <2>4. ASSUME NEW account \in Accounts, RemoveAdmin(sender, account) PROVE Seen
    <3> DEFINE msg == SeenRegistry!RemoveAdmin(account)
    <3>1. msg \in SeenRegistry!Messages
      BY DEF SeenRegistry!Messages
    <3>2. SeenRegistry!Accepts(RegistryView, sender, msg)
      BY <2>4 DEF RemoveAdmin, RegistryView, SeenRegistry!Accepts, SeenRegistry!RemoveAdmin
    <3>3. RegistryView' = SeenRegistry!After(RegistryView, msg)
      BY <2>4 DEF RemoveAdmin, RegistryView, SeenRegistry!After, SeenRegistry!RemoveAdmin
    <3> QED
      BY <3>1, <3>2, <3>3 DEF SeenRegistry!Steps
  <2>5. ASSUME NEW new_config \in Configs, UpdateConfig(sender, new_config)
        PROVE  UNCHANGED RegistryView
    BY <2>5, Zenon DEF UpdateConfig, RegistryView
  <2> QED
    BY <1>1, <2>1, <2>2, <2>3, <2>4, <2>5 DEF ManageContract
<1>2. ASSUME Play \/ EditProfile \/ Tick \/ UNCHANGED vars PROVE UNCHANGED RegistryView
  <2>1. CASE Play
    BY <2>1 DEF Play, AddExperienceAndElo, adminVars, RegistryView
  <2>2. CASE EditProfile
    BY <2>2 DEF EditProfile, ModifyUser, adminVars, RegistryView
  <2>3. CASE Tick \/ UNCHANGED vars
    BY <2>3 DEF Tick, vars, adminVars, RegistryView
  <2> QED
    BY <1>2, <2>1, <2>2, <2>3
<1>3. ASSUME NEW sender \in Accounts, ManageUsers(sender) \/ ManageEvents(sender)
      PROVE  UNCHANGED RegistryView
  BY <1>3 DEF ManageUsers, ManageEvents, ModifyVerification, ResetElo, AddEvent,
       AddGameToEvent, adminVars, RegistryView
<1>4. [Next]_vars => [Seen]_RegistryView
  BY <1>1, <1>2, <1>3 DEF Next
<1> QED
  BY <1>4, PTL DEF Spec, ImplementsRegistry

----------------------------------------------------------------------------
(* What is true of usernames and of experience where the documentation     *)
(* says more than the code keeps                                           *)

(* The steps that change profiles or copies *)
LEMMA UserSteps ==
  ASSUME IInv, [Next]_vars
  PROVE  \/ \E a \in Addresses, username \in Typed : ModifyUser(a, username)
         \/ Play
         \/ \E sender \in Accounts : ManageUsers(sender)
         \/ UNCHANGED userVars
<1>1. Tick => UNCHANGED userVars
  BY DEF Tick
<1>2. UNCHANGED vars => UNCHANGED userVars
  BY DEF vars, userVars
<1> QED
  BY <1>1, <1>2, EventsTyped, ContractInv DEF Next, EditProfile

(* Everything the contract keeps about users: profiles and copies.         *)
Stored ==
  {addressToUser[a] : a \in DOMAIN addressToUser}
    \cup {usernameToUser[n] : n \in DOMAIN usernameToUser}

(* A username belongs to x, in capitals or not.                            *)
IsCalled(x, username) ==
  x.username # NoName /\ username # NoName /\ Lower[x.username] = Lower[username]

(* Two profiles or copies of one name are of the same address.             *)
NamesOwned ==
  \A x, y \in Stored : IsCalled(x, y.username) => x.address = y.address

(* A player whose profile a game made, and who so has no username yet,     *)
(* chooses one that is taken (the run users_names).                        *)
TakesUsedName ==
  \E a \in Addresses, username \in Typed :
    /\ ModifyUser(a, username)
    /\ HasProfile(a) /\ addressToUser[a].username = NoName
    /\ Lower[username] \in DOMAIN usernameToUser

(* Whatever is kept under a name has it taken in lower case. *)
LEMMA StoredTaken ==
  ASSUME IInv, NEW x \in Stored, x.username # NoName
  PROVE  Lower[x.username] \in DOMAIN usernameToUser
<1> USE UsersAssumption
<1>1. CASE \E a \in DOMAIN addressToUser : x = addressToUser[a]
  BY <1>1 DEF IInv, DirectoryConsistent
<1>2. ASSUME NEW n \in DOMAIN usernameToUser, x = usernameToUser[n]
      PROVE  Lower[x.username] \in DOMAIN usernameToUser
  <2>1. n \in {x.username, Lower[x.username]} /\ Lower[n] \in DOMAIN usernameToUser
    BY <1>2 DEF IInv, DirectoryConsistent, KeysClosed
  <2> QED
    BY <2>1
<1> QED
  BY <1>1, <1>2 DEF Stored

(* Saving a profile under a name nobody else has keeps names owned. *)
LEMMA SavesOwned ==
  ASSUME IInv, NamesOwned, NEW a, NEW user, NEW keys, SavesProfile(a, user, keys),
         \A x \in Stored : IsCalled(x, user.username) => x.address = a
  PROVE  NamesOwned'
<1>1. SavedMaps(a, user, keys) /\ user.address = a
  BY SavesFacts DEF SavesProfile
<1>2. \A x \in Stored' : x \in Stored \cup {user}
  BY <1>1 DEF SavedMaps, Stored
<1>3. ASSUME NEW x \in Stored', NEW y \in Stored', IsCalled(x, y.username)
      PROVE  x.address = y.address
  BY <1>1, <1>2, <1>3 DEF NamesOwned, IsCalled
<1> QED
  BY <1>3 DEF NamesOwned, IsCalled

(* No step but TakesUsedName gives a username to a second address. *)
LEMMA NamesStep ==
  ASSUME IInv, NamesOwned, [Next]_vars, ~TakesUsedName
  PROVE  NamesOwned'
<1> USE UsersAssumption
<1>1. ASSUME NEW a \in Addresses, NEW username \in Typed, ModifyUser(a, username)
      PROVE  NamesOwned'
  <2> DEFINE user == Renamed(a, username)
  <2>1. SavesProfile(a, user, {Lower[username]}) /\ user.username = username
    BY <1>1, EditSaves, ProfileFacts DEF Renamed, HasProfile, NewUser, UserType
  <2>2. ASSUME NEW x \in Stored, IsCalled(x, username) PROVE x.address = a
    <3>1. Lower[username] \in DOMAIN usernameToUser
      BY <2>2, StoredTaken DEF IsCalled
    <3>2. HasProfile(a) /\ addressToUser[a].username = username
      BY <1>1, <3>1 DEF ModifyUser, NameAllowed, TakesUsedName
    <3>3. addressToUser[a] \in Stored /\ addressToUser[a].address = a
      BY <3>2, ProfileFacts DEF Stored, HasProfile
    <3> QED
      BY <2>2, <3>2, <3>3 DEF NamesOwned
  <2> QED
    BY <2>1, <2>2, SavesOwned
<1>2. CASE Play
  <2>1. PICK game \in Games, a \in Addresses, experience \in Experiences, elo \in EloChanges :
          AddExperienceAndElo(game, a, experience, elo)
    BY <1>2 DEF Play
  <2>2. PICK user, keys : /\ SavesProfile(a, user, keys) /\ NothingLost(a, user)
                          /\ a \notin DOMAIN addressToUser => user.username = NoName
    BY <2>1, AwardSaves
  <2>3. ASSUME NEW x \in Stored, IsCalled(x, user.username) PROVE x.address = a
    <3>1. a \in DOMAIN addressToUser /\ addressToUser[a].username = user.username
      BY <2>2, <2>3 DEF NothingLost, IsCalled
    <3>2. addressToUser[a] \in Stored /\ addressToUser[a].address = a
      BY <3>1, ProfileFacts DEF Stored
    <3> QED
      BY <2>3, <3>1, <3>2 DEF NamesOwned
  <2> QED
    BY <2>2, <2>3, SavesOwned
<1>3. ASSUME NEW sender \in Accounts, NEW username \in Usernames,
             NEW is_verified \in Verifications,
             ModifyVerification(sender, username, is_verified)
      PROVE  NamesOwned'
  <2> DEFINE copy == usernameToUser[username]
             user == VerifiedCopy(username, is_verified)
  <2>1. SavesProfile(copy.address, user, {username})
    BY <1>3, VerificationSaves
  <2>2. copy \in Stored /\ copy \in UserType
    BY <1>3 DEF ModifyVerification, Stored, IInv, TypeOK
  <2>3. user.username = copy.username
    BY <2>2 DEF VerifiedCopy, UserType
  <2>4. \A x \in Stored : IsCalled(x, user.username) => x.address = copy.address
    BY <2>2, <2>3 DEF NamesOwned
  <2> QED
    BY <2>1, <2>4, SavesOwned
<1>4. ASSUME NEW sender \in Accounts, NEW elo_substraction \in EloResets,
             ResetElo(sender, elo_substraction)
      PROVE  NamesOwned'
  <2>1. \A x \in Stored' : \E y \in Stored : x.username = y.username /\ x.address = y.address
    <3>1. /\ usernameToUser' = usernameToUser
          /\ DOMAIN addressToUser' = DOMAIN addressToUser
          /\ \A a \in DOMAIN addressToUser :
               /\ addressToUser'[a].address = addressToUser[a].address
               /\ addressToUser'[a].username = addressToUser[a].username
      BY <1>4, ResetEloFacts
    <3>2. ASSUME NEW a \in DOMAIN addressToUser
          PROVE  \E y \in Stored : /\ addressToUser'[a].username = y.username
                                  /\ addressToUser'[a].address = y.address
      BY <3>1 DEF Stored
    <3>3. ASSUME NEW n \in DOMAIN usernameToUser
          PROVE  usernameToUser[n] \in Stored
      BY DEF Stored
    <3>4. Stored' = {addressToUser'[a] : a \in DOMAIN addressToUser}
                      \cup {usernameToUser[n] : n \in DOMAIN usernameToUser}
      BY <3>1 DEF Stored
    <3> QED
      BY <3>2, <3>3, <3>4
  <2>2. ASSUME NEW x \in Stored', NEW y \in Stored', IsCalled(x, y.username)
        PROVE  x.address = y.address
    <3>1. PICK u \in Stored : x.username = u.username /\ x.address = u.address
      BY <2>1
    <3>2. PICK v \in Stored : y.username = v.username /\ y.address = v.address
      BY <2>1
    <3> QED
      BY <2>2, <3>1, <3>2 DEF NamesOwned, IsCalled
  <2> QED
    BY <2>2 DEF NamesOwned, IsCalled
<1>5. UNCHANGED userVars => NamesOwned'
  BY DEF userVars, NamesOwned, Stored, IsCalled
<1> QED
  BY <1>1, <1>2, <1>3, <1>4, <1>5, UserSteps DEF ManageUsers

(* The only way to a username that is taken: as long as nobody whose       *)
(* profile a game made chooses one, no two profiles, nor any old copy of   *)
(* one, have usernames that are equal in lower case.                       *)
THEOREM UsernamesStayUnique == Spec /\ [][~TakesUsedName]_vars => []UsernamesUnique
<1>1. Init => NamesOwned
  BY DEF Init, NamesOwned, Stored, EmptyMap
<1>2. IInv /\ NamesOwned /\ [Next]_vars /\ [~TakesUsedName]_vars => NamesOwned'
  <2>1. UNCHANGED vars /\ NamesOwned => NamesOwned'
    BY DEF vars, userVars, NamesOwned, Stored, IsCalled
  <2> QED
    BY <2>1, NamesStep
<1>3. ASSUME IInv, NamesOwned PROVE UsernamesUnique
  <2> SUFFICES ASSUME NEW a \in DOMAIN addressToUser, NEW b \in DOMAIN addressToUser, a # b,
                      NoName \notin {addressToUser[a].username, addressToUser[b].username}
               PROVE  Lower[addressToUser[a].username] # Lower[addressToUser[b].username]
    BY DEF UsernamesUnique
  <2>1. /\ addressToUser[a] \in Stored /\ addressToUser[a].address = a
        /\ addressToUser[b] \in Stored /\ addressToUser[b].address = b
    BY <1>3 DEF Stored, IInv, DirectoryConsistent
  <2> QED
    BY <1>3, <2>1 DEF NamesOwned, IsCalled
<1> QED
  BY <1>1, <1>2, <1>3, Invariance, PTL DEF Spec

(* An administrator verifies a, under a username that a has given up or    *)
(* that is not in lower case (the run users_experience).                   *)
RestoresOldCopy(a) ==
  \E sender \in Accounts, username \in Usernames, is_verified \in Verifications :
    /\ ModifyVerification(sender, username, is_verified)
    /\ usernameToUser[username].address = a
    /\ username # addressToUser[a].username \/ Lower[username] # username

KeepsExperience(a) == addressToUser'[a].experience >= addressToUser[a].experience

(* No other step takes experience from anybody.                            *)
LEMMA ExperienceStep ==
  ASSUME IInv, LowerCaseCopiesFresh, [Next]_vars, NEW a \in DOMAIN addressToUser
  PROVE  KeepsExperience(a) \/ RestoresOldCopy(a)
<1> USE UsersAssumption
<1>0. addressToUser[a] \in UserType /\ addressToUser[a].experience \in Nat /\ a \in Addresses
  BY DEF IInv, TypeOK, UserType
<1>1. addressToUser'[a] = addressToUser[a] => KeepsExperience(a)
  BY <1>0 DEF KeepsExperience
<1>2. ASSUME NEW b \in Addresses, NEW username \in Typed, ModifyUser(b, username)
      PROVE  KeepsExperience(a)
  <2>1. SavedMaps(b, Renamed(b, username), {Lower[username]})
    BY <1>2, EditSaves, SavesFacts
  <2>2. b = a => Renamed(b, username).experience = addressToUser[a].experience
    BY <1>0 DEF Renamed, HasProfile, UserType
  <2> QED
    BY <1>0, <1>1, <2>1, <2>2 DEF SavedMaps, KeepsExperience
<1>3. CASE Play
  <2>1. PICK game \in Games, b \in Addresses, experience \in Experiences, elo \in EloChanges :
          AddExperienceAndElo(game, b, experience, elo)
    BY <1>3 DEF Play
  <2>2. PICK user, keys : SavesProfile(b, user, keys) /\ NothingLost(b, user)
    BY <2>1, AwardSaves
  <2>3. SavedMaps(b, user, keys)
    BY <2>2, SavesFacts
  <2> QED
    BY <1>1, <2>2, <2>3 DEF SavedMaps, NothingLost, KeepsExperience
<1>4. ASSUME NEW sender \in Accounts, NEW username \in Usernames,
             NEW is_verified \in Verifications,
             ModifyVerification(sender, username, is_verified), ~RestoresOldCopy(a)
      PROVE  KeepsExperience(a)
  <2> DEFINE copy == usernameToUser[username]
  <2>1. SavedMaps(copy.address, VerifiedCopy(username, is_verified), {username})
    BY <1>4, VerificationSaves, SavesFacts
  <2>2. CASE copy.address # a
    BY <1>1, <2>1, <2>2 DEF SavedMaps
  <2>3. CASE copy.address = a
    <3>1. username = addressToUser[a].username /\ Lower[username] = username
      BY <1>4, <2>3 DEF RestoresOldCopy
    <3>2. copy = [addressToUser[a] EXCEPT !.elo = copy.elo]
      BY <2>3, <3>1 DEF LowerCaseCopiesFresh
    <3>3. copy.experience = addressToUser[a].experience /\ copy \in UserType
      BY <1>0, <1>4, <3>2 DEF UserType, ModifyVerification, IInv, TypeOK
    <3>4. VerifiedCopy(username, is_verified).experience = addressToUser[a].experience
      BY <3>3 DEF VerifiedCopy, UserType
    <3> QED
      BY <1>0, <2>1, <2>3, <3>4 DEF SavedMaps, KeepsExperience
  <2> QED
    BY <2>2, <2>3
<1>5. ASSUME NEW sender \in Accounts, NEW elo_substraction \in EloResets,
             ResetElo(sender, elo_substraction)
      PROVE  KeepsExperience(a)
  <2>1. addressToUser'[a] = [addressToUser[a] EXCEPT !.elo = addressToUser'[a].elo]
    BY <1>5, ResetEloFacts
  <2>2. addressToUser'[a].experience = addressToUser[a].experience
    BY <1>0, <2>1 DEF UserType
  <2> QED
    BY <1>0, <2>2 DEF KeepsExperience
<1>6. UNCHANGED userVars => KeepsExperience(a)
  BY <1>1 DEF userVars
<1> QED
  BY <1>2, <1>3, <1>4, <1>5, <1>6, UserSteps DEF ManageUsers

(* Experience is only ever lost when an administrator verifies a profile   *)
(* under a username it has given up, or under one with capitals: neither   *)
(* edits, nor awards, nor resets of the elo, nor the verification of       *)
(* anybody under the username they have, in lower case, take any.          *)
THEOREM ExperienceOnlyLostToOldCopies ==
  Spec => [][\A a \in DOMAIN addressToUser : KeepsExperience(a) \/ RestoresOldCopy(a)]_vars
<1>1. IInv /\ LowerCaseCopiesFresh /\ [Next]_vars
        => [\A a \in DOMAIN addressToUser : KeepsExperience(a) \/ RestoresOldCopy(a)]_vars
  BY ExperienceStep
<1> QED
  BY <1>1, Invariance, PTL DEF Spec

=============================================================================
