--------------------------- MODULE ManagerProofs ---------------------------
(***************************************************************************)
(* Proofs about Manager, for every value of its constants.                 *)
(*                                                                         *)
(* Every step is first reduced to what it does to one game (GamesStep) and *)
(* to one users contract (RegistriesStep): it delivers one message, from   *)
(* those the manager sends and those people send directly, or nothing.     *)
(*                                                                         *)
(* NoRewiring and ManagerStays, under which the manager's runs check the   *)
(* same properties, say what people do not send to the contracts behind    *)
(* the manager's back.  The provers do not reason about ENABLED: of what   *)
(* can always, or must eventually, be done the guards are proved to hold,  *)
(* and that a step whose guards hold can be taken is a hypothesis, true by *)
(* how the actions are written and on every instance TLC was given.        *)
(***************************************************************************)
EXTENDS Manager, TLAPS

(* The inductive invariant: the wallets the manager stores always sum to   *)
(* one, or it could make no more games.                                    *)
IInv == TypeOK /\ config.dev_wallet_list \in WholeLists

(* No administrator replaces the users contract of a game, or takes a game *)
(* off a users contract.                                                   *)
NoRewiring ==
  /\ \A msg \in DirectMessages : msg.type # "UpdateConfig"
  /\ \A sent \in UsersMessages : sent[2].type # "RemoveGame"

(* No administrator of a game dismisses the manager. *)
ManagerStays ==
  \A msg \in DirectMessages : msg.type = "RemoveAdmin" => msg.admin # Manager

----------------------------------------------------------------------------
(* The contracts the manager drives *)

(* What the manager gets delivered to the games it lists: UpdateConfig is  *)
(* not among them, since the query it needs is never answered.             *)
ManagerMessages ==
  {G!CloseRound(TRUE), G!Halt, G!Resume}
    \cup {G!ModifyDevWallet(wallets) : wallets \in WholeLists}

GameMessages == ManagerMessages \cup DirectMessages

(* One game in one step *)
GameStep(game, next) ==
  \/ next = game
  \/ next = G!FallsDue(game)
  \/ \E msg \in GameMessages :
       /\ msg.type = "RemoveAdmin" => game.admins \ {msg.admin} # {}
       /\ next = G!After(game, msg)

(* The messages have the types GameInterface declares. *)
LEMMA GameMessagesTyped == GameMessages \subseteq G!Messages
<1> USE ManagerAssumption
<1>1. G!CloseRound(TRUE) \in G!Messages /\ G!Halt \in G!Messages
      /\ G!Resume \in G!Messages
  <2>1. G!CloseRound(TRUE) \in {G!CloseRound(fresh) : fresh \in BOOLEAN}
    BY Zenon
  <2>2. G!Halt \in {G!Halt, G!Resume} /\ G!Resume \in {G!Halt, G!Resume}
    BY Zenon
  <2> DEFINE A == {G!CloseRound(fresh) : fresh \in BOOLEAN}
             B == {G!Halt, G!Resume}
  <2> HIDE DEF A, B
  <2>3. A \subseteq G!Messages /\ B \subseteq G!Messages
    BY DEF G!Messages, A, B
  <2> QED
    BY <2>1, <2>2, <2>3 DEF A, B
<1>2. ASSUME NEW w \in WholeLists PROVE G!ModifyDevWallet(w) \in G!Messages
  BY DEF G!Messages
<1>3. DirectMessages \subseteq G!Messages
  OBVIOUS
<1> HIDE DEF G!Messages
<1> QED
  BY <1>1, <1>2, <1>3 DEF GameMessages, ManagerMessages

(* What a message leaves of a game: its type and an administrator, the     *)
(* users contract unless it is UpdateConfig, and every administrator but   *)
(* the one it dismisses.                                                   *)
GameKept(game, msg) ==
  LET next == G!After(game, msg)
  IN  /\ next \in G!GameType /\ next.admins # {}
      /\ msg.type # "UpdateConfig" => next.users_contract = game.users_contract
      /\ \A account \in game.admins :
           account \in next.admins \/ (msg.type = "RemoveAdmin" /\ msg.admin = account)

(* Every message of the interface leaves that. *)
LEMMA GameAfter ==
  ASSUME NEW game \in G!GameType, game.admins # {}, NEW msg \in G!Messages,
         msg.type = "RemoveAdmin" => game.admins \ {msg.admin} # {}
  PROVE  GameKept(game, msg)
<1>1. ASSUME NEW fresh \in BOOLEAN, msg = G!CloseRound(fresh) PROVE GameKept(game, msg)
  BY <1>1 DEF G!CloseRound, G!After, G!GameType, GameKept
<1>2. CASE msg = G!Halt
  BY <1>2 DEF G!Halt, G!After, G!GameType, GameKept
<1>3. CASE msg = G!Resume
  BY <1>3 DEF G!Resume, G!After, G!GameType, GameKept
<1>4. ASSUME NEW a \in Senders, msg = G!AddAdmin(a) PROVE GameKept(game, msg)
  BY <1>4 DEF G!AddAdmin, G!After, G!GameType, GameKept
<1>5. ASSUME NEW a \in Senders, msg = G!RemoveAdmin(a) PROVE GameKept(game, msg)
  BY <1>5 DEF G!RemoveAdmin, G!After, G!GameType, GameKept
<1>6. ASSUME NEW w \in WalletLists, msg = G!ModifyDevWallet(w) PROVE GameKept(game, msg)
  BY <1>6 DEF G!ModifyDevWallet, G!After, G!GameType, GameKept
<1>7. ASSUME NEW u \in UsersContracts \cup Strangers, NEW w \in WalletLists,
             msg = G!UpdateConfig(u, w)
      PROVE  GameKept(game, msg)
  BY <1>7 DEF G!UpdateConfig, G!After, G!GameType, GameKept
<1> QED
  BY <1>1, <1>2, <1>3, <1>4, <1>5, <1>6, <1>7 DEF G!Messages

(* So a step leaves a game its type, an administrator and, as far as no    *)
(* direct message takes them away, its users contract and the manager.     *)
LEMMA GameStepKept ==
  ASSUME NEW game \in G!GameType, game.admins # {}, NEW next, GameStep(game, next)
  PROVE  /\ next \in G!GameType /\ next.admins # {}
         /\ (\A msg \in DirectMessages : msg.type # "UpdateConfig") =>
              next.users_contract = game.users_contract
         /\ ManagerStays /\ Manager \in game.admins => Manager \in next.admins
<1>1. CASE next = game
  BY <1>1
<1>2. CASE next = G!FallsDue(game)
  BY <1>2 DEF G!FallsDue, G!GameType
<1>3. ASSUME NEW msg \in GameMessages,
             msg.type = "RemoveAdmin" => game.admins \ {msg.admin} # {},
             next = G!After(game, msg)
      PROVE  /\ next \in G!GameType /\ next.admins # {}
             /\ (\A m \in DirectMessages : m.type # "UpdateConfig") =>
                  next.users_contract = game.users_contract
             /\ ManagerStays /\ Manager \in game.admins => Manager \in next.admins
  <2>1. GameKept(game, msg)
    BY <1>3, GameMessagesTyped, GameAfter
  <2>2. msg \in ManagerMessages => msg.type \notin {"UpdateConfig", "RemoveAdmin"}
    BY DEF ManagerMessages, G!CloseRound, G!Halt, G!Resume, G!ModifyDevWallet
  <2>3. \/ msg \in ManagerMessages
        \/ msg \in DirectMessages
    BY DEF GameMessages
  <2> QED
    BY <1>3, <2>1, <2>2, <2>3 DEF GameKept, ManagerStays
<1> QED
  BY <1>1, <1>2, <1>3 DEF GameStep

(* A message keeps the type of a users contract and an administrator, and  *)
(* every listed game but the one it takes off the list.                    *)
RegistryKept(registry, msg) ==
  LET next == U!After(registry, msg)
  IN  /\ next \in U!RegistryType /\ next.admins # {}
      /\ \A a \in registry.gameContracts :
           a \in next.gameContracts \/ (msg.type = "RemoveGame" /\ msg.game = a)

(* Every message of the interface leaves that. *)
LEMMA RegistryAfter ==
  ASSUME NEW registry \in U!RegistryType, registry.admins # {}, NEW msg \in U!Messages,
         msg.type = "RemoveAdmin" => registry.admins \ {msg.admin} # {}
  PROVE  RegistryKept(registry, msg)
<1>1. ASSUME NEW set \in SUBSET Addresses, msg = U!AddGames(set)
      PROVE  RegistryKept(registry, msg)
  BY <1>1 DEF U!AddGames, U!After, U!RegistryType, RegistryKept
<1>2. ASSUME NEW a \in Addresses, msg = U!RemoveGame(a) PROVE RegistryKept(registry, msg)
  BY <1>2 DEF U!RemoveGame, U!After, U!RegistryType, RegistryKept
<1>3. ASSUME NEW a \in Senders, msg = U!AddAdmin(a) PROVE RegistryKept(registry, msg)
  BY <1>3 DEF U!AddAdmin, U!After, U!RegistryType, RegistryKept
<1>4. ASSUME NEW a \in Senders, msg = U!RemoveAdmin(a) PROVE RegistryKept(registry, msg)
  BY <1>4 DEF U!RemoveAdmin, U!After, U!RegistryType, RegistryKept
<1> QED
  BY <1>1, <1>2, <1>3, <1>4 DEF U!Messages

----------------------------------------------------------------------------
(* What a step does to the games *)

(* A new game: made by the owner under the next address, listed by the     *)
(* manager and by the users contract it works with.                        *)
Creates(a) ==
  /\ owner \in People
  /\ a = NewAddress /\ a \in Created /\ ~IsGame(a)
  /\ config.dev_wallet_list \in WholeLists
  /\ games' = games \cup {a}
  /\ DOMAIN contracts' = DOMAIN contracts \cup {a}
  /\ contracts'[a] = G!NewGame({Manager, owner}, config.users_contract,
                               config.dev_wallet_list)
  /\ Tell(config.users_contract, U!AddGame(a))

(* Every game takes one step, and at most one game is new. *)
GamesStep ==
  /\ \A a \in DOMAIN contracts :
       a \in DOMAIN contracts' /\ GameStep(contracts[a], contracts'[a])
  /\ \A a \in DOMAIN contracts' \ DOMAIN contracts : Creates(a)

(* A message to a set of games is a step of each. *)
LEMMA DeliverStep ==
  ASSUME NEW targets, NEW msg \in ManagerMessages, Deliver(targets, msg)
  PROVE  GamesStep
<1>1. msg.type # "RemoveAdmin"
  BY DEF ManagerMessages, G!CloseRound, G!Halt, G!Resume, G!ModifyDevWallet
<1>2. /\ DOMAIN contracts' = DOMAIN contracts
      /\ \A a \in DOMAIN contracts :
           contracts'[a] = IF a \in targets THEN G!After(contracts[a], msg) ELSE contracts[a]
  BY DEF Deliver
<1>3. msg \in GameMessages
  BY DEF GameMessages
<1> QED
  BY <1>1, <1>2, <1>3 DEF GamesStep, GameStep

(* update_users_contract encodes its query twice. *)
LEMMA QueryFails == \A a : ~AnswersConfig(a)
<1> DEFINE q0 == [query |-> "Config", encodings |-> 0]
           q1 == [query |-> "Config", encodings |-> 1]
           q2 == [query |-> "Config", encodings |-> 2]
<1>1. Encode(q0) = q1 /\ Encode(q1) = q2
  BY DEF Encode
<1>2. ConfigQuery = q1
  BY <1>1 DEF ConfigQuery
<1>3. ~Decodes(q2)
  BY DEF Decodes
<1> QED
  BY <1>1, <1>2, <1>3 DEF AnswersConfig

(* Steps that change no game. *)
LEMMA UnchangedGames ==
  ASSUME contracts' = contracts PROVE GamesStep
BY DEF GamesStep, GameStep

(* Whatever the owner sends, the games take the steps they take. *)
LEMMA OwnerGames ==
  ASSUME IInv, NEW sender \in People, OwnerSends(sender)
  PROVE  GamesStep
<1> USE ManagerAssumption
<1>1. CASE CreateGame(sender)
  <2> DEFINE new == NewAddress
             game == G!NewGame({Manager, sender}, config.users_contract,
                               config.dev_wallet_list)
  <2>1. /\ sender = owner /\ ~IsGame(new) /\ config.dev_wallet_list \in WholeLists
        /\ games' = games \cup {new}
        /\ contracts' = Save(contracts, new, game)
        /\ Tell(config.users_contract, U!AddGame(new))
    BY <1>1 DEF CreateGame, CanCreate, FirstAdmins
  <2>2. new \in Created
    BY <1>1 DEF CreateGame, CanCreate, NewAddress, Salt, Created, IInv, TypeOK
  <2> HIDE DEF game, new
  <2>3. /\ DOMAIN contracts' = DOMAIN contracts \cup {new}
        /\ contracts'[new] = game
        /\ \A a \in DOMAIN contracts : a # new => contracts'[a] = contracts[a]
    BY <2>1 DEF Save, SaveAll
  <2>4. new \notin DOMAIN contracts
    BY <2>1 DEF IsGame
  <2>5. Creates(new)
    BY <2>1, <2>2, <2>3 DEF Creates, game, new
  <2> QED
    BY <2>3, <2>4, <2>5 DEF GamesStep, GameStep
<1>2. ASSUME NEW wallets \in WalletLists, NEW all \in BOOLEAN,
             ModifyDevWallets(sender, wallets, all)
      PROVE  GamesStep
  <2>1. G!ModifyDevWallet(wallets) \in ManagerMessages
    BY <1>2 DEF ModifyDevWallets, RatiosSumToOne, ManagerMessages
  <2> QED
    BY <1>2, <2>1, DeliverStep DEF ModifyDevWallets
<1>3. ASSUME NEW code \in Codes, UpdateCodeIds(sender, code) PROVE GamesStep
  BY <1>3, UnchangedGames DEF UpdateCodeIds
<1>4. ASSUME NEW address \in UsersContracts \cup Strangers, NEW update \in BOOLEAN,
             NEW add \in BOOLEAN, UpdateUsersContract(sender, address, update, add)
      PROVE  GamesStep
  <2>1. update => games = {}
    BY <1>4, QueryFails DEF UpdateUsersContract
  <2>2. /\ DOMAIN contracts' = DOMAIN contracts
        /\ \A a \in DOMAIN contracts : contracts'[a] = contracts[a]
    BY <1>4, <2>1 DEF UpdateUsersContract
  <2> QED
    BY <2>2 DEF GamesStep, GameStep
<1>5. CASE HaltAllGames(sender)
  BY <1>5, DeliverStep DEF HaltAllGames, ManagerMessages
<1>6. CASE ResumeAllGames(sender)
  BY <1>6, DeliverStep DEF ResumeAllGames, ManagerMessages
<1>7. ASSUME NEW address \in Addresses, NEW users \in BOOLEAN,
             \/ ManuallyAddGame(sender, address, users)
             \/ ManuallyRemoveGame(sender, address, users)
      PROVE  GamesStep
  BY <1>7, UnchangedGames DEF ManuallyAddGame, ManuallyRemoveGame
<1> QED
  BY <1>1, <1>2, <1>3, <1>4, <1>5, <1>6, <1>7 DEF OwnerSends

(* Sudo closes the rounds of every listed game. *)
LEMMA SudoGames == Sudo => GamesStep
<1> SUFFICES ASSUME Sudo PROVE GamesStep
  OBVIOUS
<1> DEFINE msg == G!CloseRound(TRUE)
<1>1. msg \in GameMessages /\ msg.type # "RemoveAdmin"
  BY DEF GameMessages, ManagerMessages, G!CloseRound
<1>2. /\ DOMAIN contracts' = DOMAIN contracts
      /\ \A a \in DOMAIN contracts :
           contracts'[a] = IF a \in Targets THEN G!After(contracts[a], msg) ELSE contracts[a]
  BY DEF Sudo
<1> HIDE DEF msg
<1> QED
  BY <1>1, <1>2 DEF GamesStep, GameStep

(* So do the messages and events that do not pass through the manager. *)
LEMMA EnvironmentGames ==
  ASSUME Environment PROVE GamesStep
<1> USE ManagerAssumption
<1>1. ASSUME NEW sender \in People, NEW a \in Addresses, NEW msg \in DirectMessages,
             SendToGame(sender, a, msg)
      PROVE  GamesStep
  <2>1. /\ a \in DOMAIN contracts
        /\ msg.type = "RemoveAdmin" => contracts[a].admins \ {msg.admin} # {}
    BY <1>1 DEF SendToGame, IsGame, G!Accepts
  <2>2. /\ DOMAIN contracts' = DOMAIN contracts
        /\ contracts'[a] = G!After(contracts[a], msg)
        /\ \A b \in DOMAIN contracts : b # a => contracts'[b] = contracts[b]
    BY <1>1, <2>1 DEF SendToGame
  <2>3. msg \in GameMessages
    BY DEF GameMessages
  <2> QED
    BY <2>1, <2>2, <2>3 DEF GamesStep, GameStep
<1>2. ASSUME NEW a \in Addresses, RoundFallsDue(a) PROVE GamesStep
  <2>1. /\ DOMAIN contracts' = DOMAIN contracts
        /\ contracts'[a] = G!FallsDue(contracts[a])
        /\ \A b \in DOMAIN contracts : b # a => contracts'[b] = contracts[b]
    BY <1>2 DEF RoundFallsDue, IsGame
  <2> QED
    BY <2>1 DEF GamesStep, GameStep
<1>3. ASSUME NEW sender \in People, NEW sent \in UsersMessages,
             SendToUsers(sender, sent[1], sent[2])
      PROVE  GamesStep
  BY <1>3, UnchangedGames DEF SendToUsers
<1>4. CASE PricesChange \/ NewBlock
  BY <1>4, UnchangedGames DEF PricesChange, NewBlock
<1> QED
  BY <1>1, <1>2, <1>3, <1>4 DEF Environment

(* Every step of the system. *)
LEMMA NextGames == IInv /\ [Next]_vars => GamesStep
<1>1. ASSUME NEW sender \in People, ChangeOwnership(sender) PROVE GamesStep
  BY <1>1, UnchangedGames DEF ChangeOwnership, TransferOwnership, AcceptOwnership,
       RenounceOwnership
<1>2. ASSUME UNCHANGED vars PROVE GamesStep
  BY <1>2, UnchangedGames DEF vars
<1> QED
  BY <1>1, <1>2, OwnerGames, SudoGames, EnvironmentGames DEF Next

----------------------------------------------------------------------------
(* What a step does to the users contracts *)

(* Every users contract takes one message or none, and a game that is      *)
(* taken off its list is either no longer on the manager's, or the message *)
(* did not come from the manager.                                          *)
RegistryStep(registry, next) ==
  \/ next = registry
  \/ \E msg \in U!Messages :
       /\ msg.type = "RemoveAdmin" => registry.admins \ {msg.admin} # {}
       /\ next = U!After(registry, msg)
       /\ \/ msg.type # "RemoveGame"
          \/ msg.game \notin games'
          \/ \E sent \in UsersMessages : sent[2] = msg

RegistriesStep ==
  /\ DOMAIN registries' = DOMAIN registries
  /\ registries' = [u \in DOMAIN registries |-> registries'[u]]
  /\ \A u \in DOMAIN registries : RegistryStep(registries[u], registries'[u])

(* A message to one users contract is a step of that one. *)
LEMMA TellStep ==
  ASSUME NEW u, NEW msg \in U!Messages, Tell(u, msg),
         msg.type # "RemoveGame" \/ msg.game \notin games'
  PROVE  RegistriesStep
<1>1. /\ u \in DOMAIN registries
      /\ msg.type = "RemoveAdmin" => registries[u].admins \ {msg.admin} # {}
  BY DEF Tell, UsersTakes, U!Accepts
<1>2. /\ DOMAIN registries' = DOMAIN registries
      /\ registries' = [v \in DOMAIN registries |-> registries'[v]]
      /\ registries'[u] = U!After(registries[u], msg)
      /\ \A v \in DOMAIN registries : v # u => registries'[v] = registries[v]
  BY <1>1 DEF Tell
<1> QED
  BY <1>1, <1>2 DEF RegistriesStep, RegistryStep

(* Steps that send nothing to a users contract. *)
LEMMA UnchangedRegistries ==
  ASSUME IInv, registries' = registries PROVE RegistriesStep
BY DEF IInv, TypeOK, RegistriesStep, RegistryStep

(* The owner's messages. *)
LEMMA OwnerRegistries ==
  ASSUME IInv, NEW sender \in People, OwnerSends(sender)
  PROVE  RegistriesStep
<1> USE ManagerAssumption
<1>1. ASSUME NEW set \in SUBSET Addresses
      PROVE  U!AddGames(set) \in U!Messages /\ U!AddGames(set).type # "RemoveGame"
  BY DEF U!Messages, U!AddGames
<1>2. ASSUME NEW a \in Addresses
      PROVE  U!AddGame(a) \in U!Messages /\ U!AddGame(a).type # "RemoveGame"
  BY <1>1 DEF U!AddGame
<1>3. CASE CreateGame(sender)
  <2>1. NewAddress \in Addresses
    BY <1>3 DEF CreateGame, CanCreate, NewAddress, Salt, Created, Addresses, IInv, TypeOK
  <2> QED
    BY <1>2, <1>3, <2>1, TellStep DEF CreateGame
<1>4. ASSUME NEW address \in UsersContracts \cup Strangers, NEW update \in BOOLEAN,
             NEW add \in BOOLEAN, UpdateUsersContract(sender, address, update, add)
      PROVE  RegistriesStep
  <2>1. CASE add
    <3>1. games \in SUBSET Addresses
      BY DEF IInv, TypeOK
    <3> QED
      BY <1>1, <1>4, <2>1, <3>1, TellStep DEF UpdateUsersContract
  <2>2. CASE ~add
    BY <1>4, <2>2, UnchangedRegistries DEF UpdateUsersContract
  <2> QED
    BY <2>1, <2>2
<1>5. ASSUME NEW address \in Addresses, NEW users \in BOOLEAN,
             ManuallyAddGame(sender, address, users)
      PROVE  RegistriesStep
  BY <1>2, <1>5, TellStep, UnchangedRegistries DEF ManuallyAddGame
<1>6. ASSUME NEW address \in Addresses, NEW users \in BOOLEAN,
             ManuallyRemoveGame(sender, address, users)
      PROVE  RegistriesStep
  <2>1. U!RemoveGame(address) \in U!Messages /\ U!RemoveGame(address).game = address
    BY DEF U!Messages, U!RemoveGame
  <2>2. address \notin games'
    BY <1>6 DEF ManuallyRemoveGame, Delisted
  <2> QED
    BY <1>6, <2>1, <2>2, TellStep, UnchangedRegistries DEF ManuallyRemoveGame
<1>7. CASE registries' = registries
  BY <1>7, UnchangedRegistries
<1> QED
  BY <1>3, <1>4, <1>5, <1>6, <1>7
     DEF OwnerSends, ModifyDevWallets, UpdateCodeIds, HaltAllGames, ResumeAllGames

(* Every step of the system. *)
LEMMA NextRegistries == IInv /\ [Next]_vars => RegistriesStep
<1> SUFFICES ASSUME IInv, [Next]_vars PROVE RegistriesStep
  OBVIOUS
<1> USE ManagerAssumption
<1>1. ASSUME NEW sender \in People, NEW sent \in UsersMessages,
             SendToUsers(sender, sent[1], sent[2])
      PROVE  RegistriesStep
  <2> DEFINE u == sent[1]
             msg == sent[2]
  <2>1. u \in DOMAIN registries /\ msg \in U!Messages
    BY DEF IInv, TypeOK
  <2>2. msg.type = "RemoveAdmin" => registries[u].admins \ {msg.admin} # {}
    BY <1>1 DEF SendToUsers, U!Accepts
  <2>3. /\ DOMAIN registries' = DOMAIN registries
        /\ registries' = [v \in DOMAIN registries |-> registries'[v]]
        /\ registries'[u] = U!After(registries[u], msg)
        /\ \A v \in DOMAIN registries : v # u => registries'[v] = registries[v]
    BY <1>1, <2>1 DEF SendToUsers
  <2> QED
    BY <2>1, <2>2, <2>3 DEF RegistriesStep, RegistryStep
<1>2. CASE registries' = registries
  BY <1>2, UnchangedRegistries
<1>3. Sudo \/ UNCHANGED vars => registries' = registries
  BY DEF Sudo, vars
<1>4. (\E sender \in People : ChangeOwnership(sender)) => registries' = registries
  BY DEF ChangeOwnership, TransferOwnership, AcceptOwnership, RenounceOwnership
<1>5. Environment =>
        \/ registries' = registries
        \/ \E sender \in People, sent \in UsersMessages :
             SendToUsers(sender, sent[1], sent[2])
  BY DEF Environment, SendToGame, RoundFallsDue, PricesChange, NewBlock
<1> QED
  BY <1>1, <1>2, <1>3, <1>4, <1>5, OwnerRegistries DEF Next

----------------------------------------------------------------------------
(* The invariant *)

(* The system as instantiate leaves it satisfies the invariant. *)
LEMMA InitInv == Init => IInv
<1> SUFFICES ASSUME Init PROVE IInv
  OBVIOUS
<1> USE ManagerAssumption
<1>1. /\ DOMAIN contracts = OutsideGames
      /\ \A a \in OutsideGames :
           contracts[a] \in G!GameType /\ contracts[a].admins # {}
  BY DEF Init, G!NewGame, G!GameType, Senders
<1>2. registries \in [UsersContracts -> U!RegistryType]
  BY DEF Init, U!NewRegistry, U!RegistryType, Senders
<1>3. \A u \in UsersContracts : registries[u].admins # {}
  BY DEF Init, U!NewRegistry
<1>4. config \in ConfigType /\ config.dev_wallet_list \in WholeLists
  BY DEF Init, ConfigType
<1>5. /\ owner \in People \cup {Nobody} /\ pendingOwner \in People \cup {Nobody}
      /\ games \subseteq Addresses /\ stale \subseteq DOMAIN contracts
      /\ height \in 0..MaxHeight
  BY DEF Init
<1> QED
  BY <1>1, <1>2, <1>3, <1>4, <1>5 DEF IInv, TypeOK

(* The manager's own storage. *)
LEMMA ManagerTyped ==
  ASSUME IInv, [Next]_vars
  PROVE  /\ owner' \in People \cup {Nobody} /\ pendingOwner' \in People \cup {Nobody}
         /\ config' \in ConfigType /\ config'.dev_wallet_list \in WholeLists
         /\ games' \subseteq Addresses
         /\ height' \in 0..MaxHeight
         /\ stale' = stale \/ stale' \subseteq DOMAIN contracts
<1> USE ManagerAssumption
<1>0. /\ owner \in People \cup {Nobody} /\ pendingOwner \in People \cup {Nobody}
      /\ config \in ConfigType /\ config.dev_wallet_list \in WholeLists
      /\ games \subseteq Addresses /\ height \in 0..MaxHeight
  BY DEF IInv, TypeOK
<1>1. CASE Sudo \/ UNCHANGED vars
  BY <1>0, <1>1 DEF Sudo, vars, managerVars, chainVars
<1> DEFINE Stored == /\ UNCHANGED <<owner, pendingOwner, chainVars>>
                     /\ config' \in ConfigType /\ config'.dev_wallet_list \in WholeLists
                     /\ games' \subseteq Addresses
<1>2. ASSUME NEW sender \in People, OwnerSends(sender) PROVE Stored
  <2>1. CASE CreateGame(sender)
    <3>1. NewAddress \in Addresses
      BY <2>1 DEF CreateGame, CanCreate, NewAddress, Salt, Created, Addresses, IInv, TypeOK
    <3> QED
      BY <1>0, <2>1, <3>1 DEF CreateGame
  <2>2. ASSUME NEW wallets \in WalletLists, NEW all \in BOOLEAN,
               ModifyDevWallets(sender, wallets, all)
        PROVE  Stored
    BY <1>0, <2>2 DEF ModifyDevWallets, RatiosSumToOne, ConfigType
  <2>3. ASSUME NEW code \in Codes, UpdateCodeIds(sender, code) PROVE Stored
    BY <1>0, <2>3 DEF UpdateCodeIds, ConfigType
  <2>4. ASSUME NEW address \in UsersContracts \cup Strangers, NEW update \in BOOLEAN,
               NEW add \in BOOLEAN, UpdateUsersContract(sender, address, update, add)
        PROVE  Stored
    BY <1>0, <2>4 DEF UpdateUsersContract, ConfigType
  <2>5. CASE HaltAllGames(sender) \/ ResumeAllGames(sender)
    BY <1>0, <2>5 DEF HaltAllGames, ResumeAllGames, managerVars
  <2>6. ASSUME NEW address \in Addresses, NEW users \in BOOLEAN,
               \/ ManuallyAddGame(sender, address, users)
               \/ ManuallyRemoveGame(sender, address, users)
        PROVE  Stored
    BY <1>0, <2>6 DEF ManuallyAddGame, ManuallyRemoveGame, Delisted
  <2> QED
    BY <1>2, <2>1, <2>2, <2>3, <2>4, <2>5, <2>6 DEF OwnerSends
<1>3. CASE \E sender \in People : OwnerSends(sender)
  BY <1>0, <1>2, <1>3 DEF chainVars
<1>4. CASE \E sender \in People : ChangeOwnership(sender)
  BY <1>0, <1>4 DEF ChangeOwnership, TransferOwnership, AcceptOwnership,
       RenounceOwnership, chainVars
<1>5. CASE Environment
  BY <1>0, <1>5 DEF Environment, SendToGame, SendToUsers, RoundFallsDue, PricesChange,
       NewBlock, managerVars, chainVars
<1> QED
  BY <1>1, <1>3, <1>4, <1>5 DEF Next

(* Every step keeps the invariant. *)
LEMMA NextInv == IInv /\ [Next]_vars => IInv'
<1> SUFFICES ASSUME IInv, [Next]_vars PROVE IInv'
  OBVIOUS
<1> USE ManagerAssumption
<1>1. GamesStep
  BY NextGames
<1>2. RegistriesStep
  BY NextRegistries
<1>3. ASSUME NEW a \in DOMAIN contracts'
      PROVE  /\ a \in Created \cup OutsideGames
             /\ contracts'[a] \in G!GameType /\ contracts'[a].admins # {}
  <2>1. CASE a \in DOMAIN contracts
    BY <1>1, <2>1, GameStepKept DEF GamesStep, IInv, TypeOK
  <2>2. CASE a \notin DOMAIN contracts
    <3>1. Creates(a)
      BY <1>1, <2>2 DEF GamesStep
    <3>2. config.users_contract \in UsersContracts \cup Strangers
      BY DEF IInv, TypeOK, ConfigType
    <3>3. config.dev_wallet_list \in WalletLists /\ owner \in Senders
      BY <3>1 DEF Creates, Senders
    <3>4. Manager \in Senders
      BY DEF Senders
    <3> QED
      BY <3>1, <3>2, <3>3, <3>4 DEF Creates, G!NewGame, G!GameType
  <2> QED
    BY <2>1, <2>2
<1>4. ASSUME NEW u \in UsersContracts
      PROVE  registries'[u] \in U!RegistryType /\ registries'[u].admins # {}
  <2>1. /\ registries[u] \in U!RegistryType /\ registries[u].admins # {}
        /\ RegistryStep(registries[u], registries'[u])
    BY <1>2 DEF RegistriesStep, IInv, TypeOK
  <2>2. ASSUME NEW msg \in U!Messages,
               msg.type = "RemoveAdmin" => registries[u].admins \ {msg.admin} # {},
               registries'[u] = U!After(registries[u], msg)
        PROVE  registries'[u] \in U!RegistryType /\ registries'[u].admins # {}
    <3>1. RegistryKept(registries[u], msg)
      BY <2>1, <2>2, RegistryAfter
    <3> QED
      BY <2>2, <3>1 DEF RegistryKept
  <2> QED
    BY <2>1, <2>2 DEF RegistryStep
<1>5. registries' \in [UsersContracts -> U!RegistryType]
  BY <1>2, <1>4 DEF RegistriesStep, IInv, TypeOK
<1>6. DOMAIN contracts \subseteq DOMAIN contracts'
  BY <1>1 DEF GamesStep
<1>7. stale' \subseteq DOMAIN contracts'
  BY <1>6, ManagerTyped DEF IInv, TypeOK
<1> QED
  BY <1>3, <1>4, <1>5, <1>7, ManagerTyped DEF IInv, TypeOK

(* The invariant holds in every reachable state. *)
THEOREM Invariance == Spec => []IInv
BY InitInv, NextInv, PTL DEF Spec

(* TypeOK: the storage keeps its types, and every contract an              *)
(* administrator, whatever the manager and people send.                    *)
THEOREM TypesHold == Spec => []TypeOK
<1>1. IInv => TypeOK
  BY DEF IInv
<1> QED
  BY <1>1, Invariance, PTL

----------------------------------------------------------------------------
(* What the manager's owner can rely on *)

(* A game that is wired stays wired as long as the manager lists it, and a *)
(* new one is wired.                                                       *)
LEMMA WiredStep ==
  ASSUME NoRewiring, IInv, [Next]_vars, NEW a \in games',
         Wired(a) \/ a \in DOMAIN contracts' \ DOMAIN contracts
  PROVE  Wired(a)'
<1> USE ManagerAssumption
<1>1. GamesStep
  BY NextGames
<1>2. RegistriesStep
  BY NextRegistries
<1>3. ASSUME Wired(a) PROVE Wired(a)'
  <2> DEFINE users == contracts[a].users_contract
  <2>1. /\ a \in DOMAIN contracts /\ users \in UsersContracts
        /\ a \in registries[users].gameContracts
    BY <1>3 DEF Wired, IsGame
  <2>2. a \in DOMAIN contracts' /\ contracts'[a].users_contract = users
    BY <1>1, <2>1, GameStepKept DEF GamesStep, IInv, TypeOK, NoRewiring
  <2>3. /\ registries[users] \in U!RegistryType /\ registries[users].admins # {}
        /\ RegistryStep(registries[users], registries'[users])
    BY <1>2, <2>1 DEF RegistriesStep, IInv, TypeOK
  <2> HIDE DEF users
  <2>4. ASSUME NEW msg \in U!Messages,
               msg.type = "RemoveAdmin" => registries[users].admins \ {msg.admin} # {},
               registries'[users] = U!After(registries[users], msg),
               \/ msg.type # "RemoveGame"
               \/ msg.game \notin games'
               \/ \E sent \in UsersMessages : sent[2] = msg
        PROVE  a \in registries'[users].gameContracts
    <3>1. RegistryKept(registries[users], msg)
      BY <2>3, <2>4, RegistryAfter
    <3>2. ~(msg.type = "RemoveGame" /\ msg.game = a)
      BY <2>4 DEF NoRewiring
    <3> QED
      BY <2>1, <2>4, <3>1, <3>2 DEF RegistryKept
  <2>5. a \in registries'[users].gameContracts
    BY <2>1, <2>3, <2>4 DEF RegistryStep
  <2> QED
    BY <2>1, <2>2, <2>5 DEF Wired, IsGame
<1>4. ASSUME a \in DOMAIN contracts' \ DOMAIN contracts PROVE Wired(a)'
  <2> DEFINE users == config.users_contract
  <2>1. /\ a \in DOMAIN contracts' /\ contracts'[a].users_contract = users
        /\ Tell(users, U!AddGame(a))
    <3>1. Creates(a)
      BY <1>1, <1>4 DEF GamesStep
    <3> QED
      BY <3>1 DEF Creates, G!NewGame
  <2>2. users \in UsersContracts /\ registries[users] \in U!RegistryType
    BY <2>1 DEF Tell, UsersTakes, IInv, TypeOK
  <2> HIDE DEF users
  <2>3. registries'[users] = U!After(registries[users], U!AddGame(a))
    BY <2>1, <2>2 DEF Tell, UsersTakes
  <2>4. a \in registries'[users].gameContracts
    BY <2>2, <2>3 DEF U!After, U!AddGame, U!AddGames, U!RegistryType
  <2> QED
    BY <2>1, <2>2, <2>4 DEF Wired, IsGame
<1> QED
  BY <1>3, <1>4

(* GamesStayWired: however many games, users contracts and messages, the   *)
(* manager cuts no game it lists off the users contract that pays for it.  *)
THEOREM WiringHolds == NoRewiring => (Spec => GamesStayWired)
<1> SUFFICES ASSUME NoRewiring PROVE Spec => GamesStayWired
  OBVIOUS
<1>1. IInv /\ [Next]_vars =>
        [\A a \in games' :
           \/ Wired(a)
           \/ a \in DOMAIN contracts' \ DOMAIN contracts
           => Wired(a)']_vars
  BY WiredStep
<1> QED
  BY <1>1, Invariance, PTL DEF Spec, GamesStayWired

(* The manager commands every game it made. *)
CommandsItsGames == \A a \in Created \cap DOMAIN contracts : Commands(a)

(* It has been an administrator of the game from the start. *)
LEMMA CommandsInv ==
  ASSUME ManagerStays
  PROVE  /\ Init => CommandsItsGames
         /\ IInv /\ CommandsItsGames /\ [Next]_vars => CommandsItsGames'
<1> USE ManagerAssumption
<1>1. Init => CommandsItsGames
  BY DEF Init, CommandsItsGames
<1>2. ASSUME IInv, CommandsItsGames, [Next]_vars,
             NEW a \in Created \cap DOMAIN contracts'
      PROVE  Commands(a)'
  <2>1. GamesStep
    BY <1>2, NextGames
  <2>2. CASE a \in DOMAIN contracts
    <3>1. /\ contracts[a] \in G!GameType /\ contracts[a].admins # {}
          /\ Manager \in contracts[a].admins
      BY <1>2, <2>2 DEF IInv, TypeOK, CommandsItsGames, Commands
    <3> QED
      BY <2>1, <2>2, <3>1, GameStepKept DEF GamesStep, Commands, IsGame
  <2>3. CASE a \notin DOMAIN contracts
    <3>1. Creates(a)
      BY <1>2, <2>1, <2>3 DEF GamesStep
    <3> QED
      BY <3>1 DEF Creates, G!NewGame, Commands, IsGame
  <2> QED
    BY <2>2, <2>3
<1> QED
  BY <1>1, <1>2 DEF CommandsItsGames

(* EmergencyHalt in terms of the guards of HaltAllGames (ENABLED is out of *)
(* the provers' reach): where no administrator of a game dismisses the     *)
(* manager, every game it lists takes the message, whether it is running,  *)
(* halted or due, unless an address was added by hand that is not a game   *)
(* it commands.                                                            *)
HaltIsTaken ==
  /\ games \cap Created \subseteq DOMAIN contracts
  /\ \A a \in games \ Created : Commands(a)
  => \A a \in games : GameTakes(a, G!Halt)

(* The emergency stop is never blocked by a game the manager made.         *)
THEOREM HaltStaysPossible == ManagerStays => (Spec => []HaltIsTaken)
<1> SUFFICES ASSUME ManagerStays PROVE Spec => []HaltIsTaken
  OBVIOUS
<1>1. Spec => []CommandsItsGames
  BY CommandsInv, Invariance, PTL DEF Spec
<1>2. CommandsItsGames => HaltIsTaken
  BY DEF CommandsItsGames, HaltIsTaken, Commands, GameTakes, IsGame, G!Accepts, G!Halt
<1> QED
  BY <1>1, <1>2, PTL

(* What is left to TLC of EmergencyHalt: HaltAllGames can be taken when    *)
(* every listed game takes the message.                                    *)
HaltIsEnabled ==
  owner # Nobody /\ (\A a \in games : GameTakes(a, G!Halt)) => ENABLED HaltAllGames(owner)

(* EmergencyHalt, then, holds in every reachable state. *)
THEOREM OwnerCanHalt == ManagerStays => ([]HaltIsEnabled => (Spec => []EmergencyHalt))
<1> SUFFICES ASSUME ManagerStays PROVE []HaltIsEnabled => (Spec => []EmergencyHalt)
  OBVIOUS
<1>1. Spec => []HaltIsTaken
  BY HaltStaysPossible
<1>2. HaltIsTaken /\ HaltIsEnabled => EmergencyHalt
  BY DEF HaltIsTaken, HaltIsEnabled, EmergencyHalt
<1> QED
  BY <1>1, <1>2, PTL

(* OwnerCanCreate in terms of the guards of CreateGame: under the          *)
(* conditions of OwnerCanCreate the address is free, the wallets are good  *)
(* and the users contract takes the new game.                              *)
CreationIsTaken ==
  /\ config.games_code_id \in GameCodes
  /\ <<config.games_code_id, height>> \notin DOMAIN contracts
  /\ config.users_contract \in UsersContracts
  /\ Manager \in registries[config.users_contract].admins
  => /\ CanCreate
     /\ UsersTakes(config.users_contract, U!AddGame(NewAddress))

(* The owner can make another game in every block in which none of this    *)
(* code was made, whatever happened before.                                *)
THEOREM CreationStaysPossible == Spec => []CreationIsTaken
<1>1. ASSUME IInv PROVE CreationIsTaken
  <2>1. DOMAIN registries = UsersContracts /\ config.dev_wallet_list \in WholeLists
    BY <1>1 DEF IInv, TypeOK
  <2>2. U!AddGame(NewAddress).type # "RemoveAdmin"
    BY DEF U!AddGame, U!AddGames
  <2> QED
    BY <2>1, <2>2 DEF CreationIsTaken, CanCreate, IsGame, NewAddress, Salt, UsersTakes, U!Accepts
<1> QED
  BY <1>1, Invariance, PTL

(* What is left to TLC of OwnerCanCreate: CreateGame can be taken when its *)
(* guards hold and the users contract takes the game.                      *)
CreationIsEnabled ==
  /\ owner # Nobody
  /\ CanCreate
  /\ UsersTakes(config.users_contract, U!AddGame(NewAddress))
  => ENABLED CreateGame(owner)

(* OwnerCanCreate, then, holds in every reachable state. *)
THEOREM CreationIsNeverBlocked == []CreationIsEnabled => (Spec => []OwnerCanCreate)
<1>1. CreationIsTaken /\ CreationIsEnabled => OwnerCanCreate
  BY DEF CreationIsTaken, CreationIsEnabled, OwnerCanCreate
<1> QED
  BY <1>1, CreationStaysPossible, PTL

----------------------------------------------------------------------------
(* Games that are due *)

(* The provers do not reason about ENABLED.  This says of the scheduler's  *)
(* step that it can be taken when its guards hold and a listed game is     *)
(* due; it is what is left to TLC of the liveness property below.          *)
SudoIsEnabled ==
  (\A a \in Targets : CanClose(a)) /\ (\E a \in Addresses : Pending(a))
    => ENABLED <<Sudo>>_vars

(* Nothing but an obstacle keeps the scheduler from a game that is due,    *)
(* and the rounds of every listed game are closed at once.                 *)
LEMMA SudoCloses ==
  ASSUME IInv, NEW a \in Addresses, Pending(a)
  PROVE  /\ ~Obstructed /\ SudoIsEnabled => ENABLED <<Sudo>>_vars
         /\ Sudo => ~Pending(a)'
<1>1. ASSUME ~Obstructed, NEW b \in Targets PROVE CanClose(b)
  <2>1. IsGame(b) /\ ~contracts[b].isHalted /\ (contracts[b].due => b \notin stale)
    BY <1>1 DEF Obstructed, Targets
  <2> QED
    BY <2>1 DEF CanClose, GameTakes, G!Accepts, G!CloseRound
<1>2. ~Obstructed /\ SudoIsEnabled => ENABLED <<Sudo>>_vars
  BY <1>1 DEF SudoIsEnabled
<1>3. ASSUME Sudo PROVE ~Pending(a)'
  <2>1. a \in Targets /\ a \in DOMAIN contracts /\ contracts[a] \in G!GameType
    BY DEF Pending, IsGame, Targets, IInv, TypeOK
  <2>2. contracts'[a] = G!After(contracts[a], G!CloseRound(TRUE))
    BY <1>3, <2>1 DEF Sudo
  <2>3. ~contracts'[a].due
    BY <2>1, <2>2 DEF G!After, G!CloseRound, G!GameType
  <2> QED
    BY <2>3 DEF Pending
<1> QED
  BY <1>2, <1>3

(* As long as the chain keeps calling sudo, every listed game that is due  *)
(* gets its rounds closed or is taken off the list, unless from some time  *)
(* on there is always an obstacle: of the owner, the administrators and    *)
(* the oracle nothing is assumed.                                          *)
THEOREM DueGamesAreClosed == []SudoIsEnabled => (FairSpec => DueGamesClose)
<1>1. ASSUME NEW a \in Addresses
      PROVE  []SudoIsEnabled /\ FairSpec
               => ((Pending(a) ~> ~Pending(a)) \/ <>[]Obstructed)
  <2>1. IInv /\ Pending(a) /\ ~Obstructed /\ SudoIsEnabled => ENABLED <<Sudo>>_vars
    BY SudoCloses
  <2>2. IInv /\ Pending(a) /\ <<Sudo>>_vars => ~Pending(a)'
    BY SudoCloses
  <2> QED
    BY <2>1, <2>2, Invariance, PTL DEF FairSpec
<1> QED
  BY <1>1 DEF DueGamesClose

=============================================================================
