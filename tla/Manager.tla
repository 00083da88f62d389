------------------------------ MODULE Manager ------------------------------
(***************************************************************************)
(* The manager together with the contracts it drives: the prediction games *)
(* it lists (GameInterface) and the users contracts (UsersInterface).  The *)
(* owner creates games through it, and halts, resumes and reconfigures all *)
(* listed games at once; the chain's scheduler (sudo) closes their rounds. *)
(*                                                                         *)
(* The messages a handler emits run in the same transaction: one message   *)
(* that is refused undoes the handler and all the others, so a fan-out is  *)
(* one step, enabled when every addressee accepts.                         *)
(*                                                                         *)
(* The administrators of the contracts also send them messages directly.   *)
(* Left out: the parameters of a game nobody here reads, the order of the  *)
(* fan-outs, the expiry of a transfer of ownership, pagination.            *)
(*                                                                         *)
(* A definition whose name ends in _Fault is not part of the model: it is  *)
(* the definition below it with a plausible bug, kept to show that the     *)
(* properties tell the two apart.                                          *)
(***************************************************************************)
EXTENDS Integers, FiniteSets, Storage

CONSTANTS
  Manager,          \* the address of the manager
  People,           \* accounts that own or administer contracts
  InitOwner,        \* the sender of the manager's instantiate
  GameCodes,        \* code ids of prediction games
  Codes,            \* code ids UpdateCodeIds may get
  UsersContracts,   \* users contracts: the one instantiate makes, and others
  InitUsers,        \* the one instantiate makes
  OutsideGames,     \* prediction games that were not made by the manager
  Strangers,        \* addresses that are neither games nor users contracts
  WalletLists,      \* lists of wallets a message may carry
  WholeLists,       \* those whose ratios sum to one
  InitWallets,      \* dev_wallet_list of instantiate
  DirectMessages,   \* what people send to games without the manager
  UsersMessages,    \* to users contracts: <<contract, message>> pairs
  OwnershipChanges, \* whether the ownership is transferred or renounced
  MaxHeight,        \* bound on the block height
  Nobody            \* no owner, no pending owner

(* instantiate2_address: determined by the code, the manager and the salt *)
Created   == GameCodes \X (0..MaxHeight)
Addresses == Created \cup OutsideGames \cup Strangers
Senders   == People \cup {Manager}

G == INSTANCE GameInterface WITH UsersContracts <- UsersContracts \cup Strangers
U == INSTANCE UsersInterface WITH Games <- Addresses

ConfigType ==
  [users_contract : UsersContracts \cup Strangers, games_code_id : Codes,
   dev_wallet_list : WalletLists]

ASSUME ManagerAssumption ==
  /\ InitOwner \in People /\ Nobody \notin People /\ Manager \notin People
  /\ GameCodes \subseteq Codes /\ GameCodes # {}
  /\ InitUsers \in UsersContracts
  /\ WholeLists \subseteq WalletLists /\ InitWallets \in WholeLists
  /\ (OutsideGames \cup Strangers) \cap Created = {}
  /\ DirectMessages \subseteq G!Messages
  /\ UsersMessages \subseteq UsersContracts \X U!Messages
  /\ OwnershipChanges \in BOOLEAN /\ MaxHeight \in Nat

VARIABLES
  owner,         \* the owner kept by cw_ownable
  pendingOwner,  \* and the account that may accept the ownership
  config,        \* CONFIG
  games,         \* GAMES
  contracts,     \* the prediction games on the chain, by address
  registries,    \* the users contracts on the chain, by address
  stale,         \* games for whose denoms the oracle has no fresh price
  height         \* block height

managerVars == <<owner, pendingOwner, config, games>>
chainVars   == <<stale, height>>
vars == <<managerVars, contracts, registries, chainVars>>

(* A game made outside belongs to the owner; so do other users contracts,  *)
(* which may count the manager among their administrators.                 *)
Init ==
  /\ owner = InitOwner /\ pendingOwner = Nobody
  /\ config \in [users_contract : {InitUsers}, games_code_id : Codes,
                 dev_wallet_list : {InitWallets}]
  /\ games = {}
  /\ contracts = [a \in OutsideGames |->
                    G!NewGame({InitOwner}, InitUsers, InitWallets)]
  /\ registries = [u \in UsersContracts |-> U!NewRegistry({InitOwner, Manager})]
  /\ stale = {} /\ height = 0

----------------------------------------------------------------------------
(* Messages of the manager to the contracts *)

IsGame(a) == a \in DOMAIN contracts

GameTakes(a, msg) == IsGame(a) /\ G!Accepts(contracts[a], Manager, msg)

(* One message to every target *)
Deliver(targets, msg) ==
  /\ \A a \in targets : GameTakes(a, msg)
  /\ contracts' = [a \in DOMAIN contracts |->
                     IF a \in targets THEN G!After(contracts[a], msg) ELSE contracts[a]]

UsersTakes(u, msg) ==
  u \in DOMAIN registries /\ U!Accepts(registries[u], Manager, msg)

Tell(u, msg) ==
  /\ UsersTakes(u, msg)
  /\ registries' = [registries EXCEPT ![u] = U!After(@, msg)]

----------------------------------------------------------------------------
(* The scheduler *)

Targets_Fault ==                       \* begins after the first
  {a \in games : a # CHOOSE first \in games : TRUE}

Targets == games

CanClose(a) == GameTakes(a, G!CloseRound(a \notin stale))

Sudo ==
  /\ \A a \in Targets : CanClose(a)
  /\ contracts' = [a \in DOMAIN contracts |->
                     IF a \in Targets THEN G!After(contracts[a], G!CloseRound(TRUE))
                                      ELSE contracts[a]]
  /\ UNCHANGED <<managerVars, registries, chainVars>>

----------------------------------------------------------------------------
(* Messages of the owner *)

TransferOwnership(sender, new_owner) ==
  /\ OwnershipChanges
  /\ sender = owner
  /\ pendingOwner' = new_owner
  /\ UNCHANGED <<owner, config, games, contracts, registries, chainVars>>

AcceptOwnership(sender) ==
  /\ OwnershipChanges
  /\ sender = pendingOwner
  /\ owner' = sender /\ pendingOwner' = Nobody
  /\ UNCHANGED <<config, games, contracts, registries, chainVars>>

RenounceOwnership(sender) ==
  /\ OwnershipChanges
  /\ sender = owner
  /\ owner' = Nobody /\ pendingOwner' = Nobody
  /\ UNCHANGED <<config, games, contracts, registries, chainVars>>

Salt_Fault == 0        \* every game would get the same address

Salt == height

NewAddress_Fault == <<config.games_code_id, Salt + 1>>   \* of the next block

NewAddress == <<config.games_code_id, Salt>>

FirstAdmins_Fault(sender) == {sender}      \* the extra_admins replace the sender

(* The game is instantiated by the manager, with its owner as extra admin *)
FirstAdmins(sender) == {Manager, sender}

(* The chain refuses a code that is not a game's and an address in use;    *)
(* the game's instantiate refuses wallets whose ratios do not sum to one.  *)
(* The parameters the owner passes on are taken to be well-formed: the     *)
(* game also refuses an empty list of tickers and malformed addresses.     *)
CanCreate ==
  /\ config.games_code_id \in GameCodes
  /\ ~IsGame(NewAddress)
  /\ config.dev_wallet_list \in WholeLists

CreateGame(sender) ==
  /\ sender = owner
  /\ CanCreate
  /\ games' = games \cup {NewAddress}
  /\ contracts' = Save(contracts, NewAddress,
                       G!NewGame(FirstAdmins(sender), config.users_contract,
                                 config.dev_wallet_list))
  /\ Tell(config.users_contract, U!AddGame(NewAddress))
  /\ UNCHANGED <<owner, pendingOwner, config, chainVars>>

RatiosSumToOne(wallets) == wallets \in WholeLists

ModifyDevWallets(sender, wallets, update_all_games) ==
  /\ sender = owner
  /\ RatiosSumToOne(wallets)
  /\ config' = [config EXCEPT !.dev_wallet_list = wallets]
  /\ Deliver(IF update_all_games THEN games ELSE {}, G!ModifyDevWallet(wallets))
  /\ UNCHANGED <<owner, pendingOwner, games, registries, chainVars>>

UpdateCodeIds(sender, games_code_id) ==
  /\ sender = owner
  /\ config' = [config EXCEPT !.games_code_id = games_code_id]
  /\ UNCHANGED <<owner, pendingOwner, games, contracts, registries, chainVars>>

(* to_json_binary, and what the query entry point of a game undoes *)
Encode(payload) == [payload EXCEPT !.encodings = @ + 1]

Decodes(payload) == payload.encodings = 1

(* update_users_contract encodes the query before it passes it on *)
ConfigQuery == Encode([query |-> "Config", encodings |-> 0])

(* query_wasm_smart encodes what it is given *)
AnswersConfig(a) == IsGame(a) /\ Decodes(Encode(ConfigQuery))

WithUsers(a, users) == G!UpdateConfig(users, contracts[a].dev_wallet_list)

(* The address is not checked; the games' other settings are sent back *)
UpdateUsersContract(sender, address, update_all_games, add_all_games) ==
  /\ sender = owner
  /\ config' = [config EXCEPT !.users_contract = address]
  /\ update_all_games =>
       \A a \in games : AnswersConfig(a) /\ GameTakes(a, WithUsers(a, address))
  /\ contracts' = [a \in DOMAIN contracts |->
                     IF update_all_games /\ a \in games
                     THEN G!After(contracts[a], WithUsers(a, address)) ELSE contracts[a]]
  /\ IF add_all_games THEN Tell(address, U!AddGames(games)) ELSE UNCHANGED registries
  /\ UNCHANGED <<owner, pendingOwner, games, chainVars>>

HaltAllGames(sender) ==
  /\ sender = owner
  /\ Deliver(games, G!Halt)
  /\ UNCHANGED <<managerVars, registries, chainVars>>

ResumeAllGames(sender) ==
  /\ sender = owner
  /\ Deliver(games, G!Resume)
  /\ UNCHANGED <<managerVars, registries, chainVars>>

(* Any valid address is listed, a game or not *)
ManuallyAddGame(sender, address, add_to_users_contract) ==
  /\ sender = owner
  /\ games' = games \cup {address}
  /\ IF add_to_users_contract THEN Tell(config.users_contract, U!AddGame(address))
                              ELSE UNCHANGED registries
  /\ UNCHANGED <<owner, pendingOwner, config, contracts, chainVars>>

Delisted_Fault(address) == games           \* only the users contract is told

Delisted(address) == games \ {address}

ManuallyRemoveGame(sender, address, remove_from_users_contract) ==
  /\ sender = owner
  /\ games' = Delisted(address)
  /\ IF remove_from_users_contract THEN Tell(config.users_contract, U!RemoveGame(address))
                                   ELSE UNCHANGED registries
  /\ UNCHANGED <<owner, pendingOwner, config, contracts, chainVars>>

----------------------------------------------------------------------------
(* The environment: messages that do not pass through the manager, rounds  *)
(* that fall due, prices that come and go, blocks.                         *)

SendToGame(sender, a, msg) ==
  /\ IsGame(a)
  /\ G!Accepts(contracts[a], sender, msg)
  /\ contracts' = [contracts EXCEPT ![a] = G!After(@, msg)]
  /\ UNCHANGED <<managerVars, registries, chainVars>>

SendToUsers(sender, u, msg) ==
  /\ U!Accepts(registries[u], sender, msg)
  /\ registries' = [registries EXCEPT ![u] = U!After(@, msg)]
  /\ UNCHANGED <<managerVars, contracts, chainVars>>

RoundFallsDue(a) ==
  /\ IsGame(a)
  /\ contracts' = [contracts EXCEPT ![a] = G!FallsDue(@)]
  /\ UNCHANGED <<managerVars, registries, chainVars>>

PricesChange ==
  /\ stale' \in SUBSET DOMAIN contracts
  /\ UNCHANGED <<managerVars, contracts, registries, height>>

NewBlock ==
  /\ height < MaxHeight
  /\ height' = height + 1
  /\ UNCHANGED <<managerVars, contracts, registries, stale>>

----------------------------------------------------------------------------
OwnerSends(sender) ==
  \/ CreateGame(sender)
  \/ \E wallets \in WalletLists, all \in BOOLEAN : ModifyDevWallets(sender, wallets, all)
  \/ \E code \in Codes : UpdateCodeIds(sender, code)
  \/ \E address \in UsersContracts \cup Strangers, update, add \in BOOLEAN :
       UpdateUsersContract(sender, address, update, add)
  \/ HaltAllGames(sender)
  \/ ResumeAllGames(sender)
  \/ \E address \in Addresses, users \in BOOLEAN :
       \/ ManuallyAddGame(sender, address, users)
       \/ ManuallyRemoveGame(sender, address, users)

ChangeOwnership(sender) ==
  \/ \E account \in People : TransferOwnership(sender, account)
  \/ AcceptOwnership(sender)
  \/ RenounceOwnership(sender)

Environment ==
  \/ \E sender \in People :
       \/ \E a \in Addresses, msg \in DirectMessages : SendToGame(sender, a, msg)
       \/ \E sent \in UsersMessages : SendToUsers(sender, sent[1], sent[2])
  \/ \E a \in Addresses : RoundFallsDue(a)
  \/ PricesChange
  \/ NewBlock

Next ==
  \/ Sudo
  \/ \E sender \in People : OwnerSends(sender) \/ ChangeOwnership(sender)
  \/ Environment

Spec == Init /\ [][Next]_vars

----------------------------------------------------------------------------
(* Properties *)

(* The manager's storage, the games and the users contracts have their     *)
(* declared types; every contract has an administrator.                    *)
TypeOK ==
  /\ owner \in People \cup {Nobody} /\ pendingOwner \in People \cup {Nobody}
  /\ config \in ConfigType
  /\ games \subseteq Addresses
  /\ DOMAIN contracts \subseteq Created \cup OutsideGames
  /\ \A a \in DOMAIN contracts : contracts[a] \in G!GameType /\ contracts[a].admins # {}
  /\ registries \in [UsersContracts -> U!RegistryType]
  /\ \A u \in UsersContracts : registries[u].admins # {}
  /\ stale \subseteq DOMAIN contracts
  /\ height \in 0..MaxHeight

(* The owner can create another game in every block in which no game of    *)
(* this code was made yet, whatever was listed, removed or changed before, *)
(* as long as the code is a game's and the manager administers the users   *)
(* contract it works with: the wallets it stores are always good, and a    *)
(* creation that failed leaves nothing in the way.                         *)
OwnerCanCreate ==
  /\ owner # Nobody
  /\ config.games_code_id \in GameCodes
  /\ <<config.games_code_id, height>> \notin DOMAIN contracts
  /\ config.users_contract \in UsersContracts
  /\ Manager \in registries[config.users_contract].admins
  => ENABLED CreateGame(owner)

Commands(a) == IsGame(a) /\ Manager \in contracts[a].admins

(* The emergency stop works for whoever owns the manager, whether games    *)
(* are running, halted or due: nothing the manager made can block it, only *)
(* an address added by hand that is not a game it commands.  (Where no     *)
(* administrator of a game dismisses the manager.)                         *)
EmergencyHalt ==
  /\ owner # Nobody
  /\ games \cap Created \subseteq DOMAIN contracts
  /\ \A a \in games \ Created : Commands(a)
  => ENABLED HaltAllGames(owner)

(* A game can take bets and pay prizes only while the users contract it    *)
(* works with lists it.                                                    *)
Wired(a) ==
  /\ IsGame(a)
  /\ contracts[a].users_contract \in UsersContracts
  /\ a \in registries[contracts[a].users_contract].gameContracts

(* A game is created wired, and nothing the manager sends cuts a game it   *)
(* lists off: not replacing the users contract, nor taking other games out *)
(* of it.  (Where the administrators send neither UpdateConfig to a game   *)
(* nor RemoveGame to a users contract.)                                    *)
GamesStayWired ==
  [][\A a \in games' :
       \/ Wired(a)
       \/ a \in DOMAIN contracts' \ DOMAIN contracts
       => Wired(a)']_vars

----------------------------------------------------------------------------
(* Liveness.  The chain calls sudo for ever: whenever it keeps coming back *)
(* to succeed, it succeeds.  Nothing is assumed of anybody else.           *)
FairSpec == Spec /\ SF_vars(Sudo)

Pending(a) == a \in games /\ IsGame(a) /\ contracts[a].due

(* What keeps the scheduler from closing the rounds of every listed game:  *)
(* a listed address that is no game, one that is halted, or one that is    *)
(* due while the oracle has no fresh price for it.                         *)
Obstructed ==
  \E a \in games : \/ ~IsGame(a)
                   \/ contracts[a].isHalted
                   \/ contracts[a].due /\ a \in stale

(* A listed game that is due gets its rounds closed, or is taken off the   *)
(* list, unless from some time on there is always one such obstacle.       *)
DueGamesClose == \A a \in Addresses : (Pending(a) ~> ~Pending(a)) \/ <>[]Obstructed

----------------------------------------------------------------------------
(* Statements of the documentation that the code does not keep             *)

(* UpdateUsersContract "allows updating the users contract, which also     *)
(* provides an option to update the users contract of all the games": it   *)
(* is possible while the manager commands every listed address.            *)
UsersContractUpdatable ==
  /\ owner # Nobody
  /\ \A a \in games : Commands(a)
  => ENABLED UpdateUsersContract(owner, config.users_contract, TRUE, FALSE)

============================================================================
