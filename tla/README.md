# Velo games: verification project

TLA+ specifications of the contracts of this repository, TLC configurations
that check them on small instances, and proofs for TLAPS. Paths below are
relative to the repository root.

| File | What it is |
|------|------------|
| `Storage.tla`, `BetMath.tla` | the storage maps and the integer arithmetic all contracts share |
| `PredictionGame.tla` | the prediction game |
| `DaoBets.tla` | the DAO's bets |
| `Users.tla` | the users contract |
| `Manager.tla` | the manager, composed with the contracts it drives |
| `Escrow.tla` | the abstract specification of a pot, which both games implement |
| `GameInterface.tla`, `UsersInterface.tla` | a game and a users contract as the manager sees them, which `PredictionGame` and `Users` implement |
| `MC*.tla`, `*.cfg` | constants and runs for TLC |
| `PredictionGameProofs.tla`, `PredictionMoneyProofs.tla` | theorems about the prediction game: its rounds; its pools, coins and escrow |
| `DaoBetsProofs.tla`, `DaoMoneyProofs.tla` | theorems about the DAO's bets: the books; coins and escrow |
| `EscrowProofs.tla` | theorems about the escrow |
| `UsersProofs.tla`, `ManagerProofs.tla` | theorems about the users contract and the manager |
| `SumTheorems.tla` | theorems about sums over finite sets, which the proofs about both games use |
| `PROJECT.json` | the definition-to-source map, runs, mutants, hazards, findings |

## 1. The system

Four CosmWasm contracts on one chain. A message runs to its end, together
with every message it emits, in one transaction: either all of it happens or
nothing. There is no concurrency inside a message. What is hard is the order in
which messages of different senders arrive (a block may order them in any way),
time passing between them, storage that one handler leaves for another to find
much later, integer rounding spread over several claims, and the failure of a
called contract, which undoes the caller.

### prediction-game (`contracts/games/prediction-game`)

*State.* Configuration, halt flag, administrators; the id of the next round,
the round that takes bets (`NEXT_ROUND`), the live one (`LIVE_ROUND`), finished
ones (`ROUNDS`); bets and claims by round and player; amounts spent; price
tickers by denom and the rotation of denoms (`ROUND_DENOMS`).

*Operations.* `BetBull`/`BetBear`, `CloseRound`, `CollectWinnings` (all rounds),
`CollectionWinningRound` (one), `UpdateConfig`, `Halt`/`Resume`,
`AddAdmin`/`RemoveAdmin`, `ModifyDevWallet`, `AddTicker`, `ModifyBetArray`.

*Hard.* `CloseRound` moves three rounds at once, each step testing what the
one before stored. Bets for a round race the `CloseRound` that asks for its
open price. Two kinds of claim remove and pay the same bets. Shares are rounded
down one claim at a time. Claims depend on the users contract and on the bank.

*Correct when* rounds never get out of step; a stake is final once the price
that decides it can be known; each bet is paid at most once, exactly its
share; claims announced by the queries are what is paid; the contract never
owes more than it holds; due rounds settle and winners are paid.

### dao-bets-game (`contracts/games/dao-bets-game`)

*State.* Configuration, owner (cw_ownable), next id, unfinished and finished
bets with the amount on each option, stakes, claims, amounts spent.

*Operations.* `BetOn`, `CreateBet`, `ModifyBet` (deadline), `CompleteBet`,
`CancelBet`, `CollectWinnings`, `CollectionWinningBet`, `UpdateConfig`,
`UpdateOwnership` (transfer, accept, renounce).

*Hard.* The owner may move a deadline, complete or cancel a bet between two
stakes; the result is free text; a batch claim mixes refunds, prizes and lost
bets. *Correct when* a bet is in exactly one of its two maps, its amounts are
the sum of its stakes, a pot is paid out to its winners up to rounding, and
whoever is owed something can collect it.

### users (`contracts/others/users`)

*State.* Profiles by address and copies of them by username, their number,
registered games, administrators, events (ongoing, finished), participation.

*Operations.* `ModifyUser`, `ModifyVerification`, `ResetElo`,
`AddExperienceAndElo` (by games), `AddGame(s)`/`RemoveGame`, `AddEvent`,
`AddGameToEvent`, `UpdateConfig`, `AddAdmin`/`RemoveAdmin`.

*Hard.* A profile is stored twice and the copies grow stale: `ModifyUser`
writes the copy under the lower-case username, `AddExperienceAndElo` under the
username as typed, `ResetElo` none, and `ModifyVerification` writes a copy back
over the profile. Events are closed by the first award after their end.
*Correct when* nobody's profile is touched by another's message, the copies are
consistent in what is relied on, and participation is earned and never lost.

### manager (`contracts/managers/manager`)

*State.* Owner (cw_ownable), configuration (code ids, users contract, wallets),
the list of games.

*Operations.* `CreateGame` (instantiates a game at an address computed
beforehand and has the users contract list it), `ModifyDevWallets`,
`UpdateCodeIds`, `UpdateUsersContract`, `HaltAllGames`/`ResumeAllGames`,
`ManuallyAddGame`/`ManuallyRemoveGame`, `UpdateOwnership`, and `sudo`, through which
the chain's scheduler sends `CloseRound` to every game.

*Hard.* Each fan-out is one transaction: an address that refuses its message stops
the message for all. Which games exist, which are listed here, which the users
contract lists, and which users contract each game names are records in three
contracts, changed by separate options of separate messages, and by
administrators who do not go through the manager.

*Correct when* another game can always be created, the emergency halt works, a
listed game keeps a users contract that lists it, and due rounds of all listed games
are closed.

### Outside the repository

The bank (refuses to send zero coins), the oracle (a price, its decimals, its
age), block time, cw_ownable and cw-storage-plus are modelled from how the code
uses them and marked `external` in the map.

### How the parts interact

`games -> users`: every bet and every claim with commission calls
`AddExperienceAndElo`; it fails when the game is not registered or the experience
overflows a `u64`, and with it the bet or claim. `manager -> games, users`: see
above. `games -> oracle`: queries only. `games -> bank`: sends attached to claims.

## 2. How the code is represented

* One action per message; its guard is the conjunction of the handler's checks,
  arithmetic that must not abort (`overflow-checks = true`), and the conditions
  under which the messages it emits succeed. A message that fails is an action
  that is not enabled.
* A `Map` is a function whose domain is the set of stored keys (`Storage.tla`);
  `may_load` is a test of membership. Definitions keep the names of the source
  (`CONFIG` is `config`, `execute_close_round` is `CloseRound`).
* A fan-out of the manager is one step, enabled when every addressee accepts. The
  games and users contracts it addresses are records with the fields the manager and
  the administrators can change or depend on, and their messages are records too
  (`GameInterface`, `UsersInterface`); section 4 says why this is the same game.
* Encoding matters once: `query_wasm_smart` encodes its argument, and
  `update_users_contract` hands it a query that is already encoded. `Encode` counts.
* The users contract appears in the games as `registered` and `xp`; the games in
  `Users.tla` as callers of `AddExperienceAndElo`. `PredictionGame.Award` and
  `Users.AddExperienceAndElo` translate the same lines.
* The oracle answers anew in every `CloseRound`: any of `Answers` for each ticker,
  stale and overflowing ones included.
* Both claims of a game share `Pay`, as their code is the same up to the list of
  bets: it removes the bets, records the claims, checks and sends the cuts, awards
  experience and pays the player, in one step.
* Each contract writes the rules of its rewards down several times over, in claims and in
  queries. The queries are modelled from their own code (`WinningsShown`, `NoOpponent`;
  `NotWonByQuery`, `RewardShown`), so that the two can be compared; the copies among the
  queries that read alike share a definition, and so do those among the claims.
* Definitions ending in `_Fault` are single plausible bugs. Each property of a
  passing run is violated when one of them replaces its original (`mutants` in
  `PROJECT.json`), so the properties depend on the code they are about.

Left out of the models: fields nothing reads (display names, topics, the
times of finished rounds, bid times), response attributes, pagination, and in
`Manager` the parameters of a game that the manager only passes on. They are taken to be
well-formed: a game also refuses an empty list of tickers (`prediction-game/src/contract.rs:80`).

## 3. The runs

| Run | Question | States |
|-----|----------|-------:|
| `prediction_core` | are the books consistent, stakes frozen, claims what the queries announce; is it an escrow? | 131 k |
| `prediction_payout` | do shares, fee and cuts add up while the wallets change, is exactly what is owed kept, can winners claim? | 716 k |
| `prediction_liveness` | do due rounds settle and winners get paid under halts, two denoms and bad oracle answers; is it the game the manager takes it for? | 82 k |
| `prediction_dust` | violated: every prize can be claimed | |
| `dao_claims` | are bets, stakes, verdicts and claims consistent; is what is announced collectable and what is kept owed? | 339 k |
| `dao_handover` | is renouncing final; is a pot an escrow; are winners paid? | 67 k |
| `dao_cancel` | violated: a cancelled bet is refunded in full | |
| `users_core` | are profiles isolated, the copies consistent, is participation earned and kept; is it the registry the manager takes it for? | 560 k |
| `users_names` | violated: usernames are unique | |
| `users_experience` | violated: experience never decreases | |
| `manager_core` | do creation and the emergency halt stay possible, games wired to their users contract, and due rounds get closed? | 470 k |
| `manager_users` | violated: the users contract of all the games can be updated | |

What some properties say beyond their names:

* `Solvent` is two-sided. A game holds what it owes, and no more than that plus less
  than a coin for each rounding: no fee, cut or refund is left behind. For the DAO it
  also names the two things that do stay: pots nobody won, and cuts too small to send.
* `ClaimPaysWhatQueriesShow` (prediction game) compares every claim with the rewards and
  refunds the queries announced before it. `AnnouncedRewardsStand` (DAO) follows an announced
  reward through any sequence of messages: it stands in its amount until it is recorded as
  claimed in that amount and paid, only verdicts announce more, the batch claim leaves nothing
  behind, and nobody is paid anything else.
* `BetsFrozenOnceLive` and `StakesFrozenWhenDue` compare amounts: a stake that is stored only
  grows, and only while its round or bet takes stakes.
* `WinnersCanClaim` and `EmergencyHalt`, `OwnerCanCreate` say that a message is
  *enabled*; they fail when any of the messages it emits would be refused.
* `GamesStayWired` is an action property: a listed game whose users contract lists it
  is not cut off by any message of the manager. It is checked where administrators
  send neither `UpdateConfig` to a game nor `RemoveGame` to a users contract.
* `LowerCaseCopiesFresh` is the other side of `users_experience`: only capitals in a
  username let its copy grow stale.

### Bounds, and why they are enough

* `MaxRound = 4`: four rounds, so two are finished while one is live and one takes
  bets; the batch claim then has several bets to pay and two to leave. Three rounds
  in the runs about one settled round.
* `MaxTime`: enough ticks for the last round the bound allows to be settled, with
  rounds of one or two seconds.
* `Manager`: one game code and two blocks, so up to two games, one of them listed,
  halted or due while the other is not, or two creations in one block; two users
  contracts, one of which may dismiss the manager; administrators that send `Halt` and
  `Resume` directly; a code id that is not a game's. `manager_users` has a listed game
  from elsewhere and a listed address that is no game instead.
* `Users`: two accounts and two administrators, each pair symmetric; users type one name
  with a capital and one without, and the lower-case form of the first is a third key.
* Three players where shares are rounded: winners who staked 10 and 20 share a pool
  of 40 as 13 and 26, and a coin is left. Two players in the other runs
  of the prediction game.
* Stakes of 10 and 20 with a 10 % fee: fees are whole coins, and a fee of one coin
  split in half is the smallest cut, which rounds to zero.
* `RatioOne = 2` stands for `Decimal::one()` (10^18): a ratio of one half is the
  coarsest one that rounds. `U64 = 32` (or 2 and 3 in `Users`) stands for 2^64: both
  the truncating cast and the overflow happen. `I128Max = 200` and prices of one and
  two decimals make the oracle's price overflow, truncate and be rescaled.
* Symmetry on players, users, administrators and the two options of a bet is used in runs of safety and action
  properties only.
* `prediction_liveness` cannot settle the last ids its bound allows, because settling
  creates further rounds; fairness and `DueRoundsSettle` are stated for `SettledIds`,
  the others.
* In `prediction_liveness` every usable answer is the price 1 and all use one ticker: a
  round with stakes on both sides ends where it began, and the bets that are paid are refunds and
  ties. That real winners are paid too is what the theorem `WinnersGetPaid` adds. Nor
  does the run show whether a stale price of one denom holds up the round of another.
* Deadlock is checked in every passing run but `dao_handover`: a DAO contract
  without an owner stops when its players have spent and claimed everything.

### Fairness

`prediction_liveness` assumes that blocks keep coming (weak fairness of `Tick`),
that the service the documentation describes (`README.md:55` of the game) keeps
sending `CloseRound` and is infinitely often answered with usable prices (strong
fairness of `Close`: a halt or a stale answer disables it for a while), and that a
player with something to claim keeps asking (strong fairness, since the
registry may go and come back). `dao_handover` assumes only the last.
`manager_core` assumes that the chain calls `sudo` for ever (strong fairness of
`Sudo`, since one obstacle or another disables it for a while) and nothing else:
`DueGamesClose` allows an obstacle at all times from some point on, that is a listed
address that is no game, a halted game, or one that is due without a fresh price. Nothing is
assumed of administrators and owners: rounds need not be resumed, so
`DueRoundsSettle` allows a game that stays halted for ever, and `WinnersArePaid` a
registry that drops the game for ever.

## 4. Refinement

### The escrow

`Escrow.tla` states what both games promise: a pot takes deposits while open, may
be locked, is settled once with dues that do not exceed what it holds, and after
that only pays one player's whole dues at a time. `ImplementsEscrow` maps a round
(a bet) to a pot: its stage from where it is stored, `held` from its pool less what
was claimed, `owed` from the stored bets and, once finished, from the payout the
claim would compute. TLC checks the abstract specification as a property, and
the theorems `EscrowRefinement` of both games prove it. Any
second payment, forgotten removal, payment from an unsettled pot, change of a
settled due, or dues above the pool is a step the escrow does not allow.

### The interfaces

`Manager.tla` composes the manager with contracts it knows only by interface.
`ImplementsGame` (in `prediction_liveness`) maps the state of `PredictionGame` to a
record of `GameInterface` (administrators, halt flag, wallets, whether `CloseRound`
has something to do) and requires every step to leave it alone or be one of the
interface's: a message accepted from that sender under the conditions the manager
relies on, or a round that falls due. It adds that one `CloseRound`, however late,
leaves nothing due, which is what `sudo` needs to keep up; for this the length of a
round is at least one second. `ImplementsRegistry` (in `users_core`) does the same for
the administrators and listed games of the users contract. So what `manager_core`
assumes of the contracts it drives is what the runs of those contracts show, and the
theorems `GameRefinement` and `RegistryRefinement` prove.

## 5. What is proved

Proofs are for every value of the constants that the assumptions of the modules allow:
any number of players, rounds, bets, options, games and users, any arithmetic
parameters. The assumptions give the constants their types and say what the chain
guarantees: a message carries no zero coins, there are finitely many players, the rotation
`instantiate` is given is not empty, lower case is idempotent.
TLC evaluates them on every run.

### The prediction game (`PredictionGameProofs`, `PredictionMoneyProofs`)

| Theorem | States | Under |
|---------|--------|-------|
| `TypeCorrect` | `[]TypeOK` | |
| `RoundsKeepOrder` | `[]RoundsInOrder`: ids without a gap; bidding, live and finished rounds in step | |
| `StakesAreCovered` | `[]BetsWithinPools`: a stored bet is covered by its pool, so no share divides by zero | |
| `NoDoubleClaim` | `[]ClaimedOnce` | |
| `DenomsStayPriced` | `[]DenomsPriced` | |
| `BetsFreeze` | `BetsFrozenOnceLive`, an action property | |
| `PositionStaysCurrent` | `[]PositionIsCurrent`: from the first round on, the position query shows the stakes on the stored bidding and live rounds | |
| `GameStepsAreSeen` | every step is one the interface of a game allows: `ImplementsGame` but for what it says of one `CloseRound` being enough | |
| `GameRefinement` | `ImplementsGame` | `RoundsLast` |
| `CloseStaysPossible` | `[]ClosesWhenPriced`: only an unusable price can refuse `CloseRound` | |
| `DueRoundsKept` | `[][DueStep]_vars`: a due round stays due until a `CloseRound` settles it | |
| `DueRoundsAreSettled` | `FairSpec => DueRoundsSettle` | a usable price exists, `CloseIsEnabled` |
| `PoolsAlwaysMatch` | `[]PoolsMatchBets` | |
| `RoundsPayOut` | `[]RoundPaysOutItsPool` | there is a player |
| `Covered` | `[](Liabilities <= vault)`: one side of `Solvent`, wallets or none | `OneToken`, `WalletsChecked` |
| `ClaimsStayPossible` | `[]ClaimsAreTaken`: `WinnersCanClaim` by the guards of `Pay` (`CanPay`) | the same |
| `WinnersCanAlwaysClaim` | `[]WinnersCanClaim` | the same, and `GuardsEnableClaims` |
| `Solvency` | `[]Solvent` | the same, and `WalletsListed` |
| `ClaimsMatchQueries` | `ClaimPaysWhatQueriesShow`, an action property | |
| `WinnersGetStakesBack` | `[]StakesComeBack`: a settled bet is lost, or worth at least its stake before the fee | |
| `PrizesAreKept` | `[][PrizesKept]_vars`: what a settled bet is owed changes only by being claimed whole | |
| `RefundsArePaid` | under `FairSpec`, the refund of a one-sided round is paid, halted or not, listed or not | `OneToken`, `WalletsChecked`, `ClaimsAreEnabled` |
| `WinnersGetPaid` | `FairSpec => WinnersArePaid` | the same, and `PrizesPayable` |
| `EscrowRefinement` | `ImplementsEscrow` | |
| `RoundsNeverShort` | `[]RoundEscrow!NeverShort` | |

*Rounds.* The inductive invariant `IInv` is the conjunction of the first five
properties; none of them is inductive alone. `CloseRound` files the live
round and needs `RoundsInOrder` to know it overwrites no finished one, and that
the live round closes exactly when the bidding one opens, so there is always a live
round afterwards. A bet's pool can only be found from its id by `RoundsInOrder`. A
claim's payout is a natural number only if the pool it divides by is positive,
which is `BetsWithinPools`; and what was claimed is not bet again because it is
finished (`ClaimedOnce`) and the bidding round is not. `NextInv` has one step per
action; the claims share `PayInv`, the administrators' messages `AdministerInv`.

*Coins.* `Books` (finitely many stored bets, of bounded ids) makes sums exist and
`PoolsMatch` says what the pools are. `DueOf` is what each stored bet may still have to
be paid: the stake until its round is settled, the payout after. Every step is one of
four things to the books: nothing, a bet that brings in what it adds, a `CloseRound`,
or a claim that takes off at least what it pays out. `Settlement` is the lemma all rest on: when
a round is settled its dues come to at most the pool (they were the pool before), and to less
than a coin a player below it. From it follow `RoundsPaid` (claimed and due, round by
round, are the pool but for roundings), `MoneyInv` (the vault covers all dues) and
`NotStuck` (and holds no more than the roundings besides).

*Prizes and liveness.* `WinnersGetStakesBack` is about integer division: a share of a pool
in proportion to a part of it is no less than what it is the share of (`ShareAtLeast`).
`PrizesAreKept` is the stability that liveness needs: nobody can spoil a prize
while its owner keeps asking. With `ClaimsStayPossible` (the guards hold) it gives
`RefundsArePaid` and `WinnersGetPaid`, and `DueRoundsKept` with `CloseStaysPossible` gives
`DueRoundsAreSettled`. The fairness is that of `FairSpec`; `KeepsAsking(p, r)` is its
conjunct about one player and one round.

### The DAO's bets (`DaoBetsProofs`, `DaoMoneyProofs`)

| Theorem | States | Under |
|---------|--------|-------|
| `TypesHold` | `[]TypeOK` | |
| `BetsArePartitioned` | `[]BetsPartition` | |
| `StakesAreCovered` | `[]StakesWithinPots` | |
| `ClaimsAreOnce` | `[]ClaimedOnce` | |
| `PotsAlwaysMatch` | `[]PotsMatchBets` | |
| `StakesFrozen` | `StakesFrozenWhenDue`, an action property | |
| `RenouncedIsForGood` | `RenouncedForGood`, an action property | |
| `Covered` | `[](Liabilities <= vault)` | `OneToken` |
| `ClaimsStayPossible` | `[]ClaimsAreTaken`: `WinnersCanClaim` and `PendingIsCollectable` by the guards of `Pay` (`CanPay`) | `OneToken` |
| `WinnersCanAlwaysClaim` | `[]WinnersCanClaim`, with `PendingIsCollectable` | `OneToken`, `GuardsEnableClaims` |
| `Solvency` | `[]Solvent` | `OneToken`, `WalletsListed` |
| `AnnouncedRewardsArePaid` | `AnnouncedRewardsStand`, an action property | |
| `WinnersGetStakesBack` | `[]StakesComeBack`: a stake that won or is refunded is worth at least itself before the fee | |
| `PrizesAreKept` | `[][PrizesKept]_vars` | |
| `RefundsArePaid` | under `FairSpec`, a stake on a cancelled bet is refunded, listed or not | `OneToken`, `ClaimsAreEnabled` |
| `WinnersGetPaid` | `FairSpec => WinnersArePaid` | the same, and `PrizesPayable` |
| `EscrowRefinement` | `ImplementsEscrow` | |
| `BetsNeverShort` | `[]BetEscrow!NeverShort` | |

`IInv` adds two facts no run states: that the books are finite (`BooksFinite`), and that
a contract without an owner has no pending one (`NoOwnerNoTransfer`), without which a
transfer started before the renouncement could be accepted after it. The argument about
coins is that of the prediction game; what differs is that a settlement may leave a pot
to nobody and that empty cuts are not sent, which `Solvent` allows for by name.

*What is announced.* `ShownIsOwed` (in both games) shows that the rules of the queries are
those of the claims. With it, `AnnouncedRewardsArePaid` follows from `PrizesKept` (nobody else's
step changes what a stake won), from `StakesFrozenStep` (no stake joins a finished bet), and
from the amount a claim pays: `ChargeBounds` is about the fee, which the batch claim computes on
refunds as well, and `PurseTyped` is an invariant of its own that makes payments numbers.

### The escrow (`EscrowProofs`)

`EscrowNeverShort`: an escrow with finitely many players never owes more from a pot
than the pot holds. `DuesAreKept`: a settled pot stays settled, a due is paid whole or left
alone, and what the pot holds beyond its dues is never touched. `RoundsNeverShort`
and `BetsNeverShort` carry the first over to the games' rounds and bets through the refinement
mappings. The two refinements are proved with the same module, instantiated:
a bet is a deposit, `CloseRound` and the DAO's verdicts are advances because of `Settlement`,
and a claim pays whole dues, of settled pots only, and of one player. The refinement
mapping is first rewritten by what the invariants know (`PotsAre`, `BetPotsAre`), so that
each step is compared with the escrow's pot by pot.

### users (`UsersProofs`)

`TypesHold`, `DirectoryStaysConsistent`, `LowerCaseCopiesStayFresh`, `EventsAreNeverLost`,
`ParticipationIsEarned`, `ProfilesAreIsolated` and `RegistryRefinement` state
`TypeOK`, `DirectoryConsistent`, `LowerCaseCopiesFresh`, `EventsNeverLost`,
`ParticipationEarned`, `ProfilesIsolated` and `ImplementsRegistry`. None has a hypothesis.

`DirectoryConsistent` is not inductive. `ModifyVerification` may write back a copy whose
owner has chosen another username since, and that profile must still find its
lower-case username taken: so `IInv` adds `KeysClosed`, that a username with a copy has
one in lower case too, and that there are finitely many profiles, for their count. The three
handlers that save a profile are reduced to one step (`SavesProfile`).

Two theorems say what the refuted statements of `users_names` and
`users_experience` leave true. `UsernamesStayUnique`: `UsernamesUnique` holds as long as nobody
whose profile a game made chooses a taken username (`TakesUsedName`), so that is the only way
to one. Its invariant `NamesOwned` speaks of old copies too: a verification may bring back
a name its owner has given up, and nobody else may have it by then.
`ExperienceOnlyLostToOldCopies`: every step that lowers the experience of a profile is the
verification of a username it has given up, or of one with capitals; by
`LowerCaseCopiesFresh`, any other copy is current.

### manager (`ManagerProofs`)

| Theorem | States | Under |
|---------|--------|-------|
| `TypesHold` | `[]TypeOK` | |
| `WiringHolds` | `GamesStayWired`, an action property | `NoRewiring` |
| `HaltStaysPossible` | `[]HaltIsTaken`: `EmergencyHalt` by the guards of `HaltAllGames` | `ManagerStays` |
| `OwnerCanHalt` | `[]EmergencyHalt` | `ManagerStays`, `HaltIsEnabled` |
| `CreationStaysPossible` | `[]CreationIsTaken`: `OwnerCanCreate` by the guards of `CreateGame` (`CanCreate`) | |
| `CreationIsNeverBlocked` | `[]OwnerCanCreate` | `CreationIsEnabled` |
| `DueGamesAreClosed` | `FairSpec => DueGamesClose` | `SudoIsEnabled` |

A fan-out delivers one message to many contracts, so every step is first reduced to what
it does to one game (`GamesStep`) and one users contract (`RegistriesStep`). `IInv`
adds to `TypeOK` that the wallets stored always sum to one, which `CreateGame` needs.
`CommandsItsGames` (the manager stays an administrator of every game it made) is
the invariant behind the emergency halt. `SudoCloses` shows that the obstacles
`DueGamesClose` names are the only ones: without them every listed game accepts
`CloseRound`, and a due one is due no more afterwards.

### Sums (`SumTheorems`)

Pools, pots and dues are sums over finite sets, by the fold of the community modules: a
recursive function over the elements in an order `CHOOSE` picks. Its induction needs no
operator parameter when the property is given as a family of sets (`SetInduction`).
`IterUnique` shows that the fold's definition has one solution, and `SumIsCount` that a sum
is the cardinality of a set of tallies `<<element, i>>`, which depends on no
order. Splitting, monotonicity and the change of one summand (`SumUpdate`) follow from
theorems about cardinality; `SumShares` and
`ShareAtLeast` are about shares that are rounded down.

### The hypotheses

Each is a statement about constants, or about what people outside the contract do, that
the code does not ensure:

* `OneToken`: no `UpdateConfig` changes `token_denom`. Claims are paid in the current
  token, so with two tokens solvency is false (section 6).
* `WalletsChecked`: the prediction game's `UpdateConfig` stores ratios that sum to
  one. `instantiate` and `ModifyDevWallet` check it, `UpdateConfig` does not. The DAO
  checks it everywhere, and needs no such hypothesis.
* `WalletsListed`: nor is the list of wallets empty, and there is a longest list.
  Otherwise the fee is charged and stays, and `Solvent` forbids coins that stay;
  `Covered` does without.
* `RoundsLast`: no configuration makes rounds of no length. With one that does,
  `CloseRound` opens a round that is due again at once and the chain's calls no longer
  catch up.
* `NoRewiring`, `ManagerStays`: the administrators of a game or of a users contract, to
  whom the contracts listen directly, do not undo the manager's wiring.
* In `ClaimsStayPossible`: the users contract takes the experience, the gaming
  fee is below one, and for the prediction game no cut of the fee rounds down to zero (the
  finding `prediction_dust`). Refunds need none of the three.
* `PrizesPayable` asks the same for every bet at all times at which the users contract lists
  the game. Where it fails a prize may have to wait for an administrator, of whom nothing is
  assumed.
* In `DueRoundsAreSettled`: some answer of the oracle is fresh and scales to a price at all.
* `CloseIsEnabled`, `ClaimsAreEnabled`, `GuardsEnableClaims`, `SudoIsEnabled`,
  `HaltIsEnabled`, `CreationIsEnabled`: an action whose guards hold can be taken, in the
  form guards `=> ENABLED` action. The provers do not reason about `ENABLED`; each is true
  because the action is its guards and one assignment to every variable. TLC found
  each of them to hold in every state of the instance of the run that checks the
  property in question. All that could fail in the code is in the guards, and is proved. The
  guards that `Pay`, `CloseRound` and `CreateGame` share with these theorems are
  definitions of the model of their own (`CanPay`, `CanClose`, `CanCreate`), used by the
  actions themselves, so that the two cannot drift apart.

What the proofs asked of the model: in the mapping of a pot, cases that overlap on
states that are not reached, where TLC takes the first and TLA+ leaves the choice
open, are written as conditions that do not; and the condition on the gaming fee, which
`WinnersCanClaim` of the prediction game had left to the configurations of its run.

### Only model-checked

* The hypotheses about `ENABLED` above: that the guards are all there is to an action. Where
  a theorem on liveness, or on what can always be done, has none of the other
  hypotheses, this is what is left to TLC of it.
* That weak fairness of `Tick` is enough for the clock: the theorems start from a round
  that is due, and need no more of it.
* `ImplementsGame` for rounds of no length, which is false, and the five documented
  statements that are refuted.

## 6. Where code and documentation disagree

Runs that TLC refutes:

* `prediction_dust`: every wallet is sent its cut of the fee even if it rounds to
  zero, which the bank refuses: a small prize cannot be claimed alone (a batch with
  others can). The DAO bets skip empty cuts.
* `dao_cancel`: the batch claim computes the fee from all winnings, refunds of
  cancelled bets included, if any of the bets was won. The claim of one bet does not.
* `users_names`: a player whose profile was made by a game, and so has no username,
  may choose one that is in use.
* `users_experience`: verifying a user whose username has capitals writes an old
  copy back, and the experience earned since is lost.
* `manager_users`: `UpdateUsersContract` with the option to update the games fails
  whenever a game is listed, because the query for their configuration is encoded
  twice (`manager/src/contract.rs:331`). The queries `GamesInfo` and
  `GamesInfoWithDuration` (`contract.rs:523` and `554`) are written the same way.
  With the query repaired in the model, `GamesStayWired` is violated: updating the
  games without the other option, to have the new users contract list them, cuts
  them off. The two belong together.

Seen while reading, and not stated as runs:

* A round that ends on its open price is paid back less the gaming fee
  (`prediction-game/src/contract.rs:199-228`). The README speaks of refunds without
  commission only for one-sided rounds.
* `UpdateConfig` of the prediction game stores wallets whose ratios do not sum to
  one (`contract.rs:653-663`), and both its and the DAO's change of
  `token_denom` applies to claims of stakes already made in the old token.
  `Solvent` is stated for runs without these changes.
* The DAO's result may be submitted before the close time and need not be one of
  the options (`dao-bets-game/src/contract.rs:523-544`); a pot nobody won stays in
  the contract.
* Before the first round `query_my_current_position` subtracts one from zero and aborts
  (`prediction-game/src/contract.rs:730`); `PositionIsCurrent` starts with the first round.
* An empty list of wallets is accepted by the prediction game; the fee is then charged
  and stays in the contract. `Solvent` is stated for lists that are not empty.
* `ManuallyRemoveGame` of the manager takes a game out of the users contract of the
  manager's configuration, which need not be the one the game names; the new users
  contract's address is not checked; and whoever owned the manager when a game was
  created stays an administrator of that game after handing the manager over.
* `start_timestamp` of an event is never read; adding a game to an event open to
  all closes it to the others (`users/src/contract.rs:396-419`).

## 7. Not modelled

* **Profile validation** (lengths, censorship, urls, socials): string checks
  without state. The username check is modelled (`NameAllowed`).
* **Migration**: checks and sets the cw2 version only.
* **Listing queries**: paginated reads of one map. (Those that announce rewards are
  modelled, without the limit; the paginated ones take their limit before they drop
  lost bets, so a page may be short or empty and not the last.)
* **Expiry of a pending ownership transfer**: cw_ownable refuses an acceptance
  after it, which only removes behaviours.
* Artifacts, schemas and scripts: build products.

## 8. Plan

Done: storage and arithmetic; the prediction game and the DAO's bets, with the escrow both
implement; users; the manager composed with games and users contracts by their
interfaces, which the detailed modules implement; every property of a passing run
proved, those with `ENABLED` and those of liveness from the guards, under the hypotheses of
section 5; and what the refuted statements about users leave true.

Next:

1. Weaker hypotheses where the truth is finer: solvency per token when configurations
   change the token while nothing is owed, and with wallets that are sometimes none.
2. The hazards of `PROJECT.json` no property covers yet: claims in a token other
   than the stake's, and a ticker replaced between the two prices of a round.
