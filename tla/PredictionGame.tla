--------------------------- MODULE PredictionGame ---------------------------
(***************************************************************************)
(* The prediction game: players bet on whether the price of a denom will   *)
(* rise (Bull) or fall (Bear) over the next round.  At any time one round  *)
(* takes bets (NEXT_ROUND), at most one is live (LIVE_ROUND), and every    *)
(* earlier one is finished (ROUNDS).  CloseRound, callable by anyone and   *)
(* called periodically by a service of the owner, moves all three at once. *)
(*                                                                         *)
(* A message that returns an error, or panics, changes nothing: it is an   *)
(* action that is not enabled.  The messages a handler emits (bank sends,  *)
(* the experience call to the users contract) run in the same transaction, *)
(* so their failure also undoes the handler, and the conditions under      *)
(* which they succeed are guards of the action.                            *)
(*                                                                         *)
(* Left out: bid_time, the times of a finished round, and events, which    *)
(* nothing reads; the addresses of the developers' wallets (only their     *)
(* ratios matter); pagination of the queries.                              *)
(*                                                                         *)
(* A definition whose name ends in _Fault is not part of the model: it is  *)
(* the definition below it with a plausible bug, kept to show that the     *)
(* properties tell the two apart.                                          *)
(***************************************************************************)
EXTENDS BetMath, Sequences, Storage

CONSTANTS
  Players,          \* accounts that bet and claim
  Accounts,         \* accounts that may be administrators
  InitAdmins,       \* the sender of instantiate and the extra_admins
  Tokens,           \* denoms of the bank a bet may be paid in
  Denoms, Tickers,  \* denoms whose price is predicted, tickers of the oracle
  DenomTickers,     \* denom_tickers of instantiate: <<denom, ticker>> pairs
  Answers,          \* what the oracle may answer: price, decimals, age
  MaxOldPriceTime,  \* MAX_OLD_PRICE_TIME
  Configs,          \* the configurations instantiate and UpdateConfig may get
  WalletLists,      \* the arguments of ModifyDevWallet
  BetArrays,        \* the arguments of ModifyBetArray
  Stakes,           \* amounts sent with a bet
  InitPurse,        \* tokens each player starts with
  HaltAllowed,      \* whether administrators halt and resume
  RegistryChanges,  \* whether the users contract drops and re-adds the game
  MaxRound,         \* bound: NEXT_ROUND_ID never exceeds it
  MaxTime,          \* bound: the clock stops there
  NoRound           \* the value of an absent LIVE_ROUND or NEXT_ROUND

Directions == {"Bull", "Bear"}
Nobody     == "everybody"      \* winner: None, "everybody" in the event
Prices     == {NormalizePrice(a) : a \in {b \in Answers : Normalizes(b)}}

Pools == [Directions -> Nat]
NextRounds ==
  [id : Nat, open_time : Nat, close_time : Nat, pool : Pools, denom : Denoms]
LiveRounds ==
  [id : Nat, open_time : Nat, close_time : Nat, pool : Pools, denom : Denoms,
   open_price : Prices]
FinishedRounds ==
  [pool : Pools, denom : Denoms, open_price : Prices, close_price : Prices,
   winner : Directions \cup {Nobody}]
BetInfos == [amount : Nat, direction : Directions]
ConfigType ==
  [next_round_seconds : Nat, minimum_bet : Nat, gaming_fee : Nat,
   token_denom : Tokens, exp_per_denom_bet : Nat, exp_per_denom_won : Nat,
   dev_wallet_list : Seq(Nat)]

ASSUME PredictionAssumption ==
  /\ IsFiniteSet(Players)
  /\ InitAdmins \subseteq Accounts /\ InitAdmins # {}
  /\ DenomTickers \in Seq(Denoms \X Tickers) /\ DenomTickers # <<>>
  /\ Answers \subseteq [price : Int, decimals : Nat, age : Nat]
  /\ Configs \subseteq ConfigType
  /\ WalletLists \subseteq Seq(Nat)
  /\ BetArrays \subseteq Seq(Denoms)
  /\ Stakes \subseteq Nat \ {0}
  /\ {MaxOldPriceTime, InitPurse, MaxRound, MaxTime} \subseteq Nat
  /\ {HaltAllowed, RegistryChanges} \subseteq BOOLEAN
  /\ NoRound \notin NextRounds /\ NoRound \notin LiveRounds

VARIABLES
  config,        \* CONFIG
  isHalted,      \* IS_HALTED
  admins,        \* ADMINS
  nextRoundId,   \* NEXT_ROUND_ID
  nextRound,     \* NEXT_ROUND
  liveRound,     \* LIVE_ROUND
  rounds,        \* ROUNDS: round id -> FinishedRound
  bets,          \* bet_info_storage: <<round id, player>> -> BetInfo
  claims,        \* claim_info_storage: <<round id, player>> -> claimed_amount
  totalsSpent,   \* TOTALS_SPENT: player -> amount
  tickers,       \* PRICE_TICKERS: denom -> ticker
  roundDenoms,   \* ROUND_DENOMS
  now,           \* block time
  vault,         \* the contract's bank balance, by token
  purse,         \* the players' bank balances
  registered,    \* the users contract lists this game
  xp             \* experience of each player in the users contract

bookVars  == <<nextRoundId, nextRound, liveRound, rounds, bets, claims>>
adminVars == <<config, isHalted, admins, tickers, roundDenoms>>
bankVars  == <<vault, purse>>
userVars  == <<registered, xp>>
vars == <<bookVars, adminVars, bankVars, userVars, totalsSpent, now>>

----------------------------------------------------------------------------
(* Instantiation *)

(* The ratio check of instantiate lets the empty list through; the one of  *)
(* ModifyDevWallet does not, and UpdateConfig makes none.                  *)
RatiosSumToOne_Fault(wallets) == TRUE        \* the check left out

RatiosSumToOne(wallets) == TotalRatio(wallets) = RatioOne

(* PRICE_TICKERS after instantiate: a later pair overwrites an earlier one *)
RegisteredDenoms == {DenomTickers[i][1] : i \in DOMAIN DenomTickers}

InitTickers ==
  {t \in [RegisteredDenoms -> Tickers] :
     \A d \in RegisteredDenoms : \E i \in DOMAIN DenomTickers :
       /\ DenomTickers[i] = <<d, t[d]>>
       /\ \A j \in DOMAIN DenomTickers : j > i => DenomTickers[j][1] # d}

Init ==
  /\ config \in Configs
  /\ config.dev_wallet_list # <<>> => RatiosSumToOne(config.dev_wallet_list)
  /\ isHalted = FALSE
  /\ admins = InitAdmins
  /\ nextRoundId = 0 /\ nextRound = NoRound /\ liveRound = NoRound
  /\ rounds = EmptyMap /\ bets = EmptyMap /\ claims = EmptyMap
  /\ totalsSpent = EmptyMap
  /\ tickers \in InitTickers
  /\ roundDenoms = [i \in DOMAIN DenomTickers |-> DenomTickers[i][1]]
  /\ now = 0
  /\ vault = [t \in Tokens |-> 0]
  /\ purse = [p \in Players |-> [t \in Tokens |-> InitPurse]]
  /\ registered = TRUE
  /\ xp = [p \in Players |-> 0]

----------------------------------------------------------------------------
(* The environment of the contract *)

(* The bank refuses to send zero coins: BankMsg::Send of coins(0, _) fails *)
(* and the transaction with it.                                            *)
BankSends(amount) == amount > 0

(* AddExperienceAndElo, as the users contract answers it: only a listed    *)
(* game may call it, and the u64 sum must not overflow.                    *)
CanAward(p, experience) ==
  /\ registered
  /\ FitsU64(experience)
  /\ FitsU64(xp[p] + experience)

Award(p, experience) == xp' = [xp EXCEPT ![p] = @ + experience]

(* Block time *)
Tick ==
  /\ now < MaxTime
  /\ now' = now + 1
  /\ UNCHANGED <<bookVars, adminVars, bankVars, userVars, totalsSpent>>

(* RemoveGame and AddGames of the users contract, by its administrators *)
ChangeRegistry ==
  /\ RegistryChanges
  /\ registered' = ~registered
  /\ UNCHANGED <<bookVars, adminVars, bankVars, xp, totalsSpent, now>>

----------------------------------------------------------------------------
(* Betting *)

BettingOpen_Fault(round) == TRUE       \* the deadline is not checked

BettingOpen(round) == now <= round.open_time

SameDirection(key, dir) ==
  key \in DOMAIN bets => bets[key].direction = dir

StakeWith_Fault(key, gross) == gross   \* a second bet replaces the first

StakeWith(key, gross) ==
  IF key \in DOMAIN bets THEN bets[key].amount + gross ELSE gross

AddToPool_Fault(round, dir, gross) ==  \* every bet goes to the bulls
  [round EXCEPT !.pool["Bull"] = @ + gross]

AddToPool(round, dir, gross) == [round EXCEPT !.pool[dir] = @ + gross]

(* BetBull and BetBear; round_id is the round the player means, which may  *)
(* have stopped taking bets by the time the message is executed.           *)
Bet(p, round_id, dir, gross, token) ==
  LET key        == <<round_id, p>>
      experience == Experience(gross, config.exp_per_denom_bet)
  IN  /\ ~isHalted
      /\ nextRound # NoRound
      /\ round_id = nextRound.id
      /\ gross <= purse[p][token]
      /\ token = config.token_denom
      /\ gross >= config.minimum_bet
      /\ BettingOpen(nextRound)
      /\ SameDirection(key, dir)
      /\ CanAward(p, experience)
      /\ bets' = Save(bets, key, [amount |-> StakeWith(key, gross),
                                  direction |-> dir])
      /\ nextRound' = AddToPool(nextRound, dir, gross)
      /\ totalsSpent' = Save(totalsSpent, p, LoadOr(totalsSpent, p, 0) + gross)
      /\ vault' = [vault EXCEPT ![token] = @ + gross]
      /\ purse' = [purse EXCEPT ![p][token] = @ - gross]
      /\ Award(p, experience)
      /\ UNCHANGED <<nextRoundId, liveRound, rounds, claims, adminVars,
                     registered, now>>

----------------------------------------------------------------------------
(* Closing and opening rounds *)

(* get_current_price succeeds: the denom has a ticker, the oracle's answer *)
(* is fresh, and it fits once normalised.                                  *)
PriceKnown(oracle, denom) ==
  /\ denom \in DOMAIN tickers
  /\ oracle[tickers[denom]].age <= MaxOldPriceTime
  /\ Normalizes(oracle[tickers[denom]])

CurrentPrice(oracle, denom) == NormalizePrice(oracle[tickers[denom]])

(* compute_round_close *)
Winner(open_price, close_price) ==
  CASE close_price > open_price -> "Bull"
    [] close_price < open_price -> "Bear"
    [] OTHER                    -> Nobody

RoundClose(round, close_price) ==
  [pool |-> round.pool, denom |-> round.denom,
   open_price |-> round.open_price, close_price |-> close_price,
   winner |-> Winner(round.open_price, close_price)]

(* compute_round_open: the round's own times are recomputed from the block *)
(* that opens it.                                                          *)
RoundOpen(round, open_price) ==
  [id |-> round.id, open_time |-> now,
   close_time |-> now + config.next_round_seconds,
   pool |-> round.pool, denom |-> round.denom, open_price |-> open_price]

(* new_bid_round; live is LIVE_ROUND as it stands when the closure runs *)
NewBidRound(live) ==
  LET opens == IF live # NoRound THEN live.close_time
                                 ELSE now + config.next_round_seconds
  IN  [id |-> nextRoundId, open_time |-> opens,
       close_time |-> opens + config.next_round_seconds,
       pool |-> [d \in Directions |-> 0],
       denom |-> roundDenoms[(nextRoundId % Len(roundDenoms)) + 1]]

SettlesNow_Fault ==        \* a round nobody bet on is left live
  /\ liveRound # NoRound /\ now >= liveRound.close_time
  /\ \E d \in Directions : liveRound.pool[d] > 0

SettlesNow == liveRound # NoRound /\ now >= liveRound.close_time

OpensNow_Fault ==          \* tests the live round read before it was removed
  nextRound # NoRound /\ liveRound = NoRound /\ now >= nextRound.open_time

(* No second live round: bidding closes only when none is left standing *)
OpensNow ==
  /\ nextRound # NoRound
  /\ liveRound = NoRound \/ SettlesNow
  /\ now >= nextRound.open_time

CreatesNow == OpensNow \/ nextRound = NoRound

NextId == IF CreatesNow THEN nextRoundId + 1 ELSE nextRoundId

(* No price that is asked for is missing *)
CanClose(oracle) ==
  /\ ~isHalted
  /\ SettlesNow => PriceKnown(oracle, liveRound.denom)
  /\ OpensNow   => PriceKnown(oracle, nextRound.denom)
  /\ CreatesNow => nextRoundId < MaxRound

CloseRound(oracle) ==
  /\ CanClose(oracle)
  /\ rounds' =
       IF SettlesNow
       THEN Save(rounds, liveRound.id,
                 RoundClose(liveRound, CurrentPrice(oracle, liveRound.denom)))
       ELSE rounds
  /\ liveRound' =
       CASE OpensNow   -> RoundOpen(nextRound, CurrentPrice(oracle, nextRound.denom))
         [] SettlesNow /\ ~OpensNow -> NoRound
         [] OTHER      -> liveRound
  /\ nextRound'   = IF CreatesNow THEN NewBidRound(liveRound') ELSE nextRound
  /\ nextRoundId' = NextId
  /\ UNCHANGED <<bets, claims, adminVars, bankVars, userVars, totalsSpent, now>>

----------------------------------------------------------------------------
(* Claiming *)

OneSided(round) == \E d \in Directions : round.pool[d] = 0

PoolShares(round) == round.pool["Bull"] + round.pool["Bear"]

Winnings_Fault(round, bet) ==      \* divides by the losing side
  CASE round.winner = Nobody        -> bet.amount
    [] round.winner = bet.direction ->
         MultiplyRatio(PoolShares(round), bet.amount,
                       PoolShares(round) - round.pool[bet.direction])
    [] OTHER                        -> 0

Winnings(round, bet) ==
  CASE round.winner = Nobody        -> bet.amount
    [] round.winner = bet.direction ->
         MultiplyRatio(PoolShares(round), bet.amount, round.pool[bet.direction])
    [] OTHER                        -> 0

(* What a bet of a finished round is worth, before the gaming fee *)
Payout(round, bet) ==
  IF OneSided(round) THEN bet.amount ELSE Winnings(round, bet)

Owed(key) == Payout(rounds[key[1]], bets[key])

SumOwed(keys) == SumFunction([k \in keys |-> Owed(k)])

(* Refunds of one-sided rounds bear no gaming fee and earn no experience *)
Commissionable_Fault(keys) == keys \* refunds are charged and need the call

Commissionable(keys) == {k \in keys : ~OneSided(rounds[k[1]])}

FeeOn(commissionable) ==
  IF commissionable = 0 THEN 0 ELSE GamingFee(config.gaming_fee, commissionable)

BetsAfterClaim_Fault(keys) ==      \* the refund branch forgets to remove
  Remove(bets, Commissionable(keys))

BetsAfterClaim(keys) == Remove(bets, keys)

(* What a claim of these bets charges, pays the player, and takes out of   *)
(* the contract together with the cuts of the developers                   *)
FeeFor(keys) == FeeOn(SumOwed(Commissionable(keys)))
NetFor(keys) == SumOwed(keys) - FeeFor(keys)
SentFor(keys) ==
  NetFor(keys) + (IF SumOwed(Commissionable(keys)) = 0 THEN 0
                  ELSE TotalCuts(FeeFor(keys), config.dev_wallet_list))

ExperienceFor(keys) ==
  Experience(SumOwed(Commissionable(keys)), config.exp_per_denom_won)

(* There is something to pay, the bank and the users contract take all the *)
(* messages of the claim, and the coins are there.                         *)
CanPay(p, keys) ==
  /\ SumOwed(keys) > 0
  /\ BankSends(NetFor(keys))
  /\ SumOwed(Commissionable(keys)) > 0 =>
       /\ \A i \in DOMAIN config.dev_wallet_list :
            BankSends(Cuts(FeeFor(keys), config.dev_wallet_list)[i])
       /\ CanAward(p, ExperienceFor(keys))
  /\ SentFor(keys) <= vault[config.token_denom]

(* The common body of the two claims: remove the bets, record what was     *)
(* claimed, pay the developers, award experience, pay the player.          *)
Pay(p, keys) ==
  /\ CanPay(p, keys)
  /\ bets' = BetsAfterClaim(keys)
  /\ claims' = SaveAll(claims, [k \in {j \in keys : Owed(j) > 0} |-> Owed(k)])
  /\ vault' = [vault EXCEPT ![config.token_denom] = @ - SentFor(keys)]
  /\ purse' = [purse EXCEPT ![p][config.token_denom] = @ + NetFor(keys)]
  /\ Award(p, ExperienceFor(keys))
  /\ UNCHANGED <<nextRoundId, nextRound, liveRound, rounds, adminVars,
                 registered, totalsSpent, now>>

BetsOf(p) == {k \in DOMAIN bets : k[2] = p}

(* CollectWinnings: every bet outside the live and the bidding round *)
CollectWinnings(p) ==
  /\ liveRound # NoRound /\ nextRound # NoRound
  /\ LET keys == {k \in BetsOf(p) : k[1] \notin {liveRound.id, nextRound.id}}
     IN  /\ \A k \in keys : k[1] \in DOMAIN rounds
         /\ Pay(p, keys)

CollectWinningRound_Fault(p, round_id) ==      \* halting blocks the claim
  LET keys == {<<round_id, p>>} \cap DOMAIN bets
  IN  /\ ~isHalted
      /\ keys # {} => round_id \in DOMAIN rounds
      /\ Pay(p, keys)

(* CollectionWinningRound: the bet of one round *)
CollectWinningRound(p, round_id) ==
  LET keys == {<<round_id, p>>} \cap DOMAIN bets
  IN  /\ keys # {} => round_id \in DOMAIN rounds
      /\ Pay(p, keys)

----------------------------------------------------------------------------
(* Administration *)

UpdateConfig(sender, u_config) ==
  /\ sender \in admins
  /\ config' = u_config
  /\ UNCHANGED <<bookVars, isHalted, admins, tickers, roundDenoms, bankVars,
                 userVars, totalsSpent, now>>

UpdateHalt(sender, halt) ==
  /\ HaltAllowed
  /\ sender \in admins
  /\ isHalted' = halt
  /\ UNCHANGED <<bookVars, config, admins, tickers, roundDenoms, bankVars,
                 userVars, totalsSpent, now>>

AddAdmin(sender, new_admin) ==
  /\ sender \in admins
  /\ admins' = admins \cup {new_admin}
  /\ UNCHANGED <<bookVars, config, isHalted, tickers, roundDenoms, bankVars,
                 userVars, totalsSpent, now>>

RemoveAdmin_Fault(sender, old_admin) ==        \* the last one may go
  /\ sender \in admins
  /\ admins' = admins \ {old_admin}
  /\ UNCHANGED <<bookVars, config, isHalted, tickers, roundDenoms, bankVars,
                 userVars, totalsSpent, now>>

RemoveAdmin(sender, old_admin) ==
  /\ sender \in admins
  /\ admins \ {old_admin} # {}
  /\ admins' = admins \ {old_admin}
  /\ UNCHANGED <<bookVars, config, isHalted, tickers, roundDenoms, bankVars,
                 userVars, totalsSpent, now>>

ModifyDevWallets(sender, new_wallets) ==
  /\ sender \in admins
  /\ RatiosSumToOne(new_wallets)
  /\ config' = [config EXCEPT !.dev_wallet_list = new_wallets]
  /\ UNCHANGED <<bookVars, isHalted, admins, tickers, roundDenoms, bankVars,
                 userVars, totalsSpent, now>>

AddTicker(sender, denom, ticker) ==
  /\ sender \in admins
  /\ tickers' = Save(tickers, denom, ticker)
  /\ UNCHANGED <<bookVars, config, isHalted, admins, roundDenoms, bankVars,
                 userVars, totalsSpent, now>>

ModifyBetArray_Fault(sender, denoms) ==        \* tickers are not looked up
  /\ sender \in admins
  /\ denoms # <<>>
  /\ roundDenoms' = denoms
  /\ UNCHANGED <<bookVars, config, isHalted, admins, tickers, bankVars,
                 userVars, totalsSpent, now>>

ModifyBetArray(sender, denoms) ==
  /\ sender \in admins
  /\ denoms # <<>>
  /\ \A i \in DOMAIN denoms : denoms[i] \in DOMAIN tickers
  /\ roundDenoms' = denoms
  /\ UNCHANGED <<bookVars, config, isHalted, admins, tickers, bankVars,
                 userVars, totalsSpent, now>>

----------------------------------------------------------------------------
Close == \E oracle \in [Tickers -> Answers] : CloseRound(oracle)

Claim(p) ==
  \/ CollectWinnings(p)
  \/ \E round_id \in 0..nextRoundId : CollectWinningRound(p, round_id)

Administer ==
  \E sender \in Accounts :
    \/ \E u_config \in Configs : UpdateConfig(sender, u_config)
    \/ \E halt \in BOOLEAN : UpdateHalt(sender, halt)
    \/ \E account \in Accounts : AddAdmin(sender, account)
    \/ \E account \in Accounts : RemoveAdmin(sender, account)
    \/ \E wallets \in WalletLists : ModifyDevWallets(sender, wallets)
    \/ \E denom \in Denoms, ticker \in Tickers : AddTicker(sender, denom, ticker)
    \/ \E denoms \in BetArrays : ModifyBetArray(sender, denoms)

PlaceBet ==
  \E p \in Players, round_id \in 0..nextRoundId, dir \in Directions,
     gross \in Stakes, token \in Tokens : Bet(p, round_id, dir, gross, token)

Next ==
  \/ PlaceBet
  \/ Close
  \/ \E p \in Players : Claim(p)
  \/ Administer
  \/ ChangeRegistry
  \/ Tick

Spec == Init /\ [][Next]_vars

----------------------------------------------------------------------------
(* Queries *)

(* query_my_current_position subtracts from NEXT_ROUND_ID to find the two  *)
(* rounds that are not finished.                                           *)
StakeOn(key, dir) ==
  IF key \in DOMAIN bets /\ bets[key].direction = dir THEN bets[key].amount ELSE 0

MyCurrentPosition_Fault(p) ==      \* the live round is missed at first
  LET next == <<nextRoundId - 1, p>>
      live == <<nextRoundId - 2, p>>
  IN  [next |-> [d \in Directions |-> StakeOn(next, d)],
       live |-> [d \in Directions |->
                   IF nextRoundId > 2 THEN StakeOn(live, d) ELSE 0]]

MyCurrentPosition(p) ==
  LET next == <<nextRoundId - 1, p>>
      live == <<nextRoundId - 2, p>>
  IN  [next |-> [d \in Directions |-> StakeOn(next, d)],
       live |-> [d \in Directions |->
                   IF nextRoundId > 1 THEN StakeOn(live, d) ELSE 0]]

FinishedBetsOf(p) == {k \in BetsOf(p) : k[1] \in DOMAIN rounds}

(* The queries have the rules of the rewards in their own code. *)
NoOpponent(round) == round.pool["Bear"] = 0 \/ round.pool["Bull"] = 0

WinningsShown(round, game) ==
  IF round.winner = Nobody THEN game.amount
  ELSE IF game.direction # round.winner THEN 0
  ELSE MultiplyRatio(PoolShares(round), game.amount, round.pool[round.winner])

MyPendingReward(p) ==
  SumFunction([k \in {j \in FinishedBetsOf(p) : ~NoOpponent(rounds[j[1]])} |->
                 WinningsShown(rounds[k[1]], bets[k])])

SumStakes(keys) == SumFunction([k \in keys |-> bets[k].amount])

MyRefundableAmount(p) ==
  SumStakes({k \in FinishedBetsOf(p) : NoOpponent(rounds[k[1]])})

(* Unlike query_my_pending_reward, this one counts refunds *)
MyPendingRewardRound(round_id, p) ==
  LET key == <<round_id, p>>
  IN  IF key \notin DOMAIN bets \/ round_id \notin DOMAIN rounds THEN 0
      ELSE IF NoOpponent(rounds[round_id]) THEN bets[key].amount
      ELSE WinningsShown(rounds[round_id], bets[key])

----------------------------------------------------------------------------
(* Properties *)

(* Every item and map of the contract's storage has its declared type, and *)
(* the contract always has an administrator.                               *)
TypeOK ==
  /\ config \in ConfigType
  /\ isHalted \in BOOLEAN
  /\ admins \in SUBSET Accounts /\ admins # {}
  /\ nextRoundId \in Nat
  /\ nextRound \in NextRounds \cup {NoRound}
  /\ liveRound \in LiveRounds \cup {NoRound}
  /\ DOMAIN rounds \subseteq Nat /\ rounds \in [DOMAIN rounds -> FinishedRounds]
  /\ DOMAIN bets \subseteq Nat \X Players /\ bets \in [DOMAIN bets -> BetInfos]
  /\ DOMAIN claims \subseteq Nat \X Players /\ claims \in [DOMAIN claims -> Nat]
  /\ DOMAIN totalsSpent \subseteq Players
  /\ totalsSpent \in [DOMAIN totalsSpent -> Nat]
  /\ DOMAIN tickers \subseteq Denoms /\ tickers \in [DOMAIN tickers -> Tickers]
  /\ roundDenoms \in Seq(Denoms) /\ roundDenoms # <<>>
  /\ now \in Nat

(* The three places a round can be in are kept in step by CloseRound: ids  *)
(* are handed out without a gap, the live round is the one before the      *)
(* bidding round, everything before it is finished, once a round has gone  *)
(* live there is always a live one (CollectWinnings fails without it), and *)
(* the bidding round opens exactly when the live one closes.               *)
RoundsInOrder ==
  /\ (nextRound = NoRound) = (nextRoundId = 0)
  /\ (liveRound = NoRound) = (nextRoundId <= 1)
  /\ nextRound # NoRound => nextRound.id = nextRoundId - 1
  /\ liveRound # NoRound => /\ liveRound.id = nextRoundId - 2
                            /\ nextRound.open_time = liveRound.close_time
  /\ DOMAIN rounds = 0..(nextRoundId - 3)

(* The pool of a round, wherever the round is stored *)
PoolOf(round_id) ==
  CASE round_id \in DOMAIN rounds   -> rounds[round_id].pool
    [] round_id = nextRoundId - 1   -> nextRound.pool
    [] round_id = nextRoundId - 2   -> liveRound.pool

(* A stored bet belongs to a round that exists and is covered by that      *)
(* round's pool on its side.  So the pool a winner's share is divided by   *)
(* is never zero, and a stake can never exceed the pool it is a share of.  *)
BetsWithinPools ==
  \A k \in DOMAIN bets :
    /\ k[1] < nextRoundId
    /\ 0 < bets[k].amount
    /\ bets[k].amount <= PoolOf(k[1])[bets[k].direction]

(* While a round takes bets or is live, each side of its pool is exactly   *)
(* the sum of the stored bets on that side: claims never touch such a      *)
(* round, and a repeated bet adds to the stored one.                       *)
PoolsMatchBets ==
  \A round \in {nextRound, liveRound} \ {NoRound}, d \in Directions :
    round.pool[d] =
      SumStakes({k \in DOMAIN bets : k[1] = round.id /\ bets[k].direction = d})

(* A bet is claimed at most once: what has been paid is no longer stored,  *)
(* and only finished rounds have been paid.                                *)
ClaimedOnce ==
  \A k \in DOMAIN claims :
    /\ k \notin DOMAIN bets
    /\ k[1] \in DOMAIN rounds
    /\ claims[k] > 0

ClaimedFrom(r) == SumFunctionOnSet(claims, {k \in DOMAIN claims : k[1] = r})

(* What a finished round has paid out and still owes is its whole pool but *)
(* what the rounding of shares leaves, less than a coin a player, in       *)
(* whatever order players claim.                                           *)
RoundPaysOutItsPool ==
  \A r \in DOMAIN rounds :
    LET due == ClaimedFrom(r) + SumOwed({k \in DOMAIN bets : k[1] = r})
    IN  due <= PoolShares(rounds[r]) /\ PoolShares(rounds[r]) < due + Cardinality(Players)

(* What the stored bets may still have to be paid *)
Liabilities ==
  SumOwed({k \in DOMAIN bets : k[1] \in DOMAIN rounds})
    + SumStakes({k \in DOMAIN bets : k[1] \notin DOMAIN rounds})

(* What rounding may leave in the contract: less than a coin a player for  *)
(* the shares of a round, less than a coin a wallet for the cuts of a fee. *)
AllWalletLists == WalletLists \cup {c.dev_wallet_list : c \in Configs}

Roundings ==
  Cardinality(DOMAIN rounds) * Cardinality(Players)
    + Cardinality(DOMAIN claims) * Max({Len(wallets) : wallets \in AllWalletLists})

(* The contract holds enough to refund every bet that is not settled and   *)
(* to pay every settled one in full, and, but for roundings, nothing else: *)
(* no coin gets stuck in it.  It is about the token the bets were paid in  *)
(* and fees that are shared out whole, so it is checked where UpdateConfig *)
(* changes neither the token nor the wallets and the wallets are not none. *)
Solvent ==
  /\ Liabilities <= vault[config.token_denom]
  /\ vault[config.token_denom] <= Liabilities + Roundings

(* The denoms of the two running rounds and of the rotation all have a     *)
(* ticker, so a round never gets stuck because its price cannot be asked.  *)
DenomsPriced ==
  /\ \A i \in DOMAIN roundDenoms : roundDenoms[i] \in DOMAIN tickers
  /\ \A round \in {nextRound, liveRound} \ {NoRound} : round.denom \in DOMAIN tickers

(* The conditions on which a prize with commission can be paid *)
CutsAreWhole(amount) ==
  \A i \in DOMAIN config.dev_wallet_list :
    MulFloor(FeeOn(amount), config.dev_wallet_list[i]) > 0

Payable(k) ==
  /\ config.gaming_fee < FeeScale
  /\ CanAward(k[2], Experience(Owed(k), config.exp_per_denom_won))
  /\ CutsAreWhole(Owed(k))

(* While the users contract lists the game, the experience fits and the    *)
(* fee is below one, every finished bet that is worth something can be     *)
(* claimed on its own, unless a developer's cut of its fee rounds down to  *)
(* zero.                                                                   *)
WinnersCanClaim ==
  \A k \in DOMAIN bets :
    /\ k[1] \in DOMAIN rounds
    /\ Owed(k) > 0
    /\ OneSided(rounds[k[1]]) \/ Payable(k)
    => ENABLED CollectWinningRound(k[2], k[1])

(* query_my_current_position finds the bidding and the live round by       *)
(* counting back from NEXT_ROUND_ID; what it reports is the player's stake *)
(* in the rounds that are stored as such.                                  *)
PositionIsCurrent ==
  \A p \in Players : nextRoundId > 0 =>
    LET position == MyCurrentPosition(p)
        stake(round) == [d \in Directions |->
                           IF round = NoRound THEN 0 ELSE StakeOn(<<round.id, p>>, d)]
    IN  position = [next |-> stake(nextRound), live |-> stake(liveRound)]

(* CollectWinnings records as claimed exactly what the reward and refund   *)
(* queries announced, although it picks the bets by excluding the two      *)
(* running rounds and the queries by looking for finished ones; and the    *)
(* claim of one round what the query of that round announced.  The claims  *)
(* and the queries each have the rules of the rewards in their own code.   *)
ClaimPaysWhatQueriesShow ==
  [][claims' # claims =>
     LET claimed == SumFunctionOnSet(claims', DOMAIN claims' \ DOMAIN claims)
     IN  \A p \in Players :
           /\ CollectWinnings(p) =>
                claimed = MyPendingReward(p) + MyRefundableAmount(p)
           /\ \A r \in DOMAIN rounds :
                CollectWinningRound(p, r) => claimed = MyPendingRewardRound(r, p)]_vars

(* Nobody changes a bet once the open price of its round is being asked    *)
(* for: stored bets only grow, in their direction, and only in the bidding *)
(* round not later than its open_time; the pool a round goes live with is  *)
(* the pool it finishes with, its open price is the one it went live with, *)
(* and a finished round never changes.                                     *)
BetsFrozenStep ==
  /\ \A k \in DOMAIN bets' :
       \/ k \in DOMAIN bets /\ bets'[k] = bets[k]
       \/ /\ nextRound # NoRound /\ k[1] = nextRound.id
          /\ now <= nextRound.open_time
          /\ k \in DOMAIN bets => /\ bets'[k].direction = bets[k].direction
                                  /\ bets'[k].amount > bets[k].amount
  /\ liveRound' # liveRound /\ nextRound # NoRound /\ liveRound' # NoRound
       => liveRound'.pool = nextRound.pool /\ now >= nextRound.open_time
  /\ \A r \in DOMAIN rounds' \ DOMAIN rounds :
       /\ liveRound # NoRound /\ r = liveRound.id
       /\ rounds'[r].pool = liveRound.pool
       /\ rounds'[r].open_price = liveRound.open_price
       /\ now >= liveRound.close_time
  /\ \A r \in DOMAIN rounds : r \in DOMAIN rounds' /\ rounds'[r] = rounds[r]

(* No step does otherwise. *)
BetsFrozenOnceLive == [][BetsFrozenStep]_vars

----------------------------------------------------------------------------
(* Statements of the documentation that the code does not keep             *)

(* "The user can ... claim their prizes after the round has been closed"   *)
(* (README.md:122): while the users contract takes the experience, every   *)
(* prize of a finished round can be claimed, however small.                *)
PrizesClaimable ==
  \A k \in DOMAIN bets :
    k[1] \in DOMAIN rounds /\ Owed(k) > 0 /\ registered
    => ENABLED CollectWinningRound(k[2], k[1])

----------------------------------------------------------------------------
(* The escrow the game implements.  A round that is not finished owes each *)
(* player the stake; a finished one owes the payout.                       *)
StageOf(r) ==
  CASE r \in DOMAIN rounds                         -> "settled"
    [] liveRound # NoRound /\ r = nextRoundId - 2  -> "locked"
    [] OTHER                                       -> "open"

HeldIn(r) ==
  CASE r \in DOMAIN rounds -> PoolShares(rounds[r]) - ClaimedFrom(r)
    [] r \notin DOMAIN rounds /\ r < nextRoundId ->
         PoolOf(r)["Bull"] + PoolOf(r)["Bear"]
    [] OTHER -> 0

OwedIn(r, p) ==
  IF <<r, p>> \notin DOMAIN bets THEN 0
  ELSE IF r \in DOMAIN rounds THEN Owed(<<r, p>>)
  ELSE bets[<<r, p>>].amount

RoundPots ==
  [r \in 0..MaxRound |->
     [stage |-> StageOf(r), held |-> HeldIn(r),
      owed |-> [p \in Players |-> OwedIn(r, p)]]]

RoundEscrow == INSTANCE Escrow WITH Pots <- 0..MaxRound, pots <- RoundPots

(* Every step of the game is a deposit by one player into the bidding      *)
(* round, an advance of rounds, or the full payment of one player's dues   *)
(* from finished rounds.                                                   *)
ImplementsEscrow == RoundEscrow!Spec

----------------------------------------------------------------------------
(* What the manager and the administrators see of the game.  There is one  *)
(* users contract here, so no step changes which one the game works with.  *)
GameView ==
  [admins |-> admins, isHalted |-> isHalted,
   dev_wallet_list |-> config.dev_wallet_list, users_contract |-> "users",
   due |-> SettlesNow \/ OpensNow]

SeenGame == INSTANCE GameInterface WITH
  Senders <- Accounts, UsersContracts <- {"users"}, WalletLists <- AllWalletLists,
  WholeLists <- {w \in AllWalletLists : TotalRatio(w) = RatioOne}

(* Every step of the game is, to the manager, one of the messages it sends *)
(* or that an administrator may send, accepted on the conditions the       *)
(* manager's model assumes, or a round that falls due; and however late    *)
(* CloseRound comes, once is enough: it leaves nothing due.                *)
ImplementsGame ==
  [][/\ GameView' = GameView \/ SeenGame!Steps(GameView, GameView')
     /\ Close => ~GameView'.due]_vars

----------------------------------------------------------------------------
(* Liveness.  The owner's service (README.md:55), or the manager's sudo    *)
(* entry point, keeps sending CloseRound, blocks keep coming, and a player *)
(* who has something to claim keeps asking for it.  Nothing is assumed of  *)
(* the administrators.                                                     *)
(* The bound leaves the last three ids unsettled: settling a round creates *)
(* the round after next.                                                   *)
SettledIds == 0..(MaxRound - 3)

KeepsAsking(p, r) == SF_vars(CollectWinningRound(p, r))

FairSpec ==
  /\ Spec
  /\ WF_vars(Tick)
  /\ SF_vars(Close)
  /\ \A p \in Players, r \in SettledIds : KeepsAsking(p, r)

Due(r) ==
  liveRound # NoRound /\ liveRound.id = r /\ now >= liveRound.close_time

(* A live round whose close time has passed is settled, unless the game    *)
(* stays halted for ever.                                                  *)
DueRoundsSettle ==
  \A r \in SettledIds : (Due(r) ~> r \in DOMAIN rounds) \/ <>[]isHalted

(* A bet that is worth something is paid, halted or not, unless the users  *)
(* contract stops listing the game for ever.                               *)
WinnersArePaid ==
  \A p \in Players, r \in SettledIds :
    \/ (r \in DOMAIN rounds /\ <<r, p>> \in DOMAIN bets /\ Owed(<<r, p>>) > 0)
         ~> <<r, p>> \in DOMAIN claims
    \/ <>[]~registered

============================================================================
