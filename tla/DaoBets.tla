------------------------------ MODULE DaoBets ------------------------------
(***************************************************************************)
(* The DAO's bets: the owner creates a bet with a set of options and a     *)
(* deadline, players stake on one option each, the owner later completes   *)
(* the bet with a result or cancels it, and players claim.                 *)
(*                                                                         *)
(* As in PredictionGame, a message that fails is an action that is not     *)
(* enabled, and the messages a handler emits succeed or fail with it.      *)
(*                                                                         *)
(* Left out: topic, description, rules, image and expected_result_timestamp*)
(* of a bet, which no handler reads; pagination; the expiry of a pending   *)
(* transfer of ownership.                                                  *)
(*                                                                         *)
(* A definition whose name ends in _Fault is not part of the model: it is  *)
(* the definition below it with a plausible bug, kept to show that the     *)
(* properties tell the two apart.                                          *)
(***************************************************************************)
EXTENDS BetMath, Sequences, Storage

CONSTANTS
  Players,          \* accounts that bet and claim
  Accounts,         \* accounts that may own the contract
  InitOwner,        \* the owner instantiate records
  Tokens,           \* denoms of the bank
  Titles,           \* titles of options, and the results an owner may submit
  OptionSets,       \* the options a bet is created with
  EndTimes,         \* deadlines an owner sets
  Configs,          \* configurations instantiate and UpdateConfig may get
  Stakes,           \* amounts sent with a bet
  InitPurse,        \* tokens each player starts with
  OwnershipChanges, \* whether the ownership is transferred or renounced
  RegistryChanges,  \* whether the users contract drops and re-adds the game
  MaxBets,          \* bound on the number of bets created
  MaxTime,          \* bound on the clock
  NoResult,         \* result_option: None
  Nobody            \* no owner, no pending owner

BetType(options) ==
  [end_bet_timestamp : Nat, current_bet_amounts : [options -> Nat],
   result_option : Titles \cup {NoResult}, cancelled : BOOLEAN,
   num_players : Nat]
BetInfos == [amount : Nat, option : Titles]
ConfigType ==
  [minimum_bet : Nat, gaming_fee : Nat, token_denom : Tokens,
   exp_per_denom_bet : Nat, exp_per_denom_won : Nat,
   fee_receiver_wallet_list : Seq(Nat)]

ASSUME DaoBetsAssumption ==
  /\ IsFiniteSet(Players)
  /\ InitOwner \in Accounts /\ Nobody \notin Accounts
  /\ OptionSets \subseteq SUBSET Titles
  /\ \A options \in OptionSets : IsFiniteSet(options)
  /\ EndTimes \subseteq Nat
  /\ Configs \subseteq ConfigType
  /\ Stakes \subseteq Nat \ {0}
  /\ {InitPurse, MaxBets, MaxTime} \subseteq Nat
  /\ {OwnershipChanges, RegistryChanges} \subseteq BOOLEAN
  /\ NoResult \notin Titles

VARIABLES
  config,        \* CONFIG
  owner,         \* the owner kept by cw_ownable
  pendingOwner,  \* and the account that may accept the ownership
  nextBetId,     \* NEXT_BET_ID
  unfinished,    \* UNFINISHED_BETS: bet id -> Bet
  finished,      \* FINISHED_BETS: bet id -> Bet
  bets,          \* bet_info_storage: <<bet id, player>> -> BetInfo
  claims,        \* claim_info_storage: <<bet id, player>> -> claimed_amount
  totalsSpent,   \* TOTALS_SPENT: player -> amount
  now,           \* block time
  vault,         \* the contract's bank balance, by token
  purse,         \* the players' bank balances
  registered,    \* the users contract lists this game
  xp             \* experience of each player in the users contract

bookVars  == <<nextBetId, unfinished, finished, bets, claims>>
ownerVars == <<config, owner, pendingOwner>>
bankVars  == <<vault, purse>>
userVars  == <<registered, xp>>
vars == <<bookVars, ownerVars, bankVars, userVars, totalsSpent, now>>

FirstBetId_Fault == 0      \* ids from zero

FirstBetId == 1

RatiosSumToOne(wallets) == TotalRatio(wallets) = RatioOne

Init ==
  /\ config \in Configs
  /\ config.fee_receiver_wallet_list # <<>> =>
       RatiosSumToOne(config.fee_receiver_wallet_list)
  /\ owner = InitOwner /\ pendingOwner = Nobody
  /\ nextBetId = FirstBetId
  /\ unfinished = EmptyMap /\ finished = EmptyMap
  /\ bets = EmptyMap /\ claims = EmptyMap /\ totalsSpent = EmptyMap
  /\ now = 0
  /\ vault = [t \in Tokens |-> 0]
  /\ purse = [p \in Players |-> [t \in Tokens |-> InitPurse]]
  /\ registered = TRUE
  /\ xp = [p \in Players |-> 0]

----------------------------------------------------------------------------
(* The environment of the contract, as in PredictionGame *)

BankSends(amount) == amount > 0

CanAward(p, experience) ==
  /\ registered
  /\ FitsU64(experience)
  /\ FitsU64(xp[p] + experience)

Award(p, experience) == xp' = [xp EXCEPT ![p] = @ + experience]

Tick ==
  /\ now < MaxTime
  /\ now' = now + 1
  /\ UNCHANGED <<bookVars, ownerVars, bankVars, userVars, totalsSpent>>

ChangeRegistry ==
  /\ RegistryChanges
  /\ registered' = ~registered
  /\ UNCHANGED <<bookVars, ownerVars, bankVars, xp, totalsSpent, now>>

----------------------------------------------------------------------------
(* Betting *)

BettingOpen_Fault(bet) == TRUE        \* the deadline is not checked

BettingOpen(bet) == now <= bet.end_bet_timestamp

SameOption(key, option) == key \in DOMAIN bets => bets[key].option = option

StakeWith_Fault(key, amount) == amount     \* a second bet replaces the first

StakeWith(key, amount) ==
  IF key \in DOMAIN bets THEN bets[key].amount + amount ELSE amount

AddStake_Fault(bet, key, option, amount) ==    \* the amount replaces the sum
  [bet EXCEPT
     !.current_bet_amounts[option] = amount,
     !.num_players = IF key \in DOMAIN bets THEN @ ELSE @ + 1]

(* A player is counted with the first stake only *)
AddStake(bet, key, option, amount) ==
  [bet EXCEPT
     !.current_bet_amounts[option] = @ + amount,
     !.num_players = IF key \in DOMAIN bets THEN @ ELSE @ + 1]

BetOn(p, bet_id, option, amount, token) ==
  LET key        == <<bet_id, p>>
      experience == Experience(amount, config.exp_per_denom_bet)
  IN  /\ amount <= purse[p][token]
      /\ token = config.token_denom
      /\ amount >= config.minimum_bet
      /\ bet_id \in DOMAIN unfinished
      /\ BettingOpen(unfinished[bet_id])
      /\ SameOption(key, option)
      /\ option \in DOMAIN unfinished[bet_id].current_bet_amounts
      /\ CanAward(p, experience)
      /\ unfinished' =
           Save(unfinished, bet_id, AddStake(unfinished[bet_id], key, option, amount))
      /\ bets' = Save(bets, key, [amount |-> StakeWith(key, amount),
                                  option |-> option])
      /\ totalsSpent' = Save(totalsSpent, p, LoadOr(totalsSpent, p, 0) + amount)
      /\ vault' = [vault EXCEPT ![token] = @ + amount]
      /\ purse' = [purse EXCEPT ![p][token] = @ - amount]
      /\ Award(p, experience)
      /\ UNCHANGED <<nextBetId, finished, claims, ownerVars, registered, now>>

----------------------------------------------------------------------------
(* The owner's messages *)

CreateBet(sender, options, end_bet_timestamp) ==
  /\ sender = owner
  /\ nextBetId <= MaxBets
  /\ nextBetId' = nextBetId + 1
  /\ unfinished' =
       Save(unfinished, nextBetId,
            [end_bet_timestamp |-> end_bet_timestamp,
             current_bet_amounts |-> [o \in options |-> 0],
             result_option |-> NoResult, cancelled |-> FALSE, num_players |-> 0])
  /\ UNCHANGED <<finished, bets, claims, ownerVars, bankVars, userVars,
                 totalsSpent, now>>

(* The deadline may be moved at any time, also once it has passed *)
ModifyBet(sender, bet_id, end_bet_timestamp) ==
  /\ sender = owner
  /\ bet_id \in DOMAIN unfinished
  /\ unfinished' = [unfinished EXCEPT ![bet_id].end_bet_timestamp = end_bet_timestamp]
  /\ UNCHANGED <<nextBetId, finished, bets, claims, ownerVars, bankVars, userVars,
                 totalsSpent, now>>

StillUnfinished_Fault(bet_id) == unfinished    \* the bet is not removed

StillUnfinished(bet_id) == Remove(unfinished, {bet_id})

Finish(sender, bet_id, bet) ==
  /\ sender = owner
  /\ finished' = Save(finished, bet_id, bet)
  /\ unfinished' = StillUnfinished(bet_id)
  /\ UNCHANGED <<nextBetId, bets, claims, ownerVars, bankVars, userVars,
                 totalsSpent, now>>

(* The result is any string: neither the options nor the deadline of the   *)
(* bet are consulted.                                                      *)
CompleteBet(sender, bet_id, result_option) ==
  /\ bet_id \in DOMAIN unfinished
  /\ Finish(sender, bet_id,
            [unfinished[bet_id] EXCEPT !.result_option = result_option])

CancelBet(sender, bet_id) ==
  /\ bet_id \in DOMAIN unfinished
  /\ Finish(sender, bet_id, [unfinished[bet_id] EXCEPT !.cancelled = TRUE])

UpdateConfig(sender, new_config) ==
  /\ sender = owner
  /\ RatiosSumToOne(new_config.fee_receiver_wallet_list)
  /\ config' = new_config
  /\ UNCHANGED <<bookVars, owner, pendingOwner, bankVars, userVars, totalsSpent, now>>

(* update_ownership hands the action to cw_ownable: a transfer takes       *)
(* effect when the new owner accepts it; renouncing leaves no owner.       *)
TransferOwnership(sender, new_owner) ==
  /\ OwnershipChanges
  /\ sender = owner
  /\ pendingOwner' = new_owner
  /\ UNCHANGED <<bookVars, config, owner, bankVars, userVars, totalsSpent, now>>

AcceptOwnership(sender) ==
  /\ OwnershipChanges
  /\ sender = pendingOwner
  /\ owner' = sender /\ pendingOwner' = Nobody
  /\ UNCHANGED <<bookVars, config, bankVars, userVars, totalsSpent, now>>

RenounceOwnership_Fault(sender) ==     \* the pending transfer survives
  /\ OwnershipChanges
  /\ sender = owner
  /\ owner' = Nobody
  /\ UNCHANGED <<bookVars, config, pendingOwner, bankVars, userVars,
                 totalsSpent, now>>

RenounceOwnership(sender) ==
  /\ OwnershipChanges
  /\ sender = owner
  /\ owner' = Nobody /\ pendingOwner' = Nobody
  /\ UNCHANGED <<bookVars, config, bankVars, userVars, totalsSpent, now>>

----------------------------------------------------------------------------
(* Claiming *)

Pool(bet) == SumFunction(bet.current_bet_amounts)

BetOf(key) == finished[key[1]]

(* The claimer chose the result, or the bet was cancelled *)
Won(key) == BetOf(key).cancelled \/ BetOf(key).result_option = bets[key].option

Owed_Fault(key) ==         \* each winner gets the whole pool
  IF BetOf(key).cancelled THEN bets[key].amount
  ELSE IF Won(key) THEN Pool(BetOf(key)) ELSE 0

(* What a finished bet pays the player, before the gaming fee *)
Owed(key) ==
  IF BetOf(key).cancelled THEN bets[key].amount
  ELSE IF Won(key)
  THEN MultiplyRatio(Pool(BetOf(key)), bets[key].amount,
                     BetOf(key).current_bet_amounts[bets[key].option])
  ELSE 0

SumOwed(keys) == SumFunction([k \in keys |-> Owed(k)])

(* A cut that rounds down to zero is not sent *)
CutSent_Fault(fee, wallets) ==         \* it is sent, and the bank refuses it
  \A i \in DOMAIN wallets : BankSends(Cuts(fee, wallets)[i])

CutSent(fee, wallets) ==
  \A i \in DOMAIN wallets : Cuts(fee, wallets)[i] > 0 => BankSends(Cuts(fee, wallets)[i])

BetsAfterClaim_Fault(keys) == Remove(bets, {k \in keys : ~BetOf(k).cancelled})

BetsAfterClaim(keys) == Remove(bets, keys)

(* What a claim of these stakes pays the player, and takes out of the      *)
(* contract together with the cuts; charged is the amount the gaming fee   *)
(* and the experience are computed from, 0 when there is neither.          *)
NetFor(keys, charged) ==
  SumOwed({k \in keys : Won(k)}) - GamingFee(config.gaming_fee, charged)

SentFor(keys, charged) ==
  NetFor(keys, charged)
    + TotalCuts(GamingFee(config.gaming_fee, charged), config.fee_receiver_wallet_list)

(* The bank and the users contract take all the messages of the claim, and *)
(* the coins are there.                                                    *)
CanPay(p, keys, charged) ==
  /\ BankSends(NetFor(keys, charged))
  /\ CutSent(GamingFee(config.gaming_fee, charged), config.fee_receiver_wallet_list)
  /\ charged > 0 => CanAward(p, Experience(charged, config.exp_per_denom_won))
  /\ SentFor(keys, charged) <= vault[config.token_denom]

(* The common end of the two claims.  Those of keys that won are recorded  *)
(* as claimed.                                                             *)
Pay(p, keys, charged) ==
  /\ CanPay(p, keys, charged)
  /\ bets' = BetsAfterClaim(keys)
  /\ claims' = SaveAll(claims, [k \in {j \in keys : Won(j)} |-> Owed(k)])
  /\ vault' = [vault EXCEPT ![config.token_denom] = @ - SentFor(keys, charged)]
  /\ purse' = [purse EXCEPT ![p][config.token_denom] = @ + NetFor(keys, charged)]
  /\ Award(p, Experience(charged, config.exp_per_denom_won))
  /\ UNCHANGED <<nextBetId, unfinished, finished, ownerVars, registered,
                 totalsSpent, now>>

FinishedBetsOf(p) == {k \in DOMAIN bets : k[2] = p /\ k[1] \in DOMAIN finished}

(* CollectWinnings: every finished bet, the lost ones included.  If any of *)
(* them bears commission, all the winnings do.                             *)
CollectWinnings(p) ==
  LET keys           == FinishedBetsOf(p)
      winnings       == SumOwed(keys)
      commissionable == SumOwed({k \in keys : ~BetOf(k).cancelled})
  IN  /\ winnings > 0
      /\ Pay(p, keys, IF commissionable > 0 THEN winnings ELSE 0)

CollectWinningsBet_Fault(p, bet_id) ==     \* refunds need the users contract
  LET key == <<bet_id, p>>
  IN  /\ bet_id \in DOMAIN finished
      /\ key \in DOMAIN bets
      /\ Won(key)
      /\ CanAward(p, 0)
      /\ Pay(p, {key}, IF BetOf(key).cancelled THEN 0 ELSE Owed(key))

(* CollectionWinningBet: one bet; a bet that lost stays stored *)
CollectWinningsBet(p, bet_id) ==
  LET key == <<bet_id, p>>
  IN  /\ bet_id \in DOMAIN finished
      /\ key \in DOMAIN bets
      /\ Won(key)
      /\ Pay(p, {key}, IF BetOf(key).cancelled THEN 0 ELSE Owed(key))

----------------------------------------------------------------------------
PlaceBet ==
  \E p \in Players, bet_id \in 1..MaxBets, option \in Titles, amount \in Stakes,
     token \in Tokens : BetOn(p, bet_id, option, amount, token)

ManageBets(sender) ==
  \/ \E options \in OptionSets, end \in EndTimes : CreateBet(sender, options, end)
  \/ \E bet_id \in 1..MaxBets :
       \/ \E end \in EndTimes : ModifyBet(sender, bet_id, end)
       \/ \E result \in Titles : CompleteBet(sender, bet_id, result)
       \/ CancelBet(sender, bet_id)

ManageContract(sender) ==
  \/ \E new_config \in Configs : UpdateConfig(sender, new_config)
  \/ \E account \in Accounts : TransferOwnership(sender, account)
  \/ AcceptOwnership(sender)
  \/ RenounceOwnership(sender)

Claim(p) ==
  \/ CollectWinnings(p)
  \/ \E bet_id \in 1..MaxBets : CollectWinningsBet(p, bet_id)

Next ==
  \/ PlaceBet
  \/ \E sender \in Accounts : ManageBets(sender) \/ ManageContract(sender)
  \/ \E p \in Players : Claim(p)
  \/ ChangeRegistry
  \/ Tick

Spec == Init /\ [][Next]_vars

----------------------------------------------------------------------------
(* Queries *)

(* They repeat the rules of the claims, in code of their own. *)

NotWonByQuery(bet, game) == bet.result_option # game.option /\ ~bet.cancelled

RewardShown(bet, game) ==
  LET bet_amount       == SumFunction(bet.current_bet_amounts)
      total_won_shares == bet.current_bet_amounts[game.option]
  IN  IF bet.cancelled THEN game.amount
      ELSE MultiplyRatio(bet_amount, game.amount, total_won_shares)

(* The list of query_my_pending_reward_rounds, over all its pages, and of  *)
(* its form by topic, over all topics: bet id -> round_winnings            *)
PendingRewardRounds(p) ==
  LET mine  == {b \in DOMAIN finished : <<b, p>> \in DOMAIN bets}
      shown == {b \in mine : ~NotWonByQuery(finished[b], bets[<<b, p>>])}
  IN  [b \in shown |-> RewardShown(finished[b], bets[<<b, p>>])]

(* query_my_pending_reward, and pending_reward_total *)
MyPendingReward(p) == SumFunction(PendingRewardRounds(p))

(* query_my_pending_reward_round; a finished bet the player has no stake   *)
(* in is an error                                                          *)
MyPendingRewardRound(round_id, p) ==
  LET bet  == finished[round_id]
      game == bets[<<round_id, p>>]
  IN  IF round_id \in DOMAIN finished /\ ~NotWonByQuery(bet, game)
      THEN RewardShown(bet, game) ELSE 0

----------------------------------------------------------------------------
(* Properties *)

(* Every item and map of the contract's storage has its declared type. *)
TypeOK ==
  /\ config \in ConfigType
  /\ owner \in Accounts \cup {Nobody} /\ pendingOwner \in Accounts \cup {Nobody}
  /\ nextBetId \in Nat \ {0}
  /\ \A b \in DOMAIN unfinished :
       b \in Nat /\ \E options \in SUBSET Titles : unfinished[b] \in BetType(options)
  /\ \A b \in DOMAIN finished :
       b \in Nat /\ \E options \in SUBSET Titles : finished[b] \in BetType(options)
  /\ DOMAIN bets \subseteq Nat \X Players /\ bets \in [DOMAIN bets -> BetInfos]
  /\ DOMAIN claims \subseteq Nat \X Players /\ claims \in [DOMAIN claims -> Nat]
  /\ DOMAIN totalsSpent \subseteq Players
  /\ totalsSpent \in [DOMAIN totalsSpent -> Nat]
  /\ now \in Nat

(* Ids are handed out without a gap and a bet is stored in exactly one of  *)
(* the two maps.  A bet has a verdict exactly when it is finished, and     *)
(* only one: it is cancelled or it has a result, never both, so the two    *)
(* ways a claim is computed never compete.                                 *)
BetsPartition ==
  /\ DOMAIN unfinished \cup DOMAIN finished = 1..(nextBetId - 1)
  /\ DOMAIN unfinished \cap DOMAIN finished = {}
  /\ \A b \in DOMAIN unfinished :
       unfinished[b].result_option = NoResult /\ ~unfinished[b].cancelled
  /\ \A b \in DOMAIN finished :
       finished[b].cancelled = (finished[b].result_option = NoResult)

(* A bet of the DAO, in whichever map it is stored *)
BetInfoOf(b) == IF b \in DOMAIN unfinished THEN unfinished[b] ELSE finished[b]

(* A stored stake belongs to a bet that exists, is on one of its options,  *)
(* and is covered by the amount of that option, which is what a winner's   *)
(* share is divided by: the unwrap and the division of a claim never abort.*)
StakesWithinPots ==
  \A k \in DOMAIN bets :
    /\ 0 < k[1] /\ k[1] < nextBetId
    /\ bets[k].option \in DOMAIN BetInfoOf(k[1]).current_bet_amounts
    /\ 0 < bets[k].amount
    /\ bets[k].amount <= BetInfoOf(k[1]).current_bet_amounts[bets[k].option]

SumStakes(keys) == SumFunction([k \in keys |-> bets[k].amount])

(* Until a bet is finished, the amount of each option is the sum of the    *)
(* stored stakes on it, and num_players counts the players who have one.   *)
PotsMatchBets ==
  \A b \in DOMAIN unfinished :
    LET on(o) == {k \in DOMAIN bets : k[1] = b /\ bets[k].option = o}
    IN  /\ \A o \in DOMAIN unfinished[b].current_bet_amounts :
             unfinished[b].current_bet_amounts[o] = SumStakes(on(o))
        /\ unfinished[b].num_players = Cardinality({k \in DOMAIN bets : k[1] = b})

(* A stake is claimed at most once, by either message: what was paid is no *)
(* longer stored, and only finished bets have been paid.                   *)
ClaimedOnce ==
  \A k \in DOMAIN claims :
    /\ k \notin DOMAIN bets
    /\ k[1] \in DOMAIN finished
    /\ claims[k] > 0

(* What the stored stakes may still have to be paid *)
Liabilities ==
  SumOwed({k \in DOMAIN bets : k[1] \in DOMAIN finished})
    + SumStakes({k \in DOMAIN bets : k[1] \in DOMAIN unfinished})

(* A finished bet with a result nobody chose: its pot stays where it is *)
NobodyWon(bet) ==
  LET amounts == bet.current_bet_amounts
  IN  /\ ~bet.cancelled
      /\ bet.result_option \in DOMAIN amounts => amounts[bet.result_option] = 0

Forfeited ==
  SumFunction([b \in DOMAIN finished |->
                 IF NobodyWon(finished[b]) THEN Pool(finished[b]) ELSE 0])

(* What stays in the contract for good: the pots nobody won, less than a   *)
(* coin a player of the shares of a pot, less than one a wallet of a fee.  *)
Stranded ==
  Forfeited
    + Cardinality(DOMAIN finished) * Cardinality(Players)
    + Cardinality(DOMAIN claims)
        * Max({Len(c.fee_receiver_wallet_list) : c \in Configs})

(* The contract holds enough to refund every stake on an unfinished bet    *)
(* and to pay every finished one: fees and cuts never eat into another     *)
(* player's coins; and no coin gets stuck in it but as said above.  It is  *)
(* about the token the stakes were paid in, so it is checked where         *)
(* UpdateConfig does not change the token.                                 *)
Solvent ==
  /\ Liabilities <= vault[config.token_denom]
  /\ vault[config.token_denom] <= Liabilities + Stranded

(* Whenever query_my_pending_reward shows something, one message collects  *)
(* it all, however many bets it comes from.                                *)
PendingIsCollectable ==
  \A p \in Players :
    /\ MyPendingReward(p) > 0
    /\ config.gaming_fee < FeeScale
    /\ CanAward(p, Experience(MyPendingReward(p), config.exp_per_denom_won))
    => ENABLED CollectWinnings(p)

(* While the users contract takes the experience and the fee is below one, *)
(* a stake that won can be claimed on its own, and with all the others; a  *)
(* refund on its own needs neither.                                        *)
WinnersCanClaim ==
  /\ PendingIsCollectable
  /\ \A k \in DOMAIN bets :
       /\ k[1] \in DOMAIN finished /\ Won(k)
       /\ BetOf(k).cancelled
            \/ /\ config.gaming_fee < FeeScale
               /\ CanAward(k[2], Experience(Owed(k), config.exp_per_denom_won))
       => ENABLED CollectWinningsBet(k[2], k[1])

(* A reward the queries announce stands until it is paid.  No stake, later *)
(* verdict, message of the owner or claim of somebody else changes it or   *)
(* takes it back: it goes only by being recorded as claimed, in the amount *)
(* announced, in a step that pays the player the total of what goes less   *)
(* at most the fee on it.  Otherwise no step pays a player anything; the   *)
(* batch claim leaves nothing behind; and only a verdict announces more.   *)
(* The claims and the queries each have the rules of the rewards in their  *)
(* own code.                                                               *)
AnnouncedRewardStep ==
  \A p \in Players :
    LET before == PendingRewardRounds(p)
        after  == PendingRewardRounds(p)'
        gone   == DOMAIN before \ DOMAIN after
        total  == SumFunctionOnSet(before, gone)
        token  == config.token_denom
        paid   == purse'[p][token] - purse[p][token]
    IN  /\ \A b \in DOMAIN before \cap DOMAIN after : after[b] = before[b]
        /\ \A b \in DOMAIN after \ DOMAIN before : b \in DOMAIN finished' \ DOMAIN finished
        /\ {k \in DOMAIN claims' \ DOMAIN claims : k[2] = p} = {<<b, p>> : b \in gone}
        /\ \A b \in gone : claims'[<<b, p>>] = MyPendingRewardRound(b, p)
        /\ IF gone = {} THEN paid <= 0
           ELSE total - GamingFee(config.gaming_fee, total) <= paid /\ paid <= total
        /\ CollectWinnings(p) => total = MyPendingReward(p) /\ after = EmptyMap

(* No step does otherwise. *)
AnnouncedRewardsStand == [][AnnouncedRewardStep]_vars

(* A stake changes only by growing, on its option, while its bet is not    *)
(* finished and the deadline of the moment has not passed; a finished bet  *)
(* never changes, and it finishes with the amounts it had.                 *)
StakesFrozenStep ==
  /\ \A k \in DOMAIN bets' :
       \/ k \in DOMAIN bets /\ bets'[k] = bets[k]
       \/ /\ k[1] \in DOMAIN unfinished
          /\ now <= unfinished[k[1]].end_bet_timestamp
          /\ k \in DOMAIN bets => /\ bets'[k].option = bets[k].option
                                  /\ bets'[k].amount > bets[k].amount
  /\ \A b \in DOMAIN finished' :
       IF b \in DOMAIN finished THEN finished'[b] = finished[b]
       ELSE /\ b \in DOMAIN unfinished
            /\ finished'[b].current_bet_amounts = unfinished[b].current_bet_amounts

(* No step does otherwise. *)
StakesFrozenWhenDue == [][StakesFrozenStep]_vars

(* Renouncing the ownership is final, whatever transfer was pending: from  *)
(* then on no bet is created, changed in its deadline, or finished.        *)
RenouncedStep ==
  owner = Nobody =>
    /\ owner' = Nobody /\ config' = config
    /\ finished' = finished /\ nextBetId' = nextBetId
    /\ \A b \in DOMAIN unfinished :
         unfinished'[b].end_bet_timestamp = unfinished[b].end_bet_timestamp

(* No step does otherwise. *)
RenouncedForGood == [][RenouncedStep]_vars

----------------------------------------------------------------------------
(* Statements of the documentation that the code does not keep             *)

(* A bet is cancelled "so all people who bet can get their money back"     *)
(* (msg.rs:51): a claim pays the stakes of cancelled bets in full, and the *)
(* fee is taken from what was won.                                         *)
CancelRefundsInFull ==
  [][\A p \in Players : CollectWinnings(p) =>
       LET refunds == SumOwed({k \in FinishedBetsOf(p) : BetOf(k).cancelled})
           won     == SumOwed({k \in FinishedBetsOf(p) : ~BetOf(k).cancelled})
           token   == config.token_denom
       IN  purse'[p][token] - purse[p][token]
             >= refunds + won - GamingFee(config.gaming_fee, won)]_vars

----------------------------------------------------------------------------
(* The escrow the contract implements: a bet that is not finished owes     *)
(* each player the stake, a finished one what the claim computes.          *)
ClaimedFrom(b) == SumFunctionOnSet(claims, {k \in DOMAIN claims : k[1] = b})

BetPots ==
  [b \in 1..MaxBets |->
     [stage |-> IF b \in DOMAIN finished THEN "settled" ELSE "open",
      held  |-> IF b < nextBetId THEN Pool(BetInfoOf(b)) - ClaimedFrom(b) ELSE 0,
      owed  |-> [p \in Players |->
                   IF <<b, p>> \notin DOMAIN bets THEN 0
                   ELSE IF b \in DOMAIN finished THEN Owed(<<b, p>>)
                   ELSE bets[<<b, p>>].amount]]]

BetEscrow == INSTANCE Escrow WITH Pots <- 1..MaxBets, pots <- BetPots

(* Every step of the contract is a deposit by one player on an unfinished  *)
(* bet, the settlement of a bet, or the full payment of one player's dues. *)
ImplementsEscrow == BetEscrow!Spec

----------------------------------------------------------------------------
(* Liveness.  Players who have something to claim keep asking for it;      *)
(* nothing is assumed of the owner, who need not finish any bet.           *)
KeepsAsking(p, b) == SF_vars(CollectWinningsBet(p, b))

FairSpec == Spec /\ \A p \in Players, b \in 1..MaxBets : KeepsAsking(p, b)

(* A stake that won or is to be refunded is paid, unless the users         *)
(* contract stops listing the game for ever; a refund is paid even then.   *)
WinnersArePaid ==
  \A p \in Players, b \in 1..MaxBets :
    \/ (b \in DOMAIN finished /\ <<b, p>> \in DOMAIN bets /\ Won(<<b, p>>))
         ~> <<b, p>> \in DOMAIN claims
    \/ <>[]~registered /\ [](b \in DOMAIN finished => ~finished[b].cancelled)

============================================================================
