--------------------------- MODULE DaoBetsProofs ---------------------------
(***************************************************************************)
(* Proofs about DaoBets, for every value of its constants: the books.      *)
(*                                                                         *)
(* IInv is inductive: to the properties the runs check it adds that the    *)
(* books are finite, so that their sums exist, and that a contract without *)
(* an owner has no pending one.  PotsMatch is proved on top of it.  Each   *)
(* kind of step is first reduced to what it does to the books (Finishes,   *)
(* BetsOn, Claims); the later proofs use only that.                        *)
(***************************************************************************)
EXTENDS DaoBets, SumTheorems

(* The amounts of the options of a bet, in whichever map it is stored *)
Amounts(b) == BetInfoOf(b).current_bet_amounts

(* Stakes, claims and options are finitely many *)
BooksFinite ==
  /\ IsFiniteSet(DOMAIN bets) /\ IsFiniteSet(DOMAIN claims)
  /\ \A b \in DOMAIN unfinished \cup DOMAIN finished : IsFiniteSet(DOMAIN Amounts(b))

(* Renouncing the ownership also ends a pending transfer *)
NoOwnerNoTransfer == owner = Nobody => pendingOwner = Nobody

(* The inductive invariant *)
IInv ==
  /\ TypeOK
  /\ BetsPartition
  /\ StakesWithinPots
  /\ ClaimedOnce
  /\ BooksFinite
  /\ NoOwnerNoTransfer

(* What the invariant says of one bet, wherever it is stored. *)
LEMMA BetFacts ==
  ASSUME IInv, NEW b \in DOMAIN unfinished \cup DOMAIN finished
  PROVE  /\ b \in Nat /\ b > 0 /\ b < nextBetId
         /\ b \in DOMAIN unfinished <=> b \notin DOMAIN finished
         /\ b \in DOMAIN unfinished => Amounts(b) = unfinished[b].current_bet_amounts
         /\ b \in DOMAIN finished => Amounts(b) = finished[b].current_bet_amounts
         /\ IsFiniteSet(DOMAIN Amounts(b)) /\ DOMAIN Amounts(b) \subseteq Titles
         /\ \A o \in DOMAIN Amounts(b) : Amounts(b)[o] \in Nat
<1>1. /\ b \in Nat /\ b > 0 /\ b < nextBetId
      /\ b \in DOMAIN unfinished <=> b \notin DOMAIN finished
  BY DEF IInv, TypeOK, BetsPartition
<1>2. PICK options \in SUBSET Titles : BetInfoOf(b) \in BetType(options)
  BY DEF IInv, TypeOK, BetInfoOf
<1>3. Amounts(b) \in [options -> Nat]
  BY <1>2 DEF Amounts, BetType
<1> QED
  BY <1>1, <1>3 DEF IInv, BooksFinite, Amounts, BetInfoOf

(* What it says of one stake. *)
LEMMA StakeFacts ==
  ASSUME IInv, NEW k \in DOMAIN bets
  PROVE  /\ k = <<k[1], k[2]>> /\ k[2] \in Players
         /\ k[1] \in DOMAIN unfinished \cup DOMAIN finished
         /\ bets[k].amount \in Nat /\ bets[k].amount > 0
         /\ bets[k].option \in DOMAIN Amounts(k[1])
         /\ bets[k].amount <= Amounts(k[1])[bets[k].option]
         /\ k \notin DOMAIN claims
<1>1. k \in Nat \X Players /\ bets[k] \in BetInfos
  BY DEF IInv, TypeOK
<1>2. 0 < k[1] /\ k[1] < nextBetId /\ nextBetId \in Nat
  BY DEF IInv, TypeOK, StakesWithinPots
<1>3. k[1] \in 1..(nextBetId - 1)
  BY <1>1, <1>2
<1> QED
  BY <1>1, <1>3 DEF IInv, StakesWithinPots, BetsPartition, ClaimedOnce, Amounts, BetInfos

(* A pot is a natural number, and so is what a stake of a finished bet is  *)
(* owed: the amount a winner's share is divided by is not zero.            *)
LEMMA PoolType ==
  ASSUME IInv, NEW b \in DOMAIN finished
  PROVE  Pool(finished[b]) \in Nat
BY BetFacts, SumType DEF Pool, SumFunction

(* What a stake of a finished bet is owed is a natural number, and         *)
(* positive exactly when it won.                                           *)
LEMMA OwedType ==
  ASSUME IInv, NEW k \in DOMAIN bets, k[1] \in DOMAIN finished
  PROVE  /\ Owed(k) \in Nat
         /\ ~Won(k) => Owed(k) = 0
         /\ Won(k) => Owed(k) > 0
<1> DEFINE bet == finished[k[1]]
           P   == Pool(bet)
           a   == bets[k].amount
           w   == bet.current_bet_amounts[bets[k].option]
<1>1. /\ a \in Nat /\ a > 0 /\ a <= w /\ w \in Nat
      /\ bets[k].option \in DOMAIN bet.current_bet_amounts
  BY StakeFacts, BetFacts
<1>2. P \in Nat /\ w <= P
  <2>1. SumFunctionOnSet(Amounts(k[1]), DOMAIN Amounts(k[1])) >= w
    BY <1>1, BetFacts, SumMember
  <2> QED
    BY <2>1, BetFacts, PoolType DEF Pool, SumFunction
<1>3. (P * a) \div w \in Nat /\ (P * a) \div w > 0
  <2>1. P * a \in Nat
    BY <1>1, <1>2
  <2>2. w * 1 <= P * a
    <3>1. PICK c \in Nat, d \in Nat : P = w + c /\ a = 1 + d
      <4>1. P - w \in Nat /\ a - 1 \in Nat /\ P = w + (P - w) /\ a = 1 + (a - 1)
        BY <1>1, <1>2
      <4> QED
        BY <4>1
    <3>2. P * a = P + P * d
      BY <1>2, <3>1, Distribute
    <3>3. P * d \in Nat
      BY <1>2
    <3> QED
      BY <1>1, <1>2, <3>2, <3>3
  <2>3. DEFINE q == (P * a) \div w
  <2>4. q \in Nat /\ P * a + 1 <= w * q + w
    BY <1>1, <2>1, DivBounds
  <2>5. q = 0 => w * q = 0
    BY <1>1
  <2> HIDE DEF q
  <2> QED
    BY <1>1, <2>1, <2>2, <2>4, <2>5 DEF q
<1> QED
  BY <1>1, <1>3 DEF Owed, BetOf, Won, MultiplyRatio

(* A freshly instantiated contract satisfies the invariant. *)
THEOREM InitInv == Init => IInv
<1> SUFFICES ASSUME Init PROVE IInv
  OBVIOUS
<1> USE DaoBetsAssumption
<1>1. /\ DOMAIN unfinished = {} /\ DOMAIN finished = {} /\ DOMAIN bets = {}
      /\ DOMAIN claims = {} /\ DOMAIN totalsSpent = {}
      /\ bets \in [{} -> BetInfos] /\ claims \in [{} -> Nat]
      /\ totalsSpent \in [{} -> Nat]
  BY DEF Init, EmptyMap
<1>2. TypeOK
  BY <1>1 DEF Init, TypeOK, FirstBetId
<1>3. BetsPartition
  BY <1>1 DEF Init, BetsPartition, FirstBetId
<1>4. StakesWithinPots /\ ClaimedOnce
  BY <1>1 DEF StakesWithinPots, ClaimedOnce
<1>5. BooksFinite /\ NoOwnerNoTransfer
  BY <1>1, FS_EmptySet DEF Init, BooksFinite, NoOwnerNoTransfer
<1> QED
  BY <1>2, <1>3, <1>4, <1>5 DEF IInv

(* Steps that change neither the books nor the owner. *)
LEMMA QuietInv ==
  ASSUME IInv, UNCHANGED <<bookVars, ownerVars, totalsSpent>>, now' \in Nat
  PROVE  IInv'
BY DEF IInv, TypeOK, BetsPartition, StakesWithinPots, BetInfoOf, ClaimedOnce,
       BooksFinite, Amounts, NoOwnerNoTransfer, bookVars, ownerVars

(* The messages about the configuration and the ownership. *)
LEMMA ContractInv ==
  ASSUME IInv, NEW sender \in Accounts, ManageContract(sender)
  PROVE  IInv'
<1> USE DaoBetsAssumption
<1>1. UNCHANGED <<bookVars, totalsSpent, now>>
  BY DEF ManageContract, UpdateConfig, TransferOwnership, AcceptOwnership,
         RenounceOwnership
<1>2. /\ config' \in ConfigType
      /\ owner' \in Accounts \cup {Nobody} /\ pendingOwner' \in Accounts \cup {Nobody}
      /\ NoOwnerNoTransfer'
  BY DEF IInv, TypeOK, NoOwnerNoTransfer, ManageContract, UpdateConfig,
         TransferOwnership, AcceptOwnership, RenounceOwnership
<1> QED
  BY <1>1, <1>2 DEF IInv, TypeOK, BetsPartition, StakesWithinPots, BetInfoOf,
       ClaimedOnce, BooksFinite, Amounts, bookVars

(* A new bet takes the next id, which no stake has. *)
LEMMA CreateBetInv ==
  ASSUME IInv, NEW sender \in Accounts, NEW options \in OptionSets,
         NEW end \in EndTimes, CreateBet(sender, options, end)
  PROVE  IInv'
<1> USE DaoBetsAssumption
<1> DEFINE id  == nextBetId
           bet == [end_bet_timestamp |-> end,
                   current_bet_amounts |-> [o \in options |-> 0],
                   result_option |-> NoResult, cancelled |-> FALSE,
                   num_players |-> 0]
<1>1. /\ id \in Nat /\ id > 0 /\ nextBetId' = id + 1
      /\ UNCHANGED <<finished, bets, claims, ownerVars, totalsSpent, now>>
  BY DEF CreateBet, IInv, TypeOK
<1>2. bet \in BetType(options) /\ options \in SUBSET Titles /\ IsFiniteSet(options)
  BY DEF BetType
<1>3. /\ DOMAIN unfinished' = DOMAIN unfinished \cup {id}
      /\ unfinished'[id] = bet
      /\ \A b \in DOMAIN unfinished : b # id => unfinished'[b] = unfinished[b]
  BY DEF CreateBet, Save, SaveAll
<1>4. id \notin DOMAIN unfinished /\ id \notin DOMAIN finished
  BY <1>1 DEF IInv, BetsPartition
<1>5. /\ bet.result_option = NoResult /\ ~bet.cancelled
      /\ DOMAIN bet.current_bet_amounts = options
  OBVIOUS
<1> HIDE DEF bet
<1>6. TypeOK'
  BY <1>1, <1>2, <1>3 DEF IInv, TypeOK, ownerVars
<1>7. BetsPartition'
  <2>1. DOMAIN unfinished' \cup DOMAIN finished' = 1..(nextBetId' - 1)
    BY <1>1, <1>3 DEF IInv, BetsPartition
  <2> QED
    BY <1>1, <1>3, <1>4, <1>5, <2>1 DEF IInv, BetsPartition
<1>8. \A b \in DOMAIN unfinished \cup DOMAIN finished : Amounts(b)' = Amounts(b)
  BY <1>1, <1>3, <1>4 DEF Amounts, BetInfoOf
<1>9. StakesWithinPots'
  <2> SUFFICES ASSUME NEW k \in DOMAIN bets
               PROVE  /\ 0 < k[1] /\ k[1] < nextBetId'
                      /\ bets[k].option \in DOMAIN Amounts(k[1])'
                      /\ 0 < bets[k].amount
                      /\ bets[k].amount <= Amounts(k[1])'[bets[k].option]
    BY <1>1 DEF StakesWithinPots, Amounts
  <2> QED
    BY <1>1, <1>8, StakeFacts, BetFacts
<1>10. ClaimedOnce' /\ NoOwnerNoTransfer'
  BY <1>1 DEF IInv, ClaimedOnce, NoOwnerNoTransfer, ownerVars
<1>11. BooksFinite'
  <2>1. \A b \in {id} : DOMAIN Amounts(b)' = options
    BY <1>3, <1>5 DEF Amounts, BetInfoOf
  <2> QED
    BY <1>1, <1>2, <1>3, <1>8, <2>1 DEF IInv, BooksFinite
<1> QED
  BY <1>6, <1>7, <1>9, <1>10, <1>11 DEF IInv

(* Moving a deadline changes nothing the invariant depends on. *)
LEMMA ModifyBetInv ==
  ASSUME IInv, NEW sender \in Accounts, NEW id \in Nat, NEW end \in EndTimes,
         ModifyBet(sender, id, end)
  PROVE  IInv'
<1> USE DaoBetsAssumption
<1>1. /\ id \in DOMAIN unfinished
      /\ UNCHANGED <<nextBetId, finished, bets, claims, ownerVars, totalsSpent, now>>
  BY DEF ModifyBet
<1> DEFINE bet == [unfinished[id] EXCEPT !.end_bet_timestamp = end]
<1>2. PICK options \in SUBSET Titles : unfinished[id] \in BetType(options)
  BY <1>1 DEF IInv, TypeOK
<1>3. /\ bet \in BetType(options)
      /\ bet.current_bet_amounts = unfinished[id].current_bet_amounts
      /\ bet.result_option = unfinished[id].result_option
      /\ bet.cancelled = unfinished[id].cancelled
  BY <1>2 DEF BetType
<1>4. /\ DOMAIN unfinished' = DOMAIN unfinished
      /\ unfinished'[id] = bet
      /\ \A b \in DOMAIN unfinished : b # id => unfinished'[b] = unfinished[b]
  BY <1>1 DEF ModifyBet
<1> HIDE DEF bet
<1>5. TypeOK'
  BY <1>1, <1>3, <1>4 DEF IInv, TypeOK, ownerVars
<1>6. BetsPartition'
  BY <1>1, <1>3, <1>4 DEF IInv, BetsPartition
<1>7. \A b \in DOMAIN unfinished \cup DOMAIN finished : Amounts(b)' = Amounts(b)
  BY <1>1, <1>3, <1>4 DEF Amounts, BetInfoOf
<1>8. StakesWithinPots'
  <2> SUFFICES ASSUME NEW k \in DOMAIN bets
               PROVE  /\ 0 < k[1] /\ k[1] < nextBetId
                      /\ bets[k].option \in DOMAIN Amounts(k[1])'
                      /\ 0 < bets[k].amount
                      /\ bets[k].amount <= Amounts(k[1])'[bets[k].option]
    BY <1>1 DEF StakesWithinPots, Amounts
  <2> QED
    BY <1>7, StakeFacts, BetFacts
<1>9. ClaimedOnce' /\ NoOwnerNoTransfer'
  BY <1>1 DEF IInv, ClaimedOnce, NoOwnerNoTransfer, ownerVars
<1>10. BooksFinite'
  BY <1>1, <1>4, <1>7 DEF IInv, BooksFinite
<1> QED
  BY <1>5, <1>6, <1>8, <1>9, <1>10 DEF IInv

(* What completing and cancelling have in common: a bet is finished with   *)
(* the amounts it had, and with one verdict.                               *)
Finishes(id) ==
  /\ id \in DOMAIN unfinished /\ id \notin DOMAIN finished
  /\ DOMAIN unfinished' = DOMAIN unfinished \ {id}
  /\ DOMAIN finished' = DOMAIN finished \cup {id}
  /\ \A b \in DOMAIN unfinished : b # id => unfinished'[b] = unfinished[b]
  /\ \A b \in DOMAIN finished : finished'[b] = finished[b]
  /\ \E options \in SUBSET Titles : finished'[id] \in BetType(options)
  /\ finished'[id].current_bet_amounts = unfinished[id].current_bet_amounts
  /\ finished'[id].cancelled = (finished'[id].result_option = NoResult)
  /\ UNCHANGED <<nextBetId, bets, claims, config, owner, pendingOwner,
                 totalsSpent, now, vault, purse>>

(* A bet is finished with its amounts and with one verdict, whatever the   *)
(* verdict is ...                                                          *)
LEMMA FinishFacts ==
  ASSUME IInv, NEW sender, NEW id \in DOMAIN unfinished, NEW bet,
         Finish(sender, id, bet),
         \E options \in SUBSET Titles : bet \in BetType(options),
         bet.current_bet_amounts = unfinished[id].current_bet_amounts,
         bet.cancelled = (bet.result_option = NoResult)
  PROVE  Finishes(id)
<1>1. id \notin DOMAIN finished
  BY DEF IInv, BetsPartition
<1>2. /\ DOMAIN finished' = DOMAIN finished \cup {id}
      /\ finished'[id] = bet
      /\ \A b \in DOMAIN finished : b # id => finished'[b] = finished[b]
      /\ DOMAIN unfinished' = DOMAIN unfinished \ {id}
      /\ \A b \in DOMAIN unfinished : b # id => unfinished'[b] = unfinished[b]
      /\ UNCHANGED <<nextBetId, bets, claims, config, owner, pendingOwner,
                     totalsSpent, now, vault, purse>>
  BY DEF Finish, StillUnfinished, Remove, Save, SaveAll, bankVars, ownerVars
<1> QED
  BY <1>1, <1>2 DEF Finishes

(* ... so it is when the owner submits a result, *)
LEMMA CompleteFacts ==
  ASSUME IInv, NEW sender \in Accounts, NEW id \in Nat, NEW result \in Titles,
         CompleteBet(sender, id, result)
  PROVE  Finishes(id)
<1> USE DaoBetsAssumption
<1> DEFINE bet == [unfinished[id] EXCEPT !.result_option = result]
<1>1. id \in DOMAIN unfinished
  BY DEF CompleteBet
<1>2. Finish(sender, id, bet)
  BY DEF CompleteBet
<1>3. PICK options \in SUBSET Titles : unfinished[id] \in BetType(options)
  BY <1>1 DEF IInv, TypeOK
<1>4. ~unfinished[id].cancelled /\ unfinished[id].cancelled \in BOOLEAN
  BY <1>1, <1>3 DEF IInv, BetsPartition, BetType
<1>5. result # NoResult
  OBVIOUS
<1>6. /\ bet \in BetType(options)
      /\ bet.current_bet_amounts = unfinished[id].current_bet_amounts
      /\ bet.cancelled = (bet.result_option = NoResult)
  BY <1>3, <1>4, <1>5 DEF BetType
<1> HIDE DEF bet
<1> QED
  BY <1>1, <1>2, <1>6, FinishFacts

(* ... and when the owner cancels. *)
LEMMA CancelFacts ==
  ASSUME IInv, NEW sender \in Accounts, NEW id \in Nat, CancelBet(sender, id)
  PROVE  Finishes(id)
<1> USE DaoBetsAssumption
<1> DEFINE bet == [unfinished[id] EXCEPT !.cancelled = TRUE]
<1>1. id \in DOMAIN unfinished
  BY DEF CancelBet
<1>2. Finish(sender, id, bet)
  BY DEF CancelBet
<1>3. PICK options \in SUBSET Titles : unfinished[id] \in BetType(options)
  BY <1>1 DEF IInv, TypeOK
<1>4. unfinished[id].result_option = NoResult
  BY <1>1 DEF IInv, BetsPartition
<1>5. /\ bet \in BetType(options)
      /\ bet.current_bet_amounts = unfinished[id].current_bet_amounts
      /\ bet.cancelled = (bet.result_option = NoResult)
  BY <1>3, <1>4 DEF BetType
<1> HIDE DEF bet
<1> QED
  BY <1>1, <1>2, <1>5, FinishFacts

(* Moving a bet from one map to the other keeps the invariant. *)
LEMMA FinishInv ==
  ASSUME IInv, NEW id \in Nat, Finishes(id)
  PROVE  IInv'
<1> USE DEF Finishes
<1>1. TypeOK'
  <2>1. \A b \in DOMAIN unfinished' :
          b \in Nat /\ \E options \in SUBSET Titles : unfinished'[b] \in BetType(options)
    BY DEF IInv, TypeOK
  <2>2. \A b \in DOMAIN finished' :
          b \in Nat /\ \E options \in SUBSET Titles : finished'[b] \in BetType(options)
    BY DEF IInv, TypeOK
  <2> QED
    BY <2>1, <2>2 DEF IInv, TypeOK
<1>2. BetsPartition'
  <2>1. DOMAIN unfinished' \cup DOMAIN finished' = 1..(nextBetId' - 1)
    BY DEF IInv, BetsPartition
  <2>2. DOMAIN unfinished' \cap DOMAIN finished' = {}
    BY DEF IInv, BetsPartition
  <2>3. \A b \in DOMAIN unfinished' :
          unfinished'[b].result_option = NoResult /\ ~unfinished'[b].cancelled
    BY DEF IInv, BetsPartition
  <2>4. \A b \in DOMAIN finished' :
          finished'[b].cancelled = (finished'[b].result_option = NoResult)
    <3> TAKE b \in DOMAIN finished'
    <3>1. CASE b = id
      BY <3>1
    <3>2. CASE b # id
      <4>1. b \in DOMAIN finished /\ finished'[b] = finished[b]
        BY <3>2
      <4>2. finished[b].cancelled = (finished[b].result_option = NoResult)
        BY <4>1 DEF IInv, BetsPartition
      <4> QED
        BY <4>1, <4>2
    <3> QED
      BY <3>1, <3>2
  <2> QED
    BY <2>1, <2>2, <2>3, <2>4 DEF BetsPartition
<1>3. \A b \in DOMAIN unfinished \cup DOMAIN finished : Amounts(b)' = Amounts(b)
  BY DEF Amounts, BetInfoOf, IInv, BetsPartition
<1>4. StakesWithinPots'
  <2> SUFFICES ASSUME NEW k \in DOMAIN bets
               PROVE  /\ 0 < k[1] /\ k[1] < nextBetId
                      /\ bets[k].option \in DOMAIN Amounts(k[1])'
                      /\ 0 < bets[k].amount
                      /\ bets[k].amount <= Amounts(k[1])'[bets[k].option]
    BY DEF StakesWithinPots, Amounts
  <2> QED
    BY <1>3, StakeFacts, BetFacts
<1>5. ClaimedOnce' /\ NoOwnerNoTransfer'
  BY DEF IInv, ClaimedOnce, NoOwnerNoTransfer
<1>6. BooksFinite'
  BY <1>3 DEF IInv, BooksFinite
<1> QED
  BY <1>1, <1>2, <1>4, <1>5, <1>6 DEF IInv

(* A bet only changes the entry of its player, which grows with the amount *)
(* of its option.                                                          *)
BetsOn(p, id, option, amount, token) ==
  LET key == <<id, p>>
  IN  /\ id \in DOMAIN unfinished
      /\ DOMAIN unfinished' = DOMAIN unfinished
      /\ \A b \in DOMAIN unfinished : b # id => unfinished'[b] = unfinished[b]
      /\ unfinished'[id].end_bet_timestamp = unfinished[id].end_bet_timestamp
      /\ unfinished'[id].result_option = unfinished[id].result_option
      /\ unfinished'[id].cancelled = unfinished[id].cancelled
      /\ unfinished'[id].num_players =
           unfinished[id].num_players + (IF key \in DOMAIN bets THEN 0 ELSE 1)
      /\ option \in DOMAIN unfinished[id].current_bet_amounts
      /\ DOMAIN unfinished'[id].current_bet_amounts =
           DOMAIN unfinished[id].current_bet_amounts
      /\ unfinished'[id].current_bet_amounts[option] =
           unfinished[id].current_bet_amounts[option] + amount
      /\ \A o \in DOMAIN unfinished[id].current_bet_amounts :
           o # option => unfinished'[id].current_bet_amounts[o] =
                           unfinished[id].current_bet_amounts[o]
      /\ \E options \in SUBSET Titles : unfinished'[id] \in BetType(options)
      /\ DOMAIN bets' = DOMAIN bets \cup {key}
      /\ \A k \in DOMAIN bets : k # key => bets'[k] = bets[k]
      /\ bets' \in [DOMAIN bets' -> BetInfos]
      /\ bets'[key].option = option
      /\ key \in DOMAIN bets => /\ bets[key].option = option
                                /\ bets'[key].amount = bets[key].amount + amount
      /\ key \notin DOMAIN bets => bets'[key].amount = amount
      /\ DOMAIN totalsSpent' = DOMAIN totalsSpent \cup {p}
      /\ totalsSpent' \in [DOMAIN totalsSpent' -> Nat]
      /\ vault' = [vault EXCEPT ![token] = @ + amount]
      /\ token = config.token_denom
      /\ now <= unfinished[id].end_bet_timestamp
      /\ UNCHANGED <<nextBetId, finished, claims, config, owner, pendingOwner, now>>

(* A bet message that succeeds does that: the option it names is the one   *)
(* of an earlier stake of the player.                                      *)
LEMMA BetOnFacts ==
  ASSUME IInv, NEW p \in Players, NEW id \in Nat, NEW option \in Titles,
         NEW amount \in Stakes, NEW token \in Tokens,
         BetOn(p, id, option, amount, token)
  PROVE  BetsOn(p, id, option, amount, token)
<1> USE DaoBetsAssumption
<1> DEFINE key == <<id, p>>
           bet == AddStake(unfinished[id], key, option, amount)
<1>1. /\ id \in DOMAIN unfinished
      /\ option \in DOMAIN unfinished[id].current_bet_amounts
      /\ amount \in Nat
  BY DEF BetOn
<1>2. PICK options \in SUBSET Titles : unfinished[id] \in BetType(options)
  BY <1>1 DEF IInv, TypeOK
<1> DEFINE amounts == [unfinished[id].current_bet_amounts EXCEPT ![option] = @ + amount]
<1>3. /\ unfinished[id].current_bet_amounts \in [options -> Nat]
      /\ option \in options
      /\ amounts \in [options -> Nat]
      /\ amounts[option] = unfinished[id].current_bet_amounts[option] + amount
      /\ \A o \in options :
           o # option => amounts[o] = unfinished[id].current_bet_amounts[o]
  BY <1>1, <1>2 DEF BetType
<1> DEFINE players == unfinished[id].num_players + (IF key \in DOMAIN bets THEN 0 ELSE 1)
<1>4. players \in Nat
  BY <1>2 DEF BetType
<1>5. /\ bet.current_bet_amounts = amounts
      /\ bet.num_players = players
      /\ bet.end_bet_timestamp = unfinished[id].end_bet_timestamp
      /\ bet.result_option = unfinished[id].result_option
      /\ bet.cancelled = unfinished[id].cancelled
  <2>1. bet.current_bet_amounts = amounts
    BY <1>2 DEF AddStake, BetType
  <2>2. bet.num_players = players
    BY <1>2 DEF AddStake, BetType
  <2>3. /\ bet.end_bet_timestamp = unfinished[id].end_bet_timestamp
        /\ bet.result_option = unfinished[id].result_option
        /\ bet.cancelled = unfinished[id].cancelled
    BY <1>2 DEF AddStake, BetType
  <2> QED
    BY <2>1, <2>2, <2>3
<1>6. bet \in BetType(options)
  <2>1. DOMAIN bet = DOMAIN unfinished[id]
    BY DEF AddStake
  <2> HIDE DEF amounts, players
  <2> QED
    BY <1>2, <1>3, <1>4, <1>5, <2>1 DEF BetType, AddStake
<1> HIDE DEF amounts, players
<1> HIDE DEF bet
<1>7. unfinished' = Save(unfinished, id, bet)
  BY DEF BetOn, bet
<1>8. /\ DOMAIN unfinished' = DOMAIN unfinished
      /\ \A b \in DOMAIN unfinished : b # id => unfinished'[b] = unfinished[b]
      /\ unfinished'[id] = bet
  <2>1. /\ DOMAIN unfinished' = DOMAIN unfinished \cup {id}
        /\ \A b \in DOMAIN unfinished : b # id => unfinished'[b] = unfinished[b]
        /\ unfinished'[id] = bet
    BY <1>7 DEF Save, SaveAll
  <2>2. DOMAIN unfinished \cup {id} = DOMAIN unfinished
    BY <1>1
  <2> QED
    BY <2>1, <2>2, Zenon
<1> DEFINE stake == [amount |-> StakeWith(key, amount), option |-> option]
<1>9. /\ key \in DOMAIN bets =>
            /\ bets[key].option = option /\ bets[key].amount \in Nat
            /\ StakeWith(key, amount) = bets[key].amount + amount
      /\ key \notin DOMAIN bets => StakeWith(key, amount) = amount
  BY StakeFacts DEF BetOn, SameOption, StakeWith
<1>10. stake \in BetInfos /\ stake.option = option /\ stake.amount = StakeWith(key, amount)
  BY <1>1, <1>9 DEF BetInfos
<1> HIDE DEF stake
<1>11. /\ DOMAIN bets' = DOMAIN bets \cup {key}
       /\ \A k \in DOMAIN bets : k # key => bets'[k] = bets[k]
       /\ bets'[key] = stake
       /\ bets' \in [DOMAIN bets' -> BetInfos]
  <2>1. bets' = Save(bets, key, stake)
    BY DEF BetOn, stake
  <2> QED
    BY <1>10, <2>1 DEF IInv, TypeOK, Save, SaveAll
<1>12. /\ DOMAIN totalsSpent' = DOMAIN totalsSpent \cup {p}
       /\ totalsSpent' \in [DOMAIN totalsSpent' -> Nat]
  <2> DEFINE spent == LoadOr(totalsSpent, p, 0) + amount
  <2>1. spent \in Nat
    BY <1>1 DEF IInv, TypeOK, LoadOr
  <2> HIDE DEF spent
  <2>2. totalsSpent' = Save(totalsSpent, p, spent)
    BY DEF BetOn, spent
  <2> QED
    BY <2>1, <2>2 DEF IInv, TypeOK, Save, SaveAll
<1>13. /\ vault' = [vault EXCEPT ![token] = @ + amount]
       /\ token = config.token_denom
       /\ now <= unfinished[id].end_bet_timestamp
       /\ UNCHANGED <<nextBetId, finished, claims, config, owner, pendingOwner, now>>
  BY DEF BetOn, BettingOpen, ownerVars
<1>14. /\ unfinished'[id].num_players =
            unfinished[id].num_players + (IF key \in DOMAIN bets THEN 0 ELSE 1)
       /\ DOMAIN unfinished'[id].current_bet_amounts =
            DOMAIN unfinished[id].current_bet_amounts
       /\ unfinished'[id].current_bet_amounts[option] =
            unfinished[id].current_bet_amounts[option] + amount
       /\ \A o \in DOMAIN unfinished[id].current_bet_amounts :
            o # option => unfinished'[id].current_bet_amounts[o] =
                            unfinished[id].current_bet_amounts[o]
  BY <1>3, <1>5, <1>8 DEF players
<1>15. /\ unfinished'[id].end_bet_timestamp = unfinished[id].end_bet_timestamp
       /\ unfinished'[id].result_option = unfinished[id].result_option
       /\ unfinished'[id].cancelled = unfinished[id].cancelled
       /\ \E opts \in SUBSET Titles : unfinished'[id] \in BetType(opts)
  BY <1>5, <1>6, <1>8
<1>16. /\ bets'[key].option = option
       /\ key \in DOMAIN bets => /\ bets[key].option = option
                                 /\ bets'[key].amount = bets[key].amount + amount
       /\ key \notin DOMAIN bets => bets'[key].amount = amount
  BY <1>9, <1>10, <1>11
<1> QED
  BY <1>1, <1>8, <1>11, <1>12, <1>13, <1>14, <1>15, <1>16 DEF BetsOn

(* A stake grows with the amount of its option, so it stays covered. *)
LEMMA BetOnInv ==
  ASSUME IInv, NEW p \in Players, NEW id \in Nat, NEW option \in Titles,
         NEW amount \in Stakes, NEW token \in Tokens,
         BetsOn(p, id, option, amount, token)
  PROVE  IInv'
<1> USE DaoBetsAssumption
<1> DEFINE key == <<id, p>>
<1> USE DEF BetsOn
<1>1. amount \in Nat /\ amount > 0
  OBVIOUS
<1>2. id \notin DOMAIN finished /\ id > 0 /\ id < nextBetId /\ nextBetId \in Nat
  BY DEF IInv, TypeOK, BetsPartition
<1>3. TypeOK'
  <2>1. \A b \in DOMAIN unfinished' :
          b \in Nat /\ \E options \in SUBSET Titles : unfinished'[b] \in BetType(options)
    BY DEF IInv, TypeOK
  <2>2. DOMAIN bets' \subseteq Nat \X Players /\ bets' \in [DOMAIN bets' -> BetInfos]
    BY DEF IInv, TypeOK
  <2> QED
    BY <2>1, <2>2 DEF IInv, TypeOK
<1>4. BetsPartition'
  <2>1. \A b \in DOMAIN unfinished' :
          unfinished'[b].result_option = NoResult /\ ~unfinished'[b].cancelled
    BY DEF IInv, BetsPartition
  <2> QED
    BY <2>1 DEF IInv, BetsPartition
<1>5. \A b \in DOMAIN unfinished \cup DOMAIN finished :
        /\ DOMAIN Amounts(b)' = DOMAIN Amounts(b)
        /\ b # id => Amounts(b)' = Amounts(b)
  BY DEF Amounts, BetInfoOf
<1>6. StakesWithinPots'
  <2> SUFFICES ASSUME NEW k \in DOMAIN bets'
               PROVE  /\ 0 < k[1] /\ k[1] < nextBetId
                      /\ bets'[k].option \in DOMAIN Amounts(k[1])'
                      /\ 0 < bets'[k].amount
                      /\ bets'[k].amount <= Amounts(k[1])'[bets'[k].option]
    BY DEF StakesWithinPots, Amounts
  <2>1. CASE k = key
    <3>1. /\ Amounts(k[1])' = unfinished'[id].current_bet_amounts
          /\ Amounts(k[1]) = unfinished[id].current_bet_amounts
      BY <1>2, <2>1 DEF Amounts, BetInfoOf
    <3>2. Amounts(k[1])[option] \in Nat
      BY <2>1, <3>1, BetFacts
    <3>3. key \in DOMAIN bets => /\ bets[key].amount <= Amounts(k[1])[option]
                                 /\ bets[key].amount \in Nat /\ bets[key].amount > 0
      BY <2>1, StakeFacts
    <3>4. Amounts(k[1])'[option] = Amounts(k[1])[option] + amount
      BY <3>1
    <3>5. /\ bets'[k].option = option
          /\ key \in DOMAIN bets => bets'[k].amount = bets[key].amount + amount
          /\ key \notin DOMAIN bets => bets'[k].amount = amount
      BY <2>1
    <3> QED
      BY <1>1, <1>2, <2>1, <3>1, <3>2, <3>3, <3>4, <3>5
  <2>2. CASE k # key
    <3>1. k \in DOMAIN bets /\ bets'[k] = bets[k]
      BY <2>2
    <3>2. /\ k[1] \in DOMAIN unfinished \cup DOMAIN finished
          /\ bets[k].amount \in Nat /\ bets[k].amount > 0
          /\ bets[k].option \in DOMAIN Amounts(k[1])
          /\ bets[k].amount <= Amounts(k[1])[bets[k].option]
          /\ Amounts(k[1])[bets[k].option] \in Nat
          /\ k[1] > 0 /\ k[1] < nextBetId
      BY <3>1, StakeFacts, BetFacts
    <3>3. Amounts(k[1])'[bets[k].option] >= Amounts(k[1])[bets[k].option]
      <4>1. CASE k[1] = id
        <5>1. /\ Amounts(k[1])' = unfinished'[id].current_bet_amounts
              /\ Amounts(k[1]) = unfinished[id].current_bet_amounts
          BY <1>2, <4>1 DEF Amounts, BetInfoOf
        <5> QED
          BY <1>1, <3>2, <5>1
      <4> QED
        BY <1>5, <3>2, <4>1
    <3>4. Amounts(k[1])'[bets[k].option] \in Int
      <4>1. CASE k[1] = id
        <5>1. /\ Amounts(k[1])' = unfinished'[id].current_bet_amounts
              /\ Amounts(k[1]) = unfinished[id].current_bet_amounts
          BY <1>2, <4>1 DEF Amounts, BetInfoOf
        <5> QED
          BY <1>1, <3>2, <5>1
      <4> QED
        BY <1>5, <3>2, <4>1
    <3> QED
      BY <1>5, <3>1, <3>2, <3>3, <3>4
  <2> QED
    BY <2>1, <2>2
<1>7. ClaimedOnce'
  BY <1>2 DEF IInv, ClaimedOnce
<1>8. BooksFinite' /\ NoOwnerNoTransfer'
  <2>1. IsFiniteSet(DOMAIN bets')
    BY FS_AddElement DEF IInv, BooksFinite
  <2> QED
    BY <1>5, <2>1 DEF IInv, BooksFinite, NoOwnerNoTransfer
<1> QED
  BY <1>3, <1>4, <1>6, <1>7, <1>8 DEF IInv

(* The stakes a claim may be about *)
FinishedKeys == {k \in DOMAIN bets : k[1] \in DOMAIN finished}

(* What any of them are owed in all is a natural number. *)
LEMMA SumOwedType ==
  ASSUME IInv, NEW keys \in SUBSET FinishedKeys
  PROVE  IsFiniteSet(keys) /\ SumOwed(keys) \in Nat
<1>1. IsFiniteSet(keys)
  BY FS_Subset DEF IInv, BooksFinite, FinishedKeys
<1> DEFINE owed == [k \in keys |-> Owed(k)]
<1>2. \A k \in keys : owed[k] \in Nat
  BY OwedType DEF FinishedKeys
<1>3. DOMAIN owed = keys /\ SumOwed(keys) = SumFunctionOnSet(owed, DOMAIN owed)
  BY DEF SumOwed, SumFunction
<1> HIDE DEF owed
<1> QED
  BY <1>1, <1>2, <1>3, SumType

(* What both claims do with the stakes they are about: those stakes go,    *)
(* and what the winning ones are owed is recorded as claimed.              *)
Claims(p, keys) ==
  /\ keys \subseteq FinishedKeys /\ \A k \in keys : k[2] = p
  /\ DOMAIN bets' = DOMAIN bets \ keys
  /\ \A k \in DOMAIN bets' : bets'[k] = bets[k]
  /\ bets' \in [DOMAIN bets' -> BetInfos]
  /\ DOMAIN claims' = DOMAIN claims \cup {k \in keys : Won(k)}
  /\ claims' \in [DOMAIN claims' -> Nat]
  /\ \A k \in keys : Won(k) => claims'[k] = Owed(k)
  /\ \A k \in DOMAIN claims \ keys : claims'[k] = claims[k]
  /\ UNCHANGED <<nextBetId, unfinished, finished, config, owner, pendingOwner,
                 totalsSpent, now>>

(* The common end of the two claims does that, whatever fee is charged. *)
LEMMA PayFacts ==
  ASSUME IInv, NEW p \in Players, NEW keys \in SUBSET FinishedBetsOf(p),
         NEW charged \in Nat, Pay(p, keys, charged)
  PROVE  Claims(p, keys)
<1>1. keys \subseteq FinishedKeys /\ \A k \in keys : k[2] = p
  BY DEF FinishedBetsOf, FinishedKeys
<1>2. /\ DOMAIN bets' = DOMAIN bets \ keys
      /\ \A k \in DOMAIN bets' : bets'[k] = bets[k]
      /\ bets' \in [DOMAIN bets' -> BetInfos]
  BY DEF Pay, BetsAfterClaim, Remove, IInv, TypeOK
<1> DEFINE won  == {k \in keys : Won(k)}
           owed == [k \in won |-> Owed(k)]
<1>3. /\ DOMAIN claims' = DOMAIN claims \cup won
      /\ \A k \in won : claims'[k] = Owed(k)
      /\ \A k \in DOMAIN claims \ won : claims'[k] = claims[k]
      /\ claims' \in [DOMAIN claims' -> Nat]
  <2>1. claims' = SaveAll(claims, owed)
    BY DEF Pay
  <2>2. DOMAIN owed = won /\ \A k \in won : owed[k] = Owed(k)
    OBVIOUS
  <2>3. \A k \in won : owed[k] \in Nat
    BY <1>1, <2>2, OwedType DEF FinishedKeys
  <2> HIDE DEF owed
  <2> QED
    BY <2>1, <2>2, <2>3 DEF SaveAll, IInv, TypeOK
<1>4. UNCHANGED <<nextBetId, unfinished, finished, config, owner, pendingOwner,
                  totalsSpent, now>>
  BY DEF Pay, ownerVars
<1> QED
  BY <1>1, <1>2, <1>3, <1>4 DEF Claims

(* Both claims are a payment for finished bets of the claimer. *)
LEMMA CollectIsPay ==
  ASSUME IInv, NEW p \in Players, CollectWinnings(p)
  PROVE  \E charged \in Nat : Pay(p, FinishedBetsOf(p), charged)
<1> DEFINE keys    == FinishedBetsOf(p)
           charged == IF SumOwed({k \in keys : ~BetOf(k).cancelled}) > 0
                      THEN SumOwed(keys) ELSE 0
<1>1. keys \in SUBSET FinishedKeys
  BY DEF FinishedBetsOf, FinishedKeys
<1>2. charged \in Nat
  BY <1>1, SumOwedType
<1>3. Pay(p, keys, charged)
  BY DEF CollectWinnings
<1> HIDE DEF charged
<1> QED
  BY <1>2, <1>3

(* The claim of one bet. *)
LEMMA CollectBetIsPay ==
  ASSUME IInv, NEW p \in Players, NEW id, CollectWinningsBet(p, id)
  PROVE  /\ <<id, p>> \in FinishedBetsOf(p)
         /\ \E charged \in Nat : Pay(p, {<<id, p>>}, charged)
<1> DEFINE key     == <<id, p>>
           charged == IF BetOf(key).cancelled THEN 0 ELSE Owed(key)
<1>1. key \in DOMAIN bets /\ key[1] \in DOMAIN finished /\ key \in FinishedBetsOf(p)
  BY DEF CollectWinningsBet, FinishedBetsOf
<1>2. charged \in Nat
  BY <1>1, OwedType
<1>3. Pay(p, {key}, charged)
  BY DEF CollectWinningsBet
<1> HIDE DEF charged, key
<1> QED
  BY <1>1, <1>2, <1>3 DEF key

(* Either claim. *)
LEMMA ClaimIsPay ==
  ASSUME IInv, NEW p \in Players, Claim(p)
  PROVE  \E keys \in SUBSET FinishedBetsOf(p), charged \in Nat : Pay(p, keys, charged)
<1>1. CASE CollectWinnings(p)
  BY <1>1, CollectIsPay
<1>2. CASE \E id \in 1..MaxBets : CollectWinningsBet(p, id)
  BY <1>2, CollectBetIsPay
<1> QED
  BY <1>1, <1>2 DEF Claim

(* A claim keeps the invariant: it is about finished bets only, it takes   *)
(* away what it pays for, and a winner's share is not nothing.             *)
LEMMA ClaimInv ==
  ASSUME IInv, NEW p \in Players, NEW keys, Claims(p, keys)
  PROVE  IInv'
<1> USE DEF Claims
<1>1. keys \in SUBSET FinishedKeys /\ keys \in SUBSET DOMAIN bets
  BY DEF FinishedKeys
<1>2. \A k \in keys : /\ k \in Nat \X Players /\ k[1] \in DOMAIN finished
                      /\ Owed(k) \in Nat /\ (Won(k) => Owed(k) > 0)
  BY <1>1, OwedType DEF FinishedKeys, IInv, TypeOK
<1>3. /\ DOMAIN claims' \subseteq Nat \X Players
      /\ \A k \in DOMAIN claims' : claims'[k] \in Nat /\ claims'[k] > 0
  <2> SUFFICES ASSUME NEW k \in DOMAIN claims'
               PROVE  k \in Nat \X Players /\ claims'[k] \in Nat /\ claims'[k] > 0
    OBVIOUS
  <2>1. CASE k \in keys /\ Won(k)
    BY <1>2, <2>1
  <2>2. CASE k \notin keys
    BY <2>2 DEF IInv, TypeOK, ClaimedOnce
  <2>3. k \in keys => k \notin DOMAIN claims
    BY <1>1 DEF IInv, ClaimedOnce
  <2> QED
    BY <2>1, <2>2, <2>3
<1>4. TypeOK'
  BY <1>3 DEF IInv, TypeOK
<1>5. BetsPartition' /\ NoOwnerNoTransfer'
  BY DEF IInv, BetsPartition, NoOwnerNoTransfer
<1>6. StakesWithinPots'
  BY DEF IInv, StakesWithinPots, BetInfoOf
<1>7. ClaimedOnce'
  <2> SUFFICES ASSUME NEW k \in DOMAIN claims'
               PROVE  k \notin DOMAIN bets' /\ k[1] \in DOMAIN finished /\ claims'[k] > 0
    BY DEF ClaimedOnce
  <2>1. CASE k \in keys
    BY <1>2, <1>3, <2>1
  <2>2. CASE k \notin keys
    BY <1>3, <2>2 DEF IInv, ClaimedOnce
  <2> QED
    BY <2>1, <2>2
<1>8. BooksFinite'
  <2>1. IsFiniteSet({k \in keys : Won(k)}) /\ IsFiniteSet(DOMAIN bets')
    BY <1>1, FS_Subset DEF IInv, BooksFinite
  <2> DEFINE won == {k \in keys : Won(k)}
  <2>2. IsFiniteSet(DOMAIN claims')
    <3>1. IsFiniteSet(won) /\ IsFiniteSet(DOMAIN claims)
      BY <2>1 DEF IInv, BooksFinite
    <3>2. DOMAIN claims' = DOMAIN claims \cup won
      OBVIOUS
    <3> HIDE DEF won, Claims
    <3>3. IsFiniteSet(DOMAIN claims \cup won)
      BY <3>1, FS_Union
    <3> QED
      BY <3>2, <3>3, Zenon
  <2> QED
    BY <2>1, <2>2 DEF IInv, BooksFinite, Amounts, BetInfoOf
<1> QED
  BY <1>4, <1>5, <1>6, <1>7, <1>8 DEF IInv

(* Every step of the contract and of its environment keeps it. *)
THEOREM NextInv == IInv /\ [Next]_vars => IInv'
<1> SUFFICES ASSUME IInv, [Next]_vars PROVE IInv'
  OBVIOUS
<1> USE DaoBetsAssumption
<1>1. CASE PlaceBet
  <2>1. PICK p \in Players, id \in 1..MaxBets, option \in Titles, amount \in Stakes,
             token \in Tokens : BetOn(p, id, option, amount, token)
    BY <1>1 DEF PlaceBet
  <2> QED
    BY <2>1, BetOnFacts, BetOnInv
<1>2. ASSUME NEW sender \in Accounts, ManageBets(sender) PROVE IInv'
  <2>1. CASE \E options \in OptionSets, end \in EndTimes : CreateBet(sender, options, end)
    BY <2>1, CreateBetInv
  <2>2. ASSUME NEW id \in 1..MaxBets, NEW end \in EndTimes, ModifyBet(sender, id, end)
        PROVE  IInv'
    BY <2>2, ModifyBetInv
  <2>3. ASSUME NEW id \in 1..MaxBets, NEW result \in Titles,
               CompleteBet(sender, id, result)
        PROVE  IInv'
    BY <2>3, CompleteFacts, FinishInv
  <2>4. ASSUME NEW id \in 1..MaxBets, CancelBet(sender, id)
        PROVE  IInv'
    BY <2>4, CancelFacts, FinishInv
  <2> QED
    BY <1>2, <2>1, <2>2, <2>3, <2>4 DEF ManageBets
<1>3. ASSUME NEW sender \in Accounts, ManageContract(sender) PROVE IInv'
  BY <1>3, ContractInv
<1>4. ASSUME NEW p \in Players, Claim(p) PROVE IInv'
  BY <1>4, ClaimIsPay, PayFacts, ClaimInv
<1>5. CASE ChangeRegistry
  BY <1>5, QuietInv DEF ChangeRegistry, IInv, TypeOK
<1>6. CASE Tick
  BY <1>6, QuietInv DEF Tick, IInv, TypeOK
<1>7. CASE UNCHANGED vars
  BY <1>7, QuietInv DEF vars, IInv, TypeOK
<1> QED
  BY <1>1, <1>2, <1>3, <1>4, <1>5, <1>6, <1>7 DEF Next

(* The strengthened invariant holds in every behaviour of the contract. *)
THEOREM Invariance == Spec => []IInv
<1> QED
  BY InitInv, NextInv, PTL DEF Spec

(* Its parts, as the runs check them.  Every item of the storage has its   *)
(* declared type.                                                          *)
THEOREM TypesHold == Spec => []TypeOK
<1>1. IInv => TypeOK
  BY DEF IInv
<1> QED
  BY <1>1, Invariance, PTL

(* A bet is stored once, and has a verdict exactly when it is finished. *)
THEOREM BetsArePartitioned == Spec => []BetsPartition
<1>1. IInv => BetsPartition
  BY DEF IInv
<1> QED
  BY <1>1, Invariance, PTL

(* The amount a winner's share is divided by covers the share's stake, so  *)
(* it is not zero.                                                         *)
THEOREM StakesAreCovered == Spec => []StakesWithinPots
<1>1. IInv => StakesWithinPots
  BY DEF IInv
<1> QED
  BY <1>1, Invariance, PTL

(* No stake is paid twice, by one of the two messages or by both. *)
THEOREM ClaimsAreOnce == Spec => []ClaimedOnce
<1>1. IInv => ClaimedOnce
  BY DEF IInv
<1> QED
  BY <1>1, Invariance, PTL

----------------------------------------------------------------------------
(* The amounts of the options and the stored stakes *)

StakeOf == [k \in DOMAIN bets |-> bets[k].amount]

(* The stakes on one option of one bet, and those on the bet *)
StakesOn(b, o)  == {k \in DOMAIN bets : k[1] = b /\ bets[k].option = o}
StakesOnBet(b)  == {k \in DOMAIN bets : k[1] = b}

(* Any set of stored stakes is finite and has a sum. *)
LEMMA SumStakesIsSum ==
  ASSUME IInv, NEW keys \in SUBSET DOMAIN bets
  PROVE  /\ IsFiniteSet(keys)
         /\ \A k \in keys : StakeOf[k] \in Nat
         /\ SumStakes(keys) = SumFunctionOnSet(StakeOf, keys)
         /\ SumStakes(keys) \in Nat
<1>1. IsFiniteSet(keys)
  BY FS_Subset DEF IInv, BooksFinite
<1>2. \A k \in DOMAIN bets : StakeOf[k] = bets[k].amount /\ StakeOf[k] \in Nat
  BY StakeFacts DEF StakeOf
<1> DEFINE g == [k \in keys |-> bets[k].amount]
<1>3. SumStakes(keys) = SumFunctionOnSet(g, keys)
  BY DEF SumStakes, SumFunction
<1>4. \A k \in keys : StakeOf[k] \in Nat /\ g[k] = StakeOf[k]
  BY <1>2
<1> HIDE DEF g
<1>5. SumFunctionOnSet(g, keys) = SumFunctionOnSet(StakeOf, keys)
  BY <1>1, <1>4, SumEqual
<1> QED
  BY <1>1, <1>3, <1>4, <1>5, SumType

(* PotsMatchBets, with the stakes summed by one function *)
PotMatches(b) ==
  /\ \A o \in DOMAIN unfinished[b].current_bet_amounts :
       unfinished[b].current_bet_amounts[o] = SumFunctionOnSet(StakeOf, StakesOn(b, o))
  /\ unfinished[b].num_players = Cardinality(StakesOnBet(b))

PotsMatch == \A b \in DOMAIN unfinished : PotMatches(b)

(* The invariant a run checks is the one proved below. *)
LEMMA PotsMatchIsPotMatches == IInv => (PotsMatchBets <=> PotsMatch)
<1> SUFFICES ASSUME IInv PROVE PotsMatchBets <=> PotsMatch
  OBVIOUS
<1>1. \A b, o : SumStakes(StakesOn(b, o)) = SumFunctionOnSet(StakeOf, StakesOn(b, o))
  <2> TAKE b, o
  <2>1. StakesOn(b, o) \subseteq DOMAIN bets
    BY DEF StakesOn
  <2> QED
    BY <2>1, SumStakesIsSum
<1>2. PotsMatchBets <=>
        \A b \in DOMAIN unfinished :
          /\ \A o \in DOMAIN unfinished[b].current_bet_amounts :
               unfinished[b].current_bet_amounts[o] = SumStakes(StakesOn(b, o))
          /\ unfinished[b].num_players = Cardinality(StakesOnBet(b))
  BY DEF PotsMatchBets, StakesOn, StakesOnBet
<1> QED
  BY <1>1, <1>2 DEF PotsMatch, PotMatches

(* A bet adds to one option of one bet what it adds to the stake of one    *)
(* player, and counts a player it had not counted yet.                     *)
LEMMA BetOnPots ==
  ASSUME IInv, PotsMatch,
         NEW p \in Players, NEW id \in Nat, NEW option \in Titles,
         NEW amount \in Stakes, NEW token \in Tokens,
         BetsOn(p, id, option, amount, token)
  PROVE  PotsMatch'
<1> USE DaoBetsAssumption
<1> DEFINE key == <<id, p>>
<1> USE DEF BetsOn
<1>1. amount \in Nat /\ amount > 0 /\ key[1] = id
  OBVIOUS
<1>2. \A k \in DOMAIN bets :
        /\ k # key => StakeOf'[k] = StakeOf[k]
        /\ k # key => bets'[k].option = bets[k].option
  BY DEF StakeOf
<1>3. StakeOf'[key] = IF key \in DOMAIN bets THEN StakeOf[key] + amount ELSE amount
  BY DEF StakeOf
<1> SUFFICES ASSUME NEW b \in DOMAIN unfinished PROVE PotMatches(b)'
  <2>1. DOMAIN unfinished' = DOMAIN unfinished
    OBVIOUS
  <2> HIDE DEF BetsOn
  <2> QED
    BY <2>1 DEF PotsMatch
<1>4. PotMatches(b)
  BY DEF PotsMatch
<1>5. ASSUME NEW o
      PROVE  SumFunctionOnSet(StakeOf, StakesOn(b, o))' =
               IF b = id /\ o = option
               THEN SumFunctionOnSet(StakeOf, StakesOn(b, o)) + amount
               ELSE SumFunctionOnSet(StakeOf, StakesOn(b, o))
  <2> DEFINE S == StakesOn(b, o)
  <2>1. S \subseteq DOMAIN bets
    BY DEF StakesOn
  <2>2. IsFiniteSet(S) /\ \A k \in S : StakeOf[k] \in Nat
    BY <2>1, SumStakesIsSum
  <2>3. CASE b = id /\ o = option
    <3>1. StakesOn(b, o)' = S \cup {key}
      BY <2>3 DEF StakesOn
    <3>2. key \in S <=> key \in DOMAIN bets
      BY <2>3 DEF StakesOn
    <3>3. \A k \in S \ {key} : StakeOf'[k] = StakeOf[k]
      BY <1>2, <2>1
    <3>4. StakeOf'[key] = IF key \in S THEN StakeOf[key] + amount ELSE amount
      BY <1>3, <3>2
    <3> HIDE DEF S, key, BetsOn
    <3>5. SumFunctionOnSet(StakeOf', S \cup {key}) = SumFunctionOnSet(StakeOf, S) + amount
      <4> DEFINE f == StakeOf
                 g == StakeOf'
      <4>1. Raises(f, g, S, key, amount)
        BY <1>1, <2>2, <3>3, <3>4 DEF Raises
      <4> HIDE DEF f, g
      <4>2. SumFunctionOnSet(g, S \cup {key}) = SumFunctionOnSet(f, S) + amount
        BY <4>1, SumUpdate
      <4> QED
        BY <4>2 DEF f, g
    <3> QED
      BY <2>3, <3>1, <3>5 DEF S
  <2>4. CASE ~(b = id /\ o = option)
    <3>1. StakesOn(b, o)' = S
      BY <2>4 DEF StakesOn
    <3>2. \A k \in S : StakeOf'[k] = StakeOf[k]
      BY <1>2, <2>4 DEF StakesOn
    <3> HIDE DEF S, BetsOn, key
    <3>3. SumFunctionOnSet(StakeOf', S) = SumFunctionOnSet(StakeOf, S)
      BY <2>2, <3>2, SumEqual
    <3> QED
      BY <2>4, <3>1, <3>3 DEF S
  <2> QED
    BY <2>3, <2>4
<1>6. \A o \in DOMAIN unfinished'[b].current_bet_amounts :
        unfinished'[b].current_bet_amounts[o] = SumFunctionOnSet(StakeOf, StakesOn(b, o))'
  <2> TAKE o \in DOMAIN unfinished'[b].current_bet_amounts
  <2>1. CASE b = id /\ o = option
    BY <1>4, <1>5, <2>1 DEF PotMatches
  <2>2. CASE ~(b = id /\ o = option)
    BY <1>4, <1>5, <2>2 DEF PotMatches
  <2> QED
    BY <2>1, <2>2
<1>7. unfinished'[b].num_players = Cardinality(StakesOnBet(b))'
  <2> DEFINE S == StakesOnBet(b)
  <2>1. S \subseteq DOMAIN bets
    BY DEF StakesOnBet
  <2>2. IsFiniteSet(S) /\ Cardinality(S) \in Nat
    BY <2>1, SumStakesIsSum, FS_CardinalityType
  <2>3. CASE b = id
    <3>1. StakesOnBet(b)' = S \cup {key}
      BY <2>3 DEF StakesOnBet
    <3>2. key \in S <=> key \in DOMAIN bets
      BY <2>3 DEF StakesOnBet
    <3>3. unfinished'[b].num_players = Cardinality(S) + (IF key \in S THEN 0 ELSE 1)
      BY <1>4, <2>3, <3>2 DEF PotMatches
    <3> HIDE DEF S, key, BetsOn
    <3>4. Cardinality(S \cup {key}) = IF key \in S THEN Cardinality(S) ELSE Cardinality(S) + 1
      BY <2>2, FS_AddElement
    <3> QED
      BY <2>2, <3>1, <3>3, <3>4 DEF S
  <2>4. CASE b # id
    <3>1. StakesOnBet(b)' = S
      BY <2>4 DEF StakesOnBet
    <3> QED
      BY <1>4, <2>4, <3>1 DEF PotMatches
  <2> QED
    BY <2>3, <2>4
<1> QED
  BY <1>6, <1>7 DEF PotMatches

(* A step that keeps the stakes on the bets that remain unfinished, and    *)
(* the amounts of those bets.                                              *)
LEMMA KeepsPots ==
  ASSUME IInv, PotsMatch, DOMAIN unfinished' \subseteq DOMAIN unfinished,
         DOMAIN bets' \subseteq DOMAIN bets,
         \A k \in DOMAIN bets' : bets'[k] = bets[k],
         \A k \in DOMAIN bets : k[1] \in DOMAIN unfinished' => k \in DOMAIN bets',
         \A b \in DOMAIN unfinished' :
           /\ unfinished'[b].current_bet_amounts = unfinished[b].current_bet_amounts
           /\ unfinished'[b].num_players = unfinished[b].num_players
  PROVE  PotsMatch'
<1> SUFFICES ASSUME NEW b \in DOMAIN unfinished' PROVE PotMatches(b)'
  BY Zenon DEF PotsMatch
<1>1. StakesOnBet(b)' = StakesOnBet(b)
  BY DEF StakesOnBet
<1>2. ASSUME NEW o
      PROVE  SumFunctionOnSet(StakeOf, StakesOn(b, o))' =
               SumFunctionOnSet(StakeOf, StakesOn(b, o))
  <2> DEFINE S == StakesOn(b, o)
  <2>1. StakesOn(b, o)' = S /\ S \subseteq DOMAIN bets /\ S \subseteq DOMAIN bets'
    BY DEF StakesOn
  <2>2. \A k \in S : StakeOf'[k] = StakeOf[k]
    BY <2>1 DEF StakeOf
  <2>3. IsFiniteSet(S) /\ \A k \in S : StakeOf[k] \in Nat
    BY <2>1, SumStakesIsSum
  <2> HIDE DEF S
  <2>4. SumFunctionOnSet(StakeOf', S) = SumFunctionOnSet(StakeOf, S)
    BY <2>2, <2>3, SumEqual
  <2> QED
    BY <2>1, <2>4 DEF S
<1>3. PotMatches(b)
  BY DEF PotsMatch
<1> QED
  BY <1>1, <1>2, <1>3 DEF PotMatches

(* A new bet has no stake and no amount. *)
LEMMA CreateBetPots ==
  ASSUME IInv, PotsMatch, NEW sender \in Accounts, NEW options \in OptionSets,
         NEW end \in EndTimes, CreateBet(sender, options, end)
  PROVE  PotsMatch'
<1>1. UNCHANGED bets
  BY DEF CreateBet
<1>2. \A k \in DOMAIN bets : k[1] # nextBetId
  BY StakeFacts, BetFacts
<1> SUFFICES ASSUME NEW b \in DOMAIN unfinished' PROVE PotMatches(b)'
  BY Zenon DEF PotsMatch
<1>3. \A o : SumFunctionOnSet(StakeOf, StakesOn(b, o))' = SumFunctionOnSet(StakeOf, StakesOn(b, o))
  BY <1>1, Zenon DEF StakeOf, StakesOn
<1>4. StakesOnBet(b)' = StakesOnBet(b)
  BY <1>1 DEF StakesOnBet
<1>5. CASE b = nextBetId
  <2>1. /\ unfinished'[b].num_players = 0
        /\ \A o \in DOMAIN unfinished'[b].current_bet_amounts :
             unfinished'[b].current_bet_amounts[o] = 0
    BY <1>5 DEF CreateBet, Save, SaveAll
  <2>2. StakesOnBet(b) = {} /\ \A o : StakesOn(b, o) = {}
    BY <1>2, <1>5 DEF StakesOnBet, StakesOn
  <2>3. \A o : SumFunctionOnSet(StakeOf, StakesOn(b, o)) = 0
    BY <2>2, SumEmpty
  <2>4. Cardinality(StakesOnBet(b)) = 0
    BY <2>2, FS_EmptySet
  <2> QED
    BY <1>3, <1>4, <2>1, <2>3, <2>4 DEF PotMatches
<1>6. CASE b # nextBetId
  <2>1. b \in DOMAIN unfinished /\ unfinished'[b] = unfinished[b]
    BY <1>6 DEF CreateBet, Save, SaveAll
  <2>2. PotMatches(b)
    BY <2>1 DEF PotsMatch
  <2> QED
    BY <1>3, <1>4, <2>1, <2>2 DEF PotMatches
<1> QED
  BY <1>5, <1>6

(* A bet's stakes are stored until it is finished: nothing else touches    *)
(* the amounts, and a claim takes only stakes of finished bets.            *)
LEMMA PotsNext == IInv /\ PotsMatch /\ [Next]_vars => PotsMatch'
<1> SUFFICES ASSUME IInv, PotsMatch, [Next]_vars PROVE PotsMatch'
  OBVIOUS
<1> USE DaoBetsAssumption
<1>1. ASSUME UNCHANGED <<unfinished, bets>> PROVE PotsMatch'
  BY <1>1, KeepsPots
<1>2. CASE PlaceBet
  <2>1. PICK p \in Players, id \in 1..MaxBets, option \in Titles, amount \in Stakes,
             token \in Tokens : BetOn(p, id, option, amount, token)
    BY <1>2 DEF PlaceBet
  <2> QED
    BY <2>1, BetOnFacts, BetOnPots
<1>3. ASSUME NEW sender \in Accounts, ManageBets(sender) PROVE PotsMatch'
  <2>1. CASE \E options \in OptionSets, end \in EndTimes : CreateBet(sender, options, end)
    BY <2>1, CreateBetPots
  <2>2. ASSUME NEW id \in 1..MaxBets, NEW end \in EndTimes, ModifyBet(sender, id, end)
        PROVE  PotsMatch'
    <3>1. /\ DOMAIN unfinished' = DOMAIN unfinished /\ UNCHANGED bets
          /\ \A b \in DOMAIN unfinished : b # id => unfinished'[b] = unfinished[b]
          /\ id \in DOMAIN unfinished
          /\ unfinished'[id] = [unfinished[id] EXCEPT !.end_bet_timestamp = end]
      BY <2>2 DEF ModifyBet
    <3>2. PICK options \in SUBSET Titles : unfinished[id] \in BetType(options)
      BY <3>1 DEF IInv, TypeOK
    <3>3. /\ unfinished'[id].current_bet_amounts = unfinished[id].current_bet_amounts
          /\ unfinished'[id].num_players = unfinished[id].num_players
      BY <3>1, <3>2 DEF BetType
    <3> QED
      BY <3>1, <3>3, KeepsPots
  <2>3. ASSUME NEW id \in Nat, Finishes(id) PROVE PotsMatch'
    BY <2>3, KeepsPots DEF Finishes
  <2>4. ASSUME NEW id \in 1..MaxBets, NEW result \in Titles, CompleteBet(sender, id, result)
        PROVE  PotsMatch'
    BY <2>3, <2>4, CompleteFacts
  <2>5. ASSUME NEW id \in 1..MaxBets, CancelBet(sender, id)
        PROVE  PotsMatch'
    BY <2>3, <2>5, CancelFacts
  <2> QED
    BY <1>3, <2>1, <2>2, <2>4, <2>5 DEF ManageBets
<1>4. ASSUME NEW sender \in Accounts, ManageContract(sender) PROVE PotsMatch'
  BY <1>1, <1>4 DEF ManageContract, UpdateConfig, TransferOwnership, AcceptOwnership,
       RenounceOwnership, bookVars
<1>5. ASSUME NEW p \in Players, Claim(p) PROVE PotsMatch'
  <2>1. PICK keys : Claims(p, keys)
    BY <1>5, ClaimIsPay, PayFacts
  <2>2. \A k \in keys : k[1] \notin DOMAIN unfinished
    BY <2>1 DEF Claims, FinishedKeys, IInv, BetsPartition
  <2> QED
    BY <2>1, <2>2, KeepsPots DEF Claims
<1>6. CASE ChangeRegistry
  BY <1>1, <1>6 DEF ChangeRegistry, bookVars
<1>7. CASE Tick
  BY <1>1, <1>7 DEF Tick, bookVars
<1>8. CASE UNCHANGED vars
  BY <1>1, <1>8 DEF vars, bookVars
<1> QED
  BY <1>2, <1>3, <1>4, <1>5, <1>6, <1>7, <1>8 DEF Next

(* With no bet there is nothing to match. *)
LEMMA PotsInit == Init => PotsMatch
BY DEF Init, EmptyMap, PotsMatch

(* Until a bet is finished, the amount of each option is the sum of the    *)
(* stored stakes on it, and num_players counts the players who have one    *)
(* (AddStake, BetOn).                                                      *)
THEOREM PotsAlwaysMatch == Spec => []PotsMatchBets
BY PotsInit, Invariance, PotsNext, PotsMatchIsPotMatches, PTL DEF Spec

----------------------------------------------------------------------------
(* What a step never does *)

(* A step that changes the stakes on an unfinished bet is a bet made       *)
(* within its deadline.                                                    *)
LEMMA FrozenStep == IInv /\ [Next]_vars => [StakesFrozenStep]_vars
<1> SUFFICES ASSUME IInv, Next PROVE StakesFrozenStep
  OBVIOUS
<1> USE DaoBetsAssumption
<1>1. ASSUME UNCHANGED <<finished, bets>> PROVE StakesFrozenStep
  BY <1>1 DEF StakesFrozenStep
<1>2. CASE PlaceBet
  <2>1. PICK p \in Players, id \in 1..MaxBets, option \in Titles, amount \in Stakes,
             token \in Tokens : BetOn(p, id, option, amount, token)
    BY <1>2 DEF PlaceBet
  <2>2. BetsOn(p, id, option, amount, token)
    BY <2>1, BetOnFacts
  <2>3. amount \in Nat /\ amount > 0
    OBVIOUS
  <2>4. \A k \in DOMAIN bets' :
          \/ k \in DOMAIN bets /\ bets'[k] = bets[k]
          \/ /\ k[1] \in DOMAIN unfinished
             /\ now <= unfinished[k[1]].end_bet_timestamp
             /\ k \in DOMAIN bets => /\ bets'[k].option = bets[k].option
                                     /\ bets'[k].amount > bets[k].amount
    BY <2>2, <2>3, StakeFacts DEF BetsOn
  <2>5. finished' = finished
    BY <2>2 DEF BetsOn
  <2> QED
    BY <2>4, <2>5 DEF StakesFrozenStep
<1>3. ASSUME NEW sender \in Accounts, ManageBets(sender) PROVE StakesFrozenStep
  <2>1. ASSUME NEW id \in Nat, Finishes(id) PROVE StakesFrozenStep
    BY <2>1 DEF Finishes, StakesFrozenStep
  <2>2. CASE \E options \in OptionSets, end \in EndTimes : CreateBet(sender, options, end)
    BY <1>1, <2>2 DEF CreateBet
  <2>3. CASE \E id \in 1..MaxBets, end \in EndTimes : ModifyBet(sender, id, end)
    BY <1>1, <2>3 DEF ModifyBet
  <2>4. CASE \E id \in 1..MaxBets, result \in Titles : CompleteBet(sender, id, result)
    BY <2>1, <2>4, CompleteFacts
  <2>5. CASE \E id \in 1..MaxBets : CancelBet(sender, id)
    BY <2>1, <2>5, CancelFacts
  <2> QED
    BY <1>3, <2>2, <2>3, <2>4, <2>5 DEF ManageBets
<1>4. ASSUME NEW sender \in Accounts, ManageContract(sender) PROVE StakesFrozenStep
  BY <1>1, <1>4 DEF ManageContract, UpdateConfig, TransferOwnership, AcceptOwnership,
       RenounceOwnership, bookVars
<1>5. ASSUME NEW p \in Players, Claim(p) PROVE StakesFrozenStep
  <2>1. PICK keys : Claims(p, keys)
    BY <1>5, ClaimIsPay, PayFacts
  <2> QED
    BY <2>1 DEF Claims, StakesFrozenStep
<1>6. CASE ChangeRegistry
  BY <1>1, <1>6 DEF ChangeRegistry, bookVars
<1>7. CASE Tick
  BY <1>1, <1>7 DEF Tick, bookVars
<1> QED
  BY <1>2, <1>3, <1>4, <1>5, <1>6, <1>7 DEF Next

(* Once the deadline of a bet has passed, no stake on it changes until the *)
(* bet is finished.                                                        *)
THEOREM StakesFrozen == Spec => StakesFrozenWhenDue
BY Invariance, FrozenStep, PTL DEF Spec, StakesFrozenWhenDue

(* Without an owner there is no pending owner either, so nobody can        *)
(* accept.                                                                 *)
LEMMA RenouncedIsFinal == IInv /\ [Next]_vars => [RenouncedStep]_vars
<1> SUFFICES ASSUME IInv, Next, owner = Nobody PROVE RenouncedStep
  BY DEF RenouncedStep
<1> USE DaoBetsAssumption
<1>1. pendingOwner = Nobody /\ \A sender \in Accounts : sender # Nobody
  BY DEF IInv, NoOwnerNoTransfer
<1>2. ASSUME UNCHANGED <<unfinished, finished, nextBetId, config, owner>> PROVE RenouncedStep
  BY <1>2 DEF RenouncedStep
<1>3. CASE PlaceBet
  <2>1. PICK p \in Players, id \in 1..MaxBets, option \in Titles, amount \in Stakes,
             token \in Tokens : BetOn(p, id, option, amount, token)
    BY <1>3 DEF PlaceBet
  <2>2. BetsOn(p, id, option, amount, token)
    BY <2>1, BetOnFacts
  <2>3. \A b \in DOMAIN unfinished :
          unfinished'[b].end_bet_timestamp = unfinished[b].end_bet_timestamp
    BY <2>2 DEF BetsOn
  <2>4. UNCHANGED <<owner, config, finished, nextBetId>>
    BY <2>2 DEF BetsOn
  <2> QED
    BY <2>3, <2>4 DEF RenouncedStep
<1>4. ASSUME NEW sender \in Accounts PROVE ~ManageBets(sender) /\ ~ManageContract(sender)
  BY <1>1 DEF ManageBets, CreateBet, ModifyBet, CompleteBet, CancelBet, Finish,
       ManageContract, UpdateConfig, TransferOwnership, AcceptOwnership, RenounceOwnership
<1>5. ASSUME NEW p \in Players, Claim(p) PROVE RenouncedStep
  BY <1>2, <1>5, ClaimIsPay, PayFacts DEF Claims
<1>6. CASE ChangeRegistry
  BY <1>2, <1>6 DEF ChangeRegistry, bookVars, ownerVars
<1>7. CASE Tick
  BY <1>2, <1>7 DEF Tick, bookVars, ownerVars
<1> QED
  BY <1>3, <1>4, <1>5, <1>6, <1>7 DEF Next

(* A renounced contract has no owner ever after. *)
THEOREM RenouncedIsForGood == Spec => RenouncedForGood
BY Invariance, RenouncedIsFinal, PTL DEF Spec, RenouncedForGood

=============================================================================
