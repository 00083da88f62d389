----------------------- MODULE PredictionMoneyProofs -----------------------
(***************************************************************************)
(* Proofs about PredictionGame, for every value of its constants: the      *)
(* pools and the coins.                                                    *)
(*                                                                         *)
(* DueOf is what each stored bet may still have to be paid: the stake      *)
(* until its round is settled, the payout after.  A bet adds what it       *)
(* brings in, a settlement never raises them and lowers them by less than  *)
(* a coin a player (Settlement), and a claim takes off at least what it    *)
(* pays.  So every round pays out its pool, the contract stays solvent and *)
(* no claim is short of coins, and round by round the same facts are the   *)
(* steps of the escrow it implements.  Last, what a bet has won stays what *)
(* it is until it is paid, and is paid to whoever keeps asking.            *)
(***************************************************************************)
EXTENDS PredictionGameProofs, SumTheorems

----------------------------------------------------------------------------
(* The books, and what a step does to them *)

(* Only finitely many bets are stored, of rounds within the bound. *)
Books ==
  /\ IsFiniteSet(DOMAIN bets) /\ IsFiniteSet(DOMAIN claims)
  /\ nextRoundId <= MaxRound

(* What a stored bet has staked; the bets of a round, and of its sides *)
StakeOf == [k \in DOMAIN bets |-> bets[k].amount]

StakesOnRound(r) == {k \in DOMAIN bets : k[1] = r}
StakesOn(r, d)   == {k \in DOMAIN bets : k[1] = r /\ bets[k].direction = d}

FinishedBets == {k \in DOMAIN bets : k[1] \in DOMAIN rounds}

(* The pool of a round, wherever it is stored *)
Pool(r) == PoolOf(r)["Bull"] + PoolOf(r)["Bear"]

(* What a step does to the rounds, the bets and the coins: nothing, *)
Quiet == UNCHANGED <<bookVars, vault>>

(* or it brings in a stake for the bidding round, *)
BetsOn(p, r, dir, gross, token) ==
  /\ token = config.token_denom
  /\ r = nextRoundId - 1 /\ r \notin DOMAIN rounds
  /\ UNCHANGED <<nextRoundId, liveRound, rounds, claims, config>>
  /\ DOMAIN bets' = DOMAIN bets \cup {<<r, p>>}
  /\ \A k \in DOMAIN bets : k # <<r, p>> => bets'[k] = bets[k]
  /\ bets'[<<r, p>>].direction = dir
  /\ <<r, p>> \in DOMAIN bets =>
       /\ bets[<<r, p>>].direction = dir
       /\ bets'[<<r, p>>].amount = bets[<<r, p>>].amount + gross
  /\ <<r, p>> \notin DOMAIN bets => bets'[<<r, p>>].amount = gross
  /\ \A q \in Nat : q # r => PoolOf(q)' = PoolOf(q)
  /\ PoolOf(r)'[dir] = PoolOf(r)[dir] + gross
  /\ \A d \in Directions : d # dir => PoolOf(r)'[d] = PoolOf(r)[d]
  /\ vault' = [vault EXCEPT ![token] = @ + gross]

(* or it moves every round on by one place: the live one is settled, *)
Closes ==
  /\ UNCHANGED <<bets, claims, config, vault>>
  /\ nextRoundId < MaxRound /\ nextRoundId' = nextRoundId + 1
  /\ DOMAIN rounds' = 0..(nextRoundId - 2)
  /\ \A r \in DOMAIN rounds : r \in DOMAIN rounds' /\ rounds'[r] = rounds[r]
  /\ \A r \in 0..(nextRoundId - 1) : PoolOf(r)' = PoolOf(r)
  /\ \A r \in Nat, d \in Directions : r = nextRoundId => PoolOf(r)'[d] = 0

(* or it records what some settled bets of a player are worth. *)
Claims(p, keys) ==
  /\ UNCHANGED <<nextRoundId, nextRound, liveRound, rounds, config>>
  /\ \A k \in keys : k[2] = p
  /\ DOMAIN bets' = DOMAIN bets \ keys
  /\ \A k \in DOMAIN bets' : bets'[k] = bets[k]
  /\ DOMAIN claims' = DOMAIN claims \cup {k \in keys : Owed(k) > 0}
  /\ \A k \in keys : Owed(k) > 0 => claims'[k] = Owed(k)
  /\ \A k \in DOMAIN claims : k \notin keys => claims'[k] = claims[k]

(* The order of the rounds, as the proofs use it. *)
LEMMA RoundFacts ==
  ASSUME IInv
  PROVE  /\ nextRoundId \in Nat
         /\ DOMAIN rounds = 0..(nextRoundId - 3) /\ IsFiniteSet(DOMAIN rounds)
         /\ \A r \in DOMAIN rounds : /\ r \in Nat /\ r < nextRoundId - 2
                                     /\ PoolOf(r) = rounds[r].pool
                                     /\ rounds[r] \in FinishedRounds
                                     /\ Pool(r) = PoolShares(rounds[r])
<1>1. nextRoundId \in Nat /\ DOMAIN rounds = 0..(nextRoundId - 3)
  BY DEF IInv, TypeOK, RoundsInOrder
<1>2. nextRoundId - 3 \in Int
  BY <1>1
<1>3. IsFiniteSet(0..(nextRoundId - 3))
  BY <1>2, FS_Interval
<1>4. \A r \in DOMAIN rounds :
        r \in Nat /\ r < nextRoundId - 2 /\ r # nextRoundId - 1 /\ r # nextRoundId - 2
  BY <1>1
<1>5. \A r \in DOMAIN rounds : PoolOf(r) = rounds[r].pool
  BY <1>4 DEF PoolOf
<1>6. \A r \in DOMAIN rounds : rounds[r] \in FinishedRounds
  BY DEF IInv, TypeOK
<1> QED
  BY <1>1, <1>3, <1>4, <1>5, <1>6 DEF Pool, PoolShares

(* The pool of a round that exists has two sides. *)
LEMMA PoolTypes ==
  ASSUME IInv, NEW r \in Nat, r < nextRoundId
  PROVE  PoolOf(r) \in Pools /\ Pool(r) \in Nat
<1>1. PoolOf(r) \in Pools
  <2>1. CASE r \in DOMAIN rounds
    BY <2>1, RoundFacts DEF FinishedRounds
  <2>2. CASE r \notin DOMAIN rounds
    <3>1. r = nextRoundId - 1 \/ r = nextRoundId - 2
      BY <2>2, RoundFacts
    <3>2. nextRound \in NextRounds
      BY RoundFacts DEF IInv, TypeOK, RoundsInOrder
    <3>3. CASE r = nextRoundId - 1
      <4>1. r # nextRoundId - 2
        BY <3>3, RoundFacts
      <4> QED
        BY <2>2, <3>2, <3>3, <4>1 DEF PoolOf, NextRounds
    <3>4. CASE r = nextRoundId - 2
      <4>1. liveRound \in LiveRounds
        BY <3>4, RoundFacts DEF IInv, TypeOK, RoundsInOrder
      <4>2. r # nextRoundId - 1
        BY <3>4, RoundFacts
      <4> QED
        BY <2>2, <3>4, <4>1, <4>2 DEF PoolOf, LiveRounds
    <3> QED
      BY <3>1, <3>3, <3>4
  <2> QED
    BY <2>1, <2>2
<1> QED
  BY <1>1 DEF Pool, Pools, Directions

(* A bet is for the bidding round. *)
LEMMA BetIsOn ==
  ASSUME IInv, NEW p \in Players, NEW r \in Nat, NEW dir \in Directions,
         NEW gross \in Stakes, NEW token \in Tokens, Bet(p, r, dir, gross, token)
  PROVE  BetsOn(p, r, dir, gross, token)
<1> USE PredictionAssumption
<1>1. /\ nextRound \in NextRounds /\ r = nextRoundId - 1 /\ nextRoundId \in Nat
      /\ r \notin DOMAIN rounds
  BY RoundFacts DEF IInv, TypeOK, RoundsInOrder, Bet
<1>2. nextRound.pool \in [Directions -> Nat]
  BY <1>1 DEF NextRounds, Pools
<1> DEFINE pool == [nextRound.pool EXCEPT ![dir] = @ + gross]
<1>3. nextRound' = [nextRound EXCEPT !.pool = pool]
  BY DEF Bet, AddToPool
<1>4. nextRound'.pool = pool
  BY <1>1, <1>3 DEF NextRounds
<1>5. /\ pool[dir] = nextRound.pool[dir] + gross
      /\ \A d \in Directions : d # dir => pool[d] = nextRound.pool[d]
  BY <1>2
<1> HIDE DEF pool
<1>6. UNCHANGED <<nextRoundId, liveRound, rounds, claims, config>>
  BY DEF Bet, adminVars
<1>7. PoolOf(r) = nextRound.pool /\ PoolOf(r)' = nextRound'.pool
  BY <1>1, <1>6 DEF PoolOf
<1>8. \A q \in Nat : q # r => PoolOf(q)' = PoolOf(q)
  BY <1>1, <1>6 DEF PoolOf
<1>9. /\ DOMAIN bets' = DOMAIN bets \cup {<<r, p>>}
      /\ bets'[<<r, p>>] = [amount |-> StakeWith(<<r, p>>, gross), direction |-> dir]
      /\ \A k \in DOMAIN bets : k # <<r, p>> => bets'[k] = bets[k]
  BY DEF Bet, Save, SaveAll
<1>10. <<r, p>> \in DOMAIN bets => bets[<<r, p>>].direction = dir
  BY DEF Bet, SameDirection
<1>11. token = config.token_denom /\ vault' = [vault EXCEPT ![token] = @ + gross]
  BY DEF Bet
<1> QED
  BY <1>1, <1>4, <1>5, <1>6, <1>7, <1>8, <1>9, <1>10, <1>11 DEF BetsOn, StakeWith

(* The live round is settled exactly when the bidding round opens. *)
LEMMA DueTogether ==
  ASSUME IInv
  PROVE  /\ SettlesNow => OpensNow
         /\ OpensNow /\ liveRound # NoRound => SettlesNow
         /\ nextRoundId \in Nat /\ now \in Nat
BY PredictionAssumption DEF IInv, TypeOK, RoundsInOrder, SettlesNow, OpensNow

(* CloseRound moves every round on, or has nothing to do. *)
LEMMA CloseIs ==
  ASSUME IInv, IInv', NEW oracle \in [Tickers -> Answers], CloseRound(oracle)
  PROVE  UNCHANGED <<bets, claims, config, vault>> /\ (Quiet \/ Closes)
<1> USE PredictionAssumption
<1>1. /\ SettlesNow => OpensNow
      /\ OpensNow /\ liveRound # NoRound => SettlesNow
      /\ nextRoundId \in Nat /\ now \in Nat
  BY DueTogether
<1>2. UNCHANGED <<bets, claims, config, vault>>
  BY DEF CloseRound, adminVars, bankVars
<1>3. CASE ~CreatesNow
  <2>1. ~OpensNow /\ ~SettlesNow
    BY <1>1, <1>3 DEF CreatesNow
  <2>2. UNCHANGED <<nextRoundId, nextRound, liveRound, rounds>>
    BY <1>3, <2>1 DEF CloseRound, NextId
  <2> QED
    BY <1>2, <2>2 DEF Quiet, bookVars
<1>4. CASE CreatesNow
  <2>1. nextRoundId < MaxRound /\ nextRoundId' = nextRoundId + 1
    BY <1>4 DEF CloseRound, CanClose, NextId
  <2>2. DOMAIN rounds' = 0..(nextRoundId - 2) /\ DOMAIN rounds = 0..(nextRoundId - 3)
    <3>1. DOMAIN rounds' = 0..(nextRoundId' - 3)
      BY DEF IInv, RoundsInOrder
    <3>2. nextRoundId' - 3 = nextRoundId - 2
      BY <1>1, <2>1
    <3> QED
      BY <3>1, <3>2, RoundFacts
  <2>3. liveRound # NoRound => liveRound.id = nextRoundId - 2 /\ nextRoundId > 1
    BY <1>1 DEF IInv, RoundsInOrder
  <2>4. \A r \in DOMAIN rounds : r \in DOMAIN rounds' /\ rounds'[r] = rounds[r]
    <3>1. \A r \in DOMAIN rounds : r \in DOMAIN rounds' /\ r # nextRoundId - 2
      BY <1>1, <2>2
    <3>2. CASE SettlesNow
      BY <2>3, <3>1, <3>2 DEF CloseRound, SettlesNow, Save, SaveAll
    <3>3. CASE ~SettlesNow
      BY <3>1, <3>3 DEF CloseRound
    <3> QED
      BY <3>2, <3>3
  <2>5. \A r \in Nat : r = nextRoundId => PoolOf(r)' = [d \in Directions |-> 0]
    <3>1. nextRound' = NewBidRound(liveRound')
      BY <1>4 DEF CloseRound
    <3>2. nextRound'.pool = [d \in Directions |-> 0]
      BY <3>1 DEF NewBidRound
    <3>3. nextRoundId \notin DOMAIN rounds' /\ nextRoundId = nextRoundId' - 1
      BY <1>1, <2>1, <2>2
    <3>4. \A r \in Nat : r = nextRoundId => r # nextRoundId' - 2
      BY <1>1, <2>1
    <3> QED
      BY <3>2, <3>3, <3>4 DEF PoolOf
  <2>6. \A r \in 0..(nextRoundId - 1) : PoolOf(r)' = PoolOf(r)
    <3> SUFFICES ASSUME NEW r \in 0..(nextRoundId - 1) PROVE PoolOf(r)' = PoolOf(r)
      OBVIOUS
    <3>1. r \in Nat /\ r < nextRoundId /\ nextRoundId >= 1
      BY <1>1
    <3>2. nextRound # NoRound
      BY <1>1, <3>1 DEF IInv, RoundsInOrder
    <3>3. OpensNow
      BY <1>4, <3>2 DEF CreatesNow
    <3>4. CASE r = nextRoundId - 1
      <4>1. liveRound'.pool = nextRound.pool
        BY <3>3 DEF CloseRound, RoundOpen
      <4>2. r \notin DOMAIN rounds /\ r \notin DOMAIN rounds' /\ r = nextRoundId' - 2
        BY <1>1, <2>1, <2>2, <3>1, <3>4
      <4>3. r # nextRoundId' - 1
        BY <1>1, <2>1, <3>4
      <4>4. PoolOf(r) = nextRound.pool
        BY <1>1, <3>4, <4>2 DEF PoolOf
      <4>5. PoolOf(r)' = liveRound'.pool
        BY <4>2, <4>3 DEF PoolOf
      <4> QED
        BY <4>1, <4>4, <4>5
    <3>5. CASE r = nextRoundId - 2
      <4>1. liveRound # NoRound /\ r = liveRound.id
        BY <1>1, <3>1, <3>5 DEF IInv, RoundsInOrder
      <4>2. SettlesNow
        BY <1>1, <3>3, <4>1
      <4>3. rounds'[r].pool = liveRound.pool
        BY <4>1, <4>2 DEF CloseRound, Save, SaveAll, RoundClose
      <4>4. r \in DOMAIN rounds' /\ r \notin DOMAIN rounds /\ r # nextRoundId - 1
            /\ r # nextRoundId' - 1 /\ r # nextRoundId' - 2
        BY <1>1, <2>1, <2>2, <3>1, <3>5
      <4>5. PoolOf(r) = liveRound.pool
        BY <3>5, <4>4 DEF PoolOf
      <4>6. PoolOf(r)' = rounds'[r].pool
        BY <4>4 DEF PoolOf
      <4> QED
        BY <4>3, <4>5, <4>6
    <3>6. CASE r # nextRoundId - 1 /\ r # nextRoundId - 2
      <4>1. r \in DOMAIN rounds /\ r # nextRoundId' - 1 /\ r # nextRoundId' - 2
        BY <1>1, <2>1, <2>2, <3>1, <3>6
      <4>2. r \in DOMAIN rounds' /\ rounds'[r] = rounds[r]
        BY <2>4, <4>1
      <4>3. PoolOf(r) = rounds[r].pool
        BY <3>6, <4>1 DEF PoolOf
      <4>4. PoolOf(r)' = rounds'[r].pool
        BY <4>1, <4>2 DEF PoolOf
      <4> QED
        BY <4>2, <4>3, <4>4
    <3> QED
      BY <3>4, <3>5, <3>6
  <2> QED
    BY <1>2, <2>1, <2>2, <2>4, <2>5, <2>6 DEF Closes
<1> QED
  BY <1>2, <1>3, <1>4

(* CollectWinnings pays for all the settled bets of the claimer, *)
LEMMA CollectIs ==
  ASSUME IInv, NEW p \in Players, CollectWinnings(p)
  PROVE  Pay(p, FinishedBetsOf(p))
<1> DEFINE keys == {k \in BetsOf(p) : k[1] \notin {liveRound.id, nextRound.id}}
<1>1. Pay(p, keys) /\ \A k \in keys : k[1] \in DOMAIN rounds
  BY DEF CollectWinnings
<1>2. liveRound.id = nextRoundId - 2 /\ nextRound.id = nextRoundId - 1
  BY RoundFacts DEF IInv, RoundsInOrder, CollectWinnings
<1>3. \A k : k \in FinishedBetsOf(p) => k \in keys
  BY <1>2, RoundFacts DEF FinishedBetsOf
<1>4. \A k : k \in keys => k \in FinishedBetsOf(p)
  BY <1>1 DEF FinishedBetsOf
<1>5. keys = FinishedBetsOf(p)
  <2> HIDE DEF keys
  <2>1. FinishedBetsOf(p) \subseteq keys /\ keys \subseteq FinishedBetsOf(p)
    BY <1>3, <1>4
  <2> QED
    BY <2>1
<1> QED
  BY <1>1, <1>5

(* and CollectWinningRound for the one of its round, if it is settled. *)
LEMMA CollectRoundIs ==
  ASSUME NEW p \in Players, NEW r, CollectWinningRound(p, r)
  PROVE  /\ {<<r, p>>} \cap DOMAIN bets = {<<r, p>>} \cap FinishedBetsOf(p)
         /\ Pay(p, {<<r, p>>} \cap FinishedBetsOf(p))
<1>1. {<<r, p>>} \cap DOMAIN bets = {<<r, p>>} \cap FinishedBetsOf(p)
  BY DEF CollectWinningRound, FinishedBetsOf, BetsOf
<1>2. Pay(p, {<<r, p>>} \cap DOMAIN bets)
  BY DEF CollectWinningRound
<1> QED
  BY <1>1, <1>2

(* So what a claim is about are settled bets of the claimer. *)
LEMMA ClaimIs ==
  ASSUME IInv, NEW p \in Players, Claim(p)
  PROVE  \E keys \in SUBSET FinishedBetsOf(p) : Pay(p, keys)
<1>1. CASE CollectWinnings(p)
  BY <1>1, CollectIs
<1>2. ASSUME NEW r \in 0..nextRoundId, CollectWinningRound(p, r)
      PROVE  \E keys \in SUBSET FinishedBetsOf(p) : Pay(p, keys)
  <2>1. {<<r, p>>} \cap FinishedBetsOf(p) \in SUBSET FinishedBetsOf(p)
    OBVIOUS
  <2> QED
    BY <1>2, <2>1, CollectRoundIs
<1> QED
  BY <1>1, <1>2 DEF Claim

(* The bets of one player are among those of all. *)
LEMMA OfPlayer ==
  ASSUME NEW p \in Players
  PROVE  /\ FinishedBetsOf(p) \in SUBSET FinishedBets
         /\ \A k \in FinishedBetsOf(p) : k[2] = p
         /\ FinishedBets \in SUBSET DOMAIN bets
BY DEF FinishedBetsOf, BetsOf, FinishedBets

(* What a payment does to the books. *)
LEMMA PayIs ==
  ASSUME IInv, NEW p \in Players, NEW keys \in SUBSET FinishedBetsOf(p), Pay(p, keys)
  PROVE  Claims(p, keys)
<1>1. /\ UNCHANGED <<nextRoundId, nextRound, liveRound, rounds, config>>
      /\ bets' = BetsAfterClaim(keys)
      /\ claims' = SaveAll(claims, [k \in {j \in keys : Owed(j) > 0} |-> Owed(k)])
  BY DEF Pay, adminVars
<1>2. \A k \in keys : k[2] = p /\ k \in DOMAIN bets /\ k \notin DOMAIN claims
  BY OfPlayer DEF FinishedBets, IInv, ClaimedOnce
<1>3. /\ DOMAIN bets' = DOMAIN bets \ keys
      /\ \A k \in DOMAIN bets' : bets'[k] = bets[k]
  BY <1>1 DEF BetsAfterClaim, Remove
<1> DEFINE paid == {j \in keys : Owed(j) > 0}
<1>4. /\ DOMAIN claims' = DOMAIN claims \cup paid
      /\ \A k \in paid : claims'[k] = Owed(k)
      /\ \A k \in DOMAIN claims : k \notin paid => claims'[k] = claims[k]
  BY <1>1 DEF SaveAll
<1> QED
  BY <1>1, <1>2, <1>3, <1>4 DEF Claims

(* Every step is one of the four. *)
LEMMA StepIs ==
  ASSUME IInv, IInv', [Next]_vars
  PROVE  \/ Quiet
         \/ \E p \in Players, r \in Nat, dir \in Directions, gross \in Stakes :
              /\ BetsOn(p, r, dir, gross, config.token_denom)
              /\ r \in 0..nextRoundId
         \/ Closes
         \/ \E p \in Players : \E keys \in SUBSET FinishedBetsOf(p) : Claim(p) /\ Pay(p, keys)
<1>1. CASE PlaceBet
  <2>1. PICK p \in Players, r \in 0..nextRoundId, dir \in Directions, gross \in Stakes,
             token \in Tokens : Bet(p, r, dir, gross, token)
    BY <1>1 DEF PlaceBet
  <2>2. r \in Nat
    BY RoundFacts
  <2>3. BetsOn(p, r, dir, gross, token)
    BY <2>1, <2>2, BetIsOn
  <2>4. token = config.token_denom
    BY <2>3 DEF BetsOn
  <2> QED
    BY <2>2, <2>3, <2>4
<1>2. CASE Close
  BY <1>2, CloseIs DEF Close
<1>3. CASE \E p \in Players : Claim(p)
  BY <1>3, ClaimIs
<1>4. CASE Administer
  BY <1>4 DEF Administer, UpdateConfig, UpdateHalt, AddAdmin, RemoveAdmin,
       ModifyDevWallets, AddTicker, ModifyBetArray, Quiet, bankVars
<1>5. CASE ChangeRegistry
  BY <1>5 DEF ChangeRegistry, Quiet, bankVars
<1>6. CASE Tick
  BY <1>6 DEF Tick, Quiet, bankVars
<1>7. CASE UNCHANGED vars
  BY <1>7 DEF vars, Quiet, bankVars
<1> QED
  BY <1>1, <1>2, <1>3, <1>4, <1>5, <1>6, <1>7 DEF Next

(* A new contract has no books, *)
LEMMA BooksInit == Init => Books
BY FS_EmptySet, PredictionAssumption DEF Init, Books, EmptyMap

(* and each step adds at most one bet, or as many claims as it takes bets. *)
LEMMA BooksNext == IInv /\ IInv' /\ Books /\ [Next]_vars => Books'
<1> SUFFICES ASSUME IInv, IInv', Books, [Next]_vars PROVE Books'
  OBVIOUS
<1> USE PredictionAssumption
<1>1. CASE Quiet
  BY <1>1 DEF Quiet, bookVars, Books
<1>2. ASSUME NEW p \in Players, NEW r \in Nat, NEW dir \in Directions,
             NEW gross \in Stakes, BetsOn(p, r, dir, gross, config.token_denom)
      PROVE  Books'
  <2>1. /\ DOMAIN bets' = DOMAIN bets \cup {<<r, p>>}
        /\ UNCHANGED <<nextRoundId, claims>>
    BY <1>2 DEF BetsOn
  <2>2. IsFiniteSet(DOMAIN bets \cup {<<r, p>>})
    BY FS_AddElement DEF Books
  <2> QED
    BY <2>1, <2>2 DEF Books
<1>3. CASE Closes
  BY <1>3, RoundFacts DEF Closes, Books
<1>4. ASSUME NEW p \in Players, NEW keys \in SUBSET FinishedBetsOf(p), Pay(p, keys)
      PROVE  Books'
  <2> DEFINE paid == {k \in keys : Owed(k) > 0}
  <2>1. Claims(p, keys)
    BY <1>4, PayIs
  <2>2. /\ DOMAIN bets' \in SUBSET DOMAIN bets /\ nextRoundId' = nextRoundId
        /\ DOMAIN claims' = DOMAIN claims \cup paid
    BY <2>1 DEF Claims
  <2>3. paid \in SUBSET DOMAIN bets
    BY OfPlayer
  <2> HIDE DEF paid
  <2>4. IsFiniteSet(DOMAIN bets') /\ IsFiniteSet(paid)
    BY <2>2, <2>3, FS_Subset DEF Books
  <2>5. IsFiniteSet(DOMAIN claims \cup paid)
    BY <2>4, FS_Union DEF Books
  <2> QED
    BY <2>2, <2>4, <2>5 DEF Books
<1> QED
  BY <1>1, <1>2, <1>3, <1>4, StepIs

----------------------------------------------------------------------------
(* The pools and the stakes *)

(* A stored bet has a key, a side and a stake. *)
LEMMA StakeFacts ==
  ASSUME IInv, NEW k \in DOMAIN bets
  PROVE  /\ k = <<k[1], k[2]>> /\ k[1] \in Nat /\ k[1] < nextRoundId /\ k[2] \in Players
         /\ bets[k].amount \in Nat /\ bets[k].amount > 0
         /\ bets[k].direction \in Directions
         /\ StakeOf[k] = bets[k].amount
BY DEF IInv, TypeOK, BetsWithinPools, BetInfos, StakeOf

(* What some bets have staked in all is a sum of naturals. *)
LEMMA StakesAreSums ==
  ASSUME IInv, Books, NEW keys \in SUBSET DOMAIN bets
  PROVE  /\ IsFiniteSet(keys) /\ \A k \in keys : StakeOf[k] \in Nat
         /\ SumStakes(keys) = SumFunctionOnSet(StakeOf, keys)
         /\ SumStakes(keys) \in Nat
<1> DEFINE g == [k \in keys |-> bets[k].amount]
<1>1. IsFiniteSet(keys) /\ \A k \in keys : StakeOf[k] \in Nat /\ g[k] = StakeOf[k]
  BY StakeFacts, FS_Subset DEF Books
<1>2. SumStakes(keys) = SumFunctionOnSet(g, keys)
  BY DEF SumStakes, SumFunction
<1> HIDE DEF g
<1>3. SumFunctionOnSet(g, keys) = SumFunctionOnSet(StakeOf, keys)
  BY <1>1, SumEqual
<1>4. SumFunctionOnSet(StakeOf, keys) \in Nat
  BY <1>1, SumType
<1> QED
  BY <1>1, <1>2, <1>3, <1>4

(* The bets on one side of a round *)
LEMMA StakesOnFacts ==
  ASSUME IInv, Books, NEW r, NEW d
  PROVE  /\ IsFiniteSet(StakesOn(r, d))
         /\ \A k \in StakesOn(r, d) : k \in DOMAIN bets /\ StakeOf[k] \in Nat
<1>1. StakesOn(r, d) \in SUBSET DOMAIN bets
  BY DEF StakesOn
<1> QED
  BY <1>1, StakesAreSums

(* Each side of the pool of a round that is not settled is the sum of the  *)
(* bets on it.                                                             *)
SideMatches(r, d) == PoolOf(r)[d] = SumFunctionOnSet(StakeOf, StakesOn(r, d))

PoolsMatch ==
  \A r \in Nat, d \in Directions :
    r < nextRoundId /\ r \notin DOMAIN rounds => SideMatches(r, d)

(* This says of the rounds by id what PoolsMatchBets says of the two that  *)
(* are stored as running.                                                  *)
LEMMA PoolsMatchIs == IInv /\ Books /\ PoolsMatch => PoolsMatchBets
<1> SUFFICES ASSUME IInv, Books, PoolsMatch,
                    NEW round \in {nextRound, liveRound} \ {NoRound}, NEW d \in Directions
             PROVE  round.pool[d] =
                      SumStakes({k \in DOMAIN bets : k[1] = round.id /\ bets[k].direction = d})
  BY DEF PoolsMatchBets
<1> DEFINE r == round.id
<1>1. /\ r \in Nat /\ r < nextRoundId /\ r \notin DOMAIN rounds
      /\ PoolOf(r) = round.pool
  <2>1. nextRoundId \in Nat /\ DOMAIN rounds = 0..(nextRoundId - 3)
    BY RoundFacts
  <2>2. CASE round = nextRound /\ nextRound # NoRound
    <3>1. r = nextRoundId - 1 /\ nextRoundId > 0
      BY <2>1, <2>2 DEF IInv, RoundsInOrder
    <3>2. r \in Nat /\ r < nextRoundId /\ r \notin DOMAIN rounds /\ r # nextRoundId - 2
      BY <2>1, <3>1
    <3> QED
      BY <2>2, <3>1, <3>2 DEF PoolOf
  <2>3. CASE round = liveRound /\ liveRound # NoRound
    <3>1. r = nextRoundId - 2 /\ nextRoundId > 1
      BY <2>1, <2>3 DEF IInv, RoundsInOrder
    <3>2. r \in Nat /\ r < nextRoundId /\ r \notin DOMAIN rounds /\ r # nextRoundId - 1
      BY <2>1, <3>1
    <3> QED
      BY <2>3, <3>1, <3>2 DEF PoolOf
  <2> QED
    BY <2>2, <2>3
<1>2. SumStakes(StakesOn(r, d)) = SumFunctionOnSet(StakeOf, StakesOn(r, d))
  <2>1. StakesOn(r, d) \in SUBSET DOMAIN bets
    BY DEF StakesOn
  <2> QED
    BY <2>1, StakesAreSums
<1>3. PoolOf(r)[d] = SumFunctionOnSet(StakeOf, StakesOn(r, d))
  BY <1>1 DEF PoolsMatch, SideMatches
<1>4. StakesOn(r, d) = {k \in DOMAIN bets : k[1] = round.id /\ bets[k].direction = d}
  BY DEF StakesOn
<1> HIDE DEF r
<1> QED
  BY <1>1, <1>2, <1>3, <1>4

(* A side whose bets and pool stay the same still matches. *)
LEMMA SideKept ==
  ASSUME IInv, Books, NEW r, NEW d, SideMatches(r, d), PoolOf(r)'[d] = PoolOf(r)[d],
         StakesOn(r, d)' = StakesOn(r, d),
         \A k \in StakesOn(r, d) : bets'[k] = bets[k] /\ k \in DOMAIN bets'
  PROVE  SideMatches(r, d)'
<1> DEFINE S == StakesOn(r, d)
<1>1. \A k \in S : StakeOf'[k] = StakeOf[k]
  BY StakesOnFacts DEF StakeOf
<1>2. IsFiniteSet(S) /\ \A k \in S : StakeOf[k] \in Nat
  BY StakesOnFacts
<1> HIDE DEF S
<1>3. SumFunctionOnSet(StakeOf', S) = SumFunctionOnSet(StakeOf, S)
  BY <1>1, <1>2, SumEqual
<1> QED
  BY <1>3 DEF SideMatches, S

(* A bet adds the same to its side and to its player's stake, *)
LEMMA BetMatches ==
  ASSUME IInv, Books, PoolsMatch, NEW p \in Players, NEW r \in Nat, NEW dir \in Directions,
         NEW gross \in Stakes, NEW token, BetsOn(p, r, dir, gross, token)
  PROVE  PoolsMatch'
<1> USE PredictionAssumption
<1> DEFINE key == <<r, p>>
<1>1. gross \in Nat /\ gross > 0 /\ key[1] = r
  OBVIOUS
<1>2. /\ r < nextRoundId /\ r \notin DOMAIN rounds
      /\ nextRoundId' = nextRoundId /\ rounds' = rounds
  BY RoundFacts DEF BetsOn
<1> SUFFICES ASSUME NEW q \in Nat, NEW d \in Directions,
                    q < nextRoundId, q \notin DOMAIN rounds
             PROVE  SideMatches(q, d)'
  BY <1>2 DEF PoolsMatch
<1>3. SideMatches(q, d)
  BY DEF PoolsMatch
<1>4. CASE q # r \/ d # dir
  <2>1. PoolOf(q)'[d] = PoolOf(q)[d]
    BY <1>4 DEF BetsOn
  <2>2. \A k \in StakesOn(q, d) : k # key
    <3>1. key \in DOMAIN bets => bets[key].direction = dir
      BY DEF BetsOn
    <3>2. ASSUME key \in StakesOn(q, d) PROVE FALSE
      BY <1>1, <1>4, <3>1, <3>2 DEF StakesOn
    <3> QED
      BY <3>2
  <2>3. \A k \in StakesOn(q, d) : bets'[k] = bets[k] /\ k \in DOMAIN bets'
    BY <2>2 DEF StakesOn, BetsOn
  <2>4. StakesOn(q, d)' = StakesOn(q, d)
    <3>1. \A k : k \in StakesOn(q, d)' => k # key
      <4>1. bets'[key].direction = dir
        BY DEF BetsOn
      <4>2. ASSUME key \in StakesOn(q, d)' PROVE FALSE
        BY <1>1, <1>4, <4>1, <4>2 DEF StakesOn
      <4> QED
        BY <4>2
    <3>2. \A k : k \in StakesOn(q, d)' => k \in StakesOn(q, d)
      BY <3>1 DEF StakesOn, BetsOn
    <3>3. \A k : k \in StakesOn(q, d) => k \in StakesOn(q, d)'
      BY <2>3 DEF StakesOn
    <3> QED
      BY <3>2, <3>3
  <2> QED
    BY <1>3, <2>1, <2>3, <2>4, SideKept
<1>5. CASE q = r /\ d = dir
  <2> DEFINE S == StakesOn(r, dir)
             f == StakeOf
             g == StakeOf'
  <2>1. IsFiniteSet(S) /\ \A k \in S : f[k] \in Nat
    BY StakesOnFacts
  <2>2. StakesOn(r, dir)' = S \cup {key}
    <3>1. \A k : k \in StakesOn(r, dir)' <=> k \in S \/ k = key
      BY DEF StakesOn, BetsOn
    <3> QED
      BY <3>1
  <2>3. \A k \in S \ {key} : g[k] = f[k]
    BY DEF StakesOn, BetsOn, StakeOf
  <2>4. g[key] = IF key \in S THEN f[key] + gross ELSE gross
    <3>1. key \in S <=> key \in DOMAIN bets
      BY DEF StakesOn, BetsOn
    <3>2. g[key] = bets'[key].amount /\ (key \in DOMAIN bets => f[key] = bets[key].amount)
      BY DEF StakeOf, BetsOn
    <3> QED
      BY <3>1, <3>2 DEF BetsOn
  <2>5. PoolOf(r)[dir] = SumFunctionOnSet(f, S) /\ PoolOf(r)'[dir] = PoolOf(r)[dir] + gross
    BY <1>3, <1>5 DEF SideMatches, BetsOn
  <2>6. SumFunctionOnSet(g, S \cup {key}) = SumFunctionOnSet(f, S) + gross
    <3> HIDE DEF S, f, g, key
    <3>1. Raises(f, g, S, key, gross)
      BY <1>1, <2>1, <2>3, <2>4 DEF Raises
    <3> QED
      BY <3>1, SumUpdate
  <2> QED
    BY <1>5, <2>2, <2>5, <2>6 DEF SideMatches
<1> QED
  BY <1>4, <1>5

(* CloseRound opens the next round with empty pools, *)
LEMMA CloseMatches ==
  ASSUME IInv, Books, PoolsMatch, Closes
  PROVE  PoolsMatch'
<1>1. /\ nextRoundId \in Nat /\ nextRoundId' = nextRoundId + 1 /\ bets' = bets
      /\ \A r \in DOMAIN rounds : r \in DOMAIN rounds'
  BY RoundFacts DEF Closes
<1> SUFFICES ASSUME NEW r \in Nat, NEW d \in Directions,
                    r < nextRoundId', r \notin DOMAIN rounds'
             PROVE  SideMatches(r, d)'
  BY DEF PoolsMatch
<1>2. StakesOn(r, d)' = StakesOn(r, d)
  BY <1>1 DEF StakesOn
<1>3. CASE r < nextRoundId
  <2>1. r \in 0..(nextRoundId - 1)
    BY <1>1, <1>3
  <2>2. PoolOf(r)' = PoolOf(r) /\ SideMatches(r, d)
    BY <1>1, <1>3, <2>1 DEF Closes, PoolsMatch
  <2>3. \A k \in StakesOn(r, d) : bets'[k] = bets[k] /\ k \in DOMAIN bets'
    BY <1>1 DEF StakesOn
  <2> QED
    BY <1>2, <2>2, <2>3, SideKept
<1>4. CASE r = nextRoundId
  <2>1. PoolOf(r)'[d] = 0
    BY <1>4 DEF Closes
  <2>2. StakesOn(r, d) = {}
    BY <1>1, <1>4, StakeFacts DEF StakesOn
  <2>3. SumFunctionOnSet(StakeOf', {}) = 0
    BY SumEmpty
  <2> QED
    BY <1>2, <2>1, <2>2, <2>3 DEF SideMatches
<1> QED
  BY <1>1, <1>3, <1>4

(* and a claim takes no bet of a round that is not settled. *)
LEMMA ClaimMatches ==
  ASSUME IInv, Books, PoolsMatch, NEW p \in Players, NEW keys \in SUBSET FinishedBetsOf(p),
         Claims(p, keys)
  PROVE  PoolsMatch'
<1>1. UNCHANGED <<nextRoundId, nextRound, liveRound, rounds>>
  BY DEF Claims
<1>2. \A k \in keys : k[1] \in DOMAIN rounds
  BY DEF FinishedBetsOf
<1> SUFFICES ASSUME NEW r \in Nat, NEW d \in Directions,
                    r < nextRoundId, r \notin DOMAIN rounds
             PROVE  SideMatches(r, d)'
  BY <1>1 DEF PoolsMatch
<1>3. SideMatches(r, d) /\ PoolOf(r)' = PoolOf(r)
  BY <1>1 DEF PoolsMatch, PoolOf
<1>4. \A k \in StakesOn(r, d) : bets'[k] = bets[k] /\ k \in DOMAIN bets'
  BY <1>2 DEF StakesOn, Claims
<1>5. StakesOn(r, d)' = StakesOn(r, d)
  <2>1. \A k : k \in StakesOn(r, d)' => k \in StakesOn(r, d)
    BY DEF StakesOn, Claims
  <2>2. \A k : k \in StakesOn(r, d) => k \in StakesOn(r, d)'
    BY <1>4 DEF StakesOn
  <2> QED
    BY <2>1, <2>2
<1> QED
  BY <1>3, <1>4, <1>5, SideKept

(* There is no round at first. *)
LEMMA PoolsInit == Init => PoolsMatch
BY DEF Init, PoolsMatch

(* No step brings a pool and its stakes apart. *)
LEMMA PoolsNext == IInv /\ IInv' /\ Books /\ PoolsMatch /\ [Next]_vars => PoolsMatch'
<1> SUFFICES ASSUME IInv, IInv', Books, PoolsMatch, [Next]_vars PROVE PoolsMatch'
  OBVIOUS
<1>1. CASE Quiet
  <2>1. UNCHANGED <<nextRoundId, nextRound, liveRound, rounds, bets>>
    BY <1>1 DEF Quiet, bookVars
  <2>2. \A r, d : StakesOn(r, d)' = StakesOn(r, d)
    BY <2>1, Zenon DEF StakesOn
  <2>3. \A r : PoolOf(r)' = PoolOf(r)
    BY <2>1, Zenon DEF PoolOf
  <2>4. StakeOf' = StakeOf
    BY <2>1, Zenon DEF StakeOf
  <2>5. \A r, d : SideMatches(r, d)' = SideMatches(r, d)
    BY <2>2, <2>3, <2>4, Zenon DEF SideMatches
  <2> QED
    BY <2>1, <2>5 DEF PoolsMatch
<1> QED
  BY <1>1, StepIs, BetMatches, CloseMatches, ClaimMatches, PayIs

(* While a round takes bets or is live, each side of its pool is the sum   *)
(* of the stored bets on it, for any number of players and rounds.         *)
THEOREM PoolsAlwaysMatch == Spec => []PoolsMatchBets
<1>1. IInv /\ IInv' /\ Books /\ PoolsMatch /\ [Next]_vars => PoolsMatch'
  BY PoolsNext
<1> QED
  BY <1>1, Invariance, BooksInit, BooksNext, PoolsInit, PoolsMatchIs, PTL DEF Spec

----------------------------------------------------------------------------
(* The dues *)

(* What each stored bet may still have to be paid, and all of them *)
DueOf == [k \in DOMAIN bets |->
          IF k[1] \in DOMAIN rounds THEN Owed(k) ELSE bets[k].amount]

Owing == SumFunctionOnSet(DueOf, DOMAIN bets)

(* Dues are natural numbers: the payout of a settled round, else the stake. *)
LEMMA DueFacts ==
  ASSUME IInv
  PROVE  \A k \in DOMAIN bets :
           /\ DueOf[k] \in Nat
           /\ k[1] \in DOMAIN rounds => DueOf[k] = Owed(k)
           /\ k[1] \notin DOMAIN rounds => DueOf[k] = StakeOf[k]
BY StakeFacts, OwedNat DEF DueOf

(* The dues of some bets have a sum. *)
LEMMA DuesAreSums ==
  ASSUME IInv, Books, NEW keys \in SUBSET DOMAIN bets
  PROVE  /\ IsFiniteSet(keys) /\ \A k \in keys : k \in DOMAIN bets /\ DueOf[k] \in Nat
         /\ SumFunctionOnSet(DueOf, keys) \in Nat
<1>1. IsFiniteSet(keys) /\ \A k \in keys : k \in DOMAIN bets /\ DueOf[k] \in Nat
  BY StakesAreSums, DueFacts
<1> QED
  BY <1>1, SumType

(* What settled bets are owed in all is the sum of their dues. *)
LEMMA OwedIsDue ==
  ASSUME IInv, Books, NEW keys \in SUBSET FinishedBets
  PROVE  SumOwed(keys) = SumFunctionOnSet(DueOf, keys) /\ SumOwed(keys) \in Nat
<1> DEFINE g == [k \in keys |-> Owed(k)]
<1>1. keys \in SUBSET DOMAIN bets
  BY DEF FinishedBets
<1>2. \A k \in keys : g[k] = DueOf[k]
  BY DueFacts DEF FinishedBets
<1>3. SumOwed(keys) = SumFunctionOnSet(g, keys)
  BY DEF SumOwed, SumFunction
<1> HIDE DEF g
<1>4. SumFunctionOnSet(g, keys) = SumFunctionOnSet(DueOf, keys)
  BY <1>1, <1>2, DuesAreSums, SumEqual
<1> QED
  BY <1>1, <1>3, <1>4, DuesAreSums

(* What the run calls liabilities is the sum of all dues. *)
LEMMA LiabilitiesIsOwing == IInv /\ Books => Liabilities = Owing /\ Owing \in Nat
<1> SUFFICES ASSUME IInv, Books PROVE Liabilities = Owing /\ Owing \in Nat
  OBVIOUS
<1> DEFINE S == DOMAIN bets
           F == {k \in DOMAIN bets : k[1] \in DOMAIN rounds}
           U == {k \in DOMAIN bets : k[1] \notin DOMAIN rounds}
<1>1. F \in SUBSET S /\ U = S \ F /\ U \in SUBSET S /\ F \in SUBSET FinishedBets
  BY DEF FinishedBets
<1>2. SumOwed(F) = SumFunctionOnSet(DueOf, F)
  BY <1>1, OwedIsDue
<1>3. SumStakes(U) = SumFunctionOnSet(DueOf, U)
  <2>1. /\ IsFiniteSet(U) /\ SumStakes(U) = SumFunctionOnSet(StakeOf, U)
        /\ \A k \in U : StakeOf[k] \in Nat
    BY <1>1, StakesAreSums
  <2>2. \A k \in U : DueOf[k] = StakeOf[k]
    BY DueFacts
  <2> HIDE DEF U
  <2>3. SumFunctionOnSet(DueOf, U) = SumFunctionOnSet(StakeOf, U)
    BY <2>1, <2>2, SumEqual
  <2> QED
    BY <2>1, <2>3
<1>4. IsFiniteSet(S) /\ (\A k \in S : DueOf[k] \in Nat) /\ Owing \in Nat
  BY DuesAreSums DEF Owing
<1>5. Owing = SumFunctionOnSet(DueOf, F) + SumFunctionOnSet(DueOf, U)
  <2> HIDE DEF F, U
  <2> QED
    BY <1>1, <1>4, SumSubset DEF Owing
<1> QED
  BY <1>2, <1>3, <1>4, <1>5 DEF Liabilities

(* What a bet is due only changes when its round is settled. *)
LEMMA KeepsDue ==
  ASSUME NEW k \in DOMAIN bets, k \in DOMAIN bets', bets'[k] = bets[k],
         k[1] \in DOMAIN rounds' <=> k[1] \in DOMAIN rounds,
         k[1] \in DOMAIN rounds => rounds'[k[1]] = rounds[k[1]]
  PROVE  DueOf'[k] = DueOf[k]
<1>1. k[1] \in DOMAIN rounds => Owed(k)' = Owed(k)
  BY DEF Owed
<1> QED
  BY <1>1 DEF DueOf

(* A step that changes neither the bets nor the settled rounds *)
LEMMA KeepsOwing == UNCHANGED <<bets, rounds>> => Owing' = Owing
<1> SUFFICES ASSUME UNCHANGED <<bets, rounds>> PROVE Owing' = Owing
  OBVIOUS
<1>1. \A k : Owed(k)' = Owed(k)
  BY DEF Owed
<1>2. DueOf' = DueOf
  BY <1>1, Zenon DEF DueOf
<1>3. DOMAIN bets' = DOMAIN bets
  OBVIOUS
<1> QED
  BY <1>2, <1>3, Zenon DEF Owing

(* A bet adds what it brings in. *)
LEMMA BetOwing ==
  ASSUME IInv, Books, NEW p \in Players, NEW r \in Nat, NEW dir \in Directions,
         NEW gross \in Stakes, NEW token, BetsOn(p, r, dir, gross, token)
  PROVE  Owing' = Owing + gross
<1> DEFINE key == <<r, p>>
           S   == DOMAIN bets
           f   == DueOf
           g   == DueOf'
<1>1. IsFiniteSet(S) /\ (\A k \in S : f[k] \in Nat) /\ gross \in Nat
  BY DuesAreSums, PredictionAssumption
<1>2. /\ DOMAIN bets' = S \cup {key} /\ rounds' = rounds
      /\ \A k \in S \ {key} : bets'[k] = bets[k]
      /\ key \in S => bets'[key].amount = bets[key].amount + gross
      /\ key \notin S => bets'[key].amount = gross
      /\ key[1] = r /\ r \notin DOMAIN rounds
  BY DEF BetsOn
<1>3. \A k \in S \ {key} : g[k] = f[k]
  BY <1>2, KeepsDue
<1>4. g[key] = IF key \in S THEN f[key] + gross ELSE gross
  BY <1>2 DEF DueOf
<1>5. Owing = SumFunctionOnSet(f, S) /\ Owing' = SumFunctionOnSet(g, S \cup {key})
  BY <1>2 DEF Owing
<1> HIDE DEF S, f, g, key
<1>6. Raises(f, g, S, key, gross)
  BY <1>1, <1>3, <1>4 DEF Raises
<1>7. SumFunctionOnSet(g, S \cup {key}) = SumFunctionOnSet(f, S) + gross
  BY <1>6, SumUpdate
<1> QED
  BY <1>5, <1>7

(* A claim takes off what the bets it is about are owed. *)
LEMMA ClaimOwing ==
  ASSUME IInv, Books, NEW p \in Players, NEW keys \in SUBSET FinishedBets, Claims(p, keys)
  PROVE  Owing = Owing' + SumOwed(keys) /\ Owing' \in Nat
<1> DEFINE S == DOMAIN bets
           T == DOMAIN bets'
           f == DueOf
           g == DueOf'
<1>1. IsFiniteSet(S) /\ \A k \in S : f[k] \in Nat
  BY DuesAreSums
<1>2. /\ keys \in SUBSET S /\ T = S \ keys /\ keys = S \ T /\ T \in SUBSET S
      /\ \A k \in T : bets'[k] = bets[k]
      /\ rounds' = rounds
  BY DEF Claims, FinishedBets
<1>3. \A k \in T : g[k] = f[k]
  BY <1>2, KeepsDue
<1>4. Owing = SumFunctionOnSet(f, S) /\ Owing' = SumFunctionOnSet(g, T)
  BY DEF Owing
<1>5. SumOwed(keys) = SumFunctionOnSet(f, keys)
  BY OwedIsDue
<1> HIDE DEF S, T, f, g
<1>6. IsFiniteSet(T) /\ \A k \in T : f[k] \in Nat
  BY <1>1, <1>2, FS_Subset
<1>7. SumFunctionOnSet(g, T) = SumFunctionOnSet(f, T) /\ SumFunctionOnSet(f, T) \in Nat
  BY <1>3, <1>6, SumEqual, SumType
<1>8. SumFunctionOnSet(f, S) = SumFunctionOnSet(f, T) + SumFunctionOnSet(f, S \ T)
  <2>1. IsFiniteSet(S) /\ (\A k \in S : f[k] \in Nat) /\ \A k \in T : k \in S
    BY <1>1, <1>2
  <2> QED
    BY <2>1, SumSplit
<1>9. SumFunctionOnSet(f, S \ T) = SumFunctionOnSet(f, keys)
  BY <1>2
<1> QED
  BY <1>4, <1>5, <1>7, <1>8, <1>9

----------------------------------------------------------------------------
(* The settlement of a round *)

(* The bets of a round that is not settled are, in all, its pool. *)
LEMMA StakesFillPool ==
  ASSUME IInv, Books, PoolsMatch, NEW r \in Nat, r < nextRoundId, r \notin DOMAIN rounds
  PROVE  /\ IsFiniteSet(StakesOnRound(r))
         /\ SumFunctionOnSet(StakeOf, StakesOnRound(r)) = Pool(r)
         /\ Pool(r) \in Nat
<1> DEFINE A == StakesOn(r, "Bull")
           B == StakesOn(r, "Bear")
<1>1. StakesOnRound(r) = A \cup B /\ A \cap B = {}
  <2>1. \A k \in DOMAIN bets : bets[k].direction \in {"Bull", "Bear"}
    BY StakeFacts DEF Directions
  <2> QED
    BY <2>1 DEF StakesOnRound, StakesOn
<1>2. /\ IsFiniteSet(A) /\ \A k \in A : StakeOf[k] \in Nat
      /\ IsFiniteSet(B) /\ \A k \in B : StakeOf[k] \in Nat
  BY StakesOnFacts
<1>3. /\ PoolOf(r)["Bull"] = SumFunctionOnSet(StakeOf, A)
      /\ PoolOf(r)["Bear"] = SumFunctionOnSet(StakeOf, B)
  BY DEF PoolsMatch, SideMatches, Directions
<1>4. Pool(r) \in Nat
  BY PoolTypes
<1> HIDE DEF A, B
<1>5. IsFiniteSet(A \cup B)
  BY <1>2, FS_Union
<1>6. SumFunctionOnSet(StakeOf, A \cup B) =
        SumFunctionOnSet(StakeOf, A) + SumFunctionOnSet(StakeOf, B)
  <2>1. \A k \in A \cup B : StakeOf[k] \in Nat
    BY <1>2
  <2> QED
    BY <1>1, <1>2, <2>1, SumUnion
<1> QED
  BY <1>1, <1>3, <1>4, <1>5, <1>6 DEF Pool

(* At most one bet a player *)
LEMMA StakesOfPlayers ==
  ASSUME IInv, NEW r, NEW W \in SUBSET StakesOnRound(r)
  PROVE  /\ IsFiniteSet(W) /\ Cardinality(W) \in Nat
         /\ Cardinality(W) <= Cardinality(Players) /\ Cardinality(Players) \in Nat
<1> DEFINE f == [k \in W |-> k[2]]
<1>1. \A k \in W : k = <<r, k[2]>> /\ k[2] \in Players
  BY StakeFacts DEF StakesOnRound
<1>2. f \in [W -> Players] /\ \A x, y \in W : f[x] = f[y] => x = y
  <2>1. f \in [W -> Players]
    BY <1>1
  <2>2. ASSUME NEW x \in W, NEW y \in W, f[x] = f[y] PROVE x = y
    BY <1>1, <2>2
  <2> QED
    BY <2>1, <2>2
<1> HIDE DEF f
<1>3. IsFiniteSet(Players)
  BY PredictionAssumption
<1>4. IsFiniteSet(W) /\ Cardinality(W) <= Cardinality(Players)
  BY <1>2, <1>3, InjectionBound
<1> QED
  BY <1>3, <1>4, FS_CardinalityType

(* The round a step settles is the one that was live. *)
LEMMA SettledIs ==
  ASSUME IInv, Closes
  PROVE  \A r \in DOMAIN rounds' \ DOMAIN rounds :
           /\ r \in Nat /\ r < nextRoundId /\ r = nextRoundId - 2
           /\ PoolOf(r)' = PoolOf(r)
<1>1. /\ nextRoundId \in Nat /\ DOMAIN rounds = 0..(nextRoundId - 3)
      /\ DOMAIN rounds' = 0..(nextRoundId - 2)
  BY RoundFacts DEF Closes
<1> SUFFICES ASSUME NEW r \in DOMAIN rounds' \ DOMAIN rounds
             PROVE  /\ r \in Nat /\ r < nextRoundId /\ r = nextRoundId - 2
                    /\ PoolOf(r)' = PoolOf(r)
  OBVIOUS
<1>2. r \in Nat /\ r < nextRoundId /\ r = nextRoundId - 2 /\ r \in 0..(nextRoundId - 1)
  BY <1>1
<1> QED
  BY <1>2 DEF Closes

(* The pool of a settled round is stored with it. *)
LEMMA RoundTypes ==
  IInv => \A q \in DOMAIN rounds : PoolOf(q) = rounds[q].pool /\ rounds[q] \in FinishedRounds
BY RoundFacts

(* What a round that is settled owes in all: all its pool, or, if the      *)
(* winners share it, less than a coin a player short of it.                *)
LEMMA Settlement ==
  ASSUME IInv, IInv', Books, PoolsMatch, Closes, NEW r \in DOMAIN rounds' \ DOMAIN rounds
  PROVE  /\ SumFunctionOnSet(DueOf', StakesOnRound(r)) \in Nat
         /\ SumFunctionOnSet(DueOf', StakesOnRound(r)) <= Pool(r)
         /\ \/ Pool(r) = SumFunctionOnSet(DueOf', StakesOnRound(r))
            \/ Pool(r) < SumFunctionOnSet(DueOf', StakesOnRound(r)) + Cardinality(Players)
<1> DEFINE K    == StakesOnRound(r)
           P    == Pool(r)
           s    == DueOf'
           pool == PoolOf(r)
           won  == rounds'[r].winner
<1>1. /\ r \in Nat /\ r < nextRoundId /\ PoolOf(r)' = pool
      /\ bets' = bets /\ r \in DOMAIN rounds' /\ r \notin DOMAIN rounds
  BY SettledIs DEF Closes
<1>2. /\ IsFiniteSet(K) /\ SumFunctionOnSet(StakeOf, K) = P /\ P \in Nat
  BY <1>1, StakesFillPool
<1>3. rounds'[r].pool = pool /\ won \in Directions \cup {Nobody} /\ pool \in [Directions -> Nat]
  <2>1. (\A q \in DOMAIN rounds : PoolOf(q) = rounds[q].pool /\ rounds[q] \in FinishedRounds)'
    BY RoundTypes, PTL
  <2>2. rounds'[r].pool = PoolOf(r)' /\ rounds'[r] \in FinishedRounds
    BY <1>1, <2>1
  <2> QED
    BY <1>1, <2>2, PoolTypes DEF FinishedRounds, Pools
<1>4. \A k \in K : /\ k \in DOMAIN bets /\ k[1] = r /\ StakeOf[k] = bets[k].amount
                   /\ StakeOf[k] \in Nat /\ bets[k].direction \in Directions
  BY StakeFacts DEF StakesOnRound
<1>5. \A k \in K : s[k] = Payout(rounds'[r], bets[k])
  BY <1>1, <1>4 DEF DueOf, Owed
<1>6. PoolShares(rounds'[r]) = P
  BY <1>3 DEF PoolShares, Pool
<1> HIDE DEF s, P
<1>7. ASSUME OneSided(rounds'[r]) \/ won = Nobody
      PROVE  SumFunctionOnSet(s, K) = P
  <2>1. \A k \in K : StakeOf[k] \in Nat /\ s[k] = StakeOf[k]
    <3>1. CASE OneSided(rounds'[r])
      BY <1>4, <1>5, <3>1 DEF Payout
    <3>2. CASE won = Nobody
      <4>1. \A k \in K : bets[k].direction # Nobody
        BY <1>4 DEF Directions, Nobody
      <4>2. \A k \in K : Winnings(rounds'[r], bets[k]) = bets[k].amount
        BY <3>2, <4>1 DEF Winnings
      <4> QED
        BY <1>4, <1>5, <4>2 DEF Payout
    <3> QED
      BY <1>7, <3>1, <3>2
  <2> HIDE DEF K
  <2> QED
    BY <1>2, <2>1, SumEqual
<1>8. ASSUME ~OneSided(rounds'[r]), won \in Directions
      PROVE  /\ SumFunctionOnSet(s, K) \in Nat /\ SumFunctionOnSet(s, K) <= P
             /\ P < SumFunctionOnSet(s, K) + Cardinality(Players)
  <2> DEFINE W == StakesOn(r, won)
             w == pool[won]
  <2>1. W \in SUBSET K
    BY DEF StakesOn, StakesOnRound
  <2>2. /\ IsFiniteSet(W) /\ Cardinality(W) \in Nat /\ Cardinality(W) <= Cardinality(Players)
        /\ Cardinality(Players) \in Nat
    BY <2>1, StakesOfPlayers
  <2>3. w \in Nat /\ w > 0
    <3>1. w # 0
      BY <1>3, <1>8 DEF OneSided
    <3>2. w \in Nat
      BY <1>3, <1>8
    <3> QED
      BY <3>1, <3>2
  <2>4. SumFunctionOnSet(StakeOf, W) = w
    BY <1>1, <1>8 DEF PoolsMatch, SideMatches
  <2>5. won # Nobody
    BY <1>8 DEF Directions, Nobody
  <2>6. \A k \in K : s[k] = Winnings(rounds'[r], bets[k])
    BY <1>5, <1>8 DEF Payout
  <2>7. \A k \in W : s[k] = (P * StakeOf[k]) \div w /\ StakeOf[k] \in Nat
    <3> SUFFICES ASSUME NEW k \in W PROVE s[k] = (P * StakeOf[k]) \div w /\ StakeOf[k] \in Nat
      OBVIOUS
    <3>1. k \in K /\ bets[k].direction = won
      BY <2>1 DEF StakesOn
    <3>2. Winnings(rounds'[r], bets[k]) = MultiplyRatio(P, bets[k].amount, w)
      BY <1>3, <1>6, <2>5, <3>1 DEF Winnings
    <3> QED
      BY <1>4, <2>6, <3>1, <3>2 DEF MultiplyRatio
  <2>8. \A k \in K \ W : s[k] = 0
    <3> SUFFICES ASSUME NEW k \in K, k \notin W PROVE s[k] = 0
      OBVIOUS
    <3>1. bets[k].direction # won
      BY <1>4 DEF StakesOn
    <3> QED
      BY <2>5, <2>6, <3>1 DEF Winnings
  <2> HIDE DEF K, W, w
  <2>9. /\ SumFunctionOnSet(s, W) \in Nat
        /\ SumFunctionOnSet(s, W) <= P
        /\ P < SumFunctionOnSet(s, W) + Cardinality(W)
    BY <1>2, <2>2, <2>3, <2>4, <2>7, SumShares
  <2>10. SumFunctionOnSet(s, K) = SumFunctionOnSet(s, W)
    <3>1. \A k \in W : s[k] \in Nat
      BY <1>2, <2>3, <2>7, DivBounds
    <3> QED
      BY <1>2, <2>1, <2>8, <3>1, SumSupport
  <2> QED
    BY <1>2, <2>2, <2>9, <2>10
<1>9. \/ OneSided(rounds'[r]) \/ won = Nobody
      \/ ~OneSided(rounds'[r]) /\ won \in Directions
  BY <1>3
<1> QED
  BY <1>2, <1>7, <1>8, <1>9 DEF s, P, K

----------------------------------------------------------------------------
(* Round by round: what was claimed, and what is still due *)

(* What a player is due from a round, and the claims recorded of it *)
OwedTo(r, p) == IF <<r, p>> \in DOMAIN bets THEN DueOf[<<r, p>>] ELSE 0

ClaimsOn(r) == {k \in DOMAIN claims : k[1] = r}

(* What was claimed of a round is a sum over finitely many claims, and     *)
(* nothing while the round is not settled.                                 *)
LEMMA ClaimedFacts ==
  ASSUME IInv, Books, NEW r
  PROVE  /\ IsFiniteSet(ClaimsOn(r)) /\ \A k \in ClaimsOn(r) : claims[k] \in Nat
         /\ ClaimedFrom(r) = SumFunctionOnSet(claims, ClaimsOn(r))
         /\ ClaimedFrom(r) \in Nat
         /\ r \notin DOMAIN rounds => ClaimedFrom(r) = 0
<1>1. /\ ClaimsOn(r) \subseteq DOMAIN claims /\ IsFiniteSet(DOMAIN claims)
      /\ \A k \in DOMAIN claims : claims[k] \in Nat /\ k[1] \in DOMAIN rounds
  BY DEF IInv, TypeOK, Books, ClaimedOnce, ClaimsOn
<1>2. IsFiniteSet(ClaimsOn(r)) /\ \A k \in ClaimsOn(r) : claims[k] \in Nat
  BY <1>1, FS_Subset
<1>3. ClaimedFrom(r) = SumFunctionOnSet(claims, ClaimsOn(r))
  BY DEF ClaimedFrom, ClaimsOn
<1>4. SumFunctionOnSet(claims, ClaimsOn(r)) \in Nat
  BY <1>2, SumType
<1>5. r \notin DOMAIN rounds => ClaimsOn(r) = {}
  BY <1>1 DEF ClaimsOn
<1> QED
  BY <1>2, <1>3, <1>4, <1>5, SumEmpty

(* The bets of one round are finitely many and their dues have a sum. *)
LEMMA DueOnRound ==
  ASSUME IInv, Books, NEW r
  PROVE  /\ StakesOnRound(r) \in SUBSET DOMAIN bets /\ IsFiniteSet(StakesOnRound(r))
         /\ \A k \in StakesOnRound(r) :
              DueOf[k] \in Nat /\ k = <<r, k[2]>> /\ k[2] \in Players
         /\ SumFunctionOnSet(DueOf, StakesOnRound(r)) \in Nat
<1>1. StakesOnRound(r) \in SUBSET DOMAIN bets
  BY DEF StakesOnRound
<1>2. \A k \in StakesOnRound(r) : k = <<r, k[2]>> /\ k[2] \in Players
  BY StakeFacts DEF StakesOnRound
<1> QED
  BY <1>1, <1>2, DuesAreSums

(* A step that leaves the claims, the bets and the result of a round alone *)
KeepsRound(r) ==
  /\ UNCHANGED claims
  /\ \A k : k[1] = r => /\ k \in DOMAIN bets' <=> k \in DOMAIN bets
                        /\ k \in DOMAIN bets => bets'[k] = bets[k]
  /\ r \in DOMAIN rounds' <=> r \in DOMAIN rounds
  /\ r \in DOMAIN rounds => rounds'[r] = rounds[r]

(* Then nothing was claimed from it and what it owes stays the same. *)
LEMMA KeepsRoundFacts ==
  ASSUME IInv, Books, NEW r, KeepsRound(r)
  PROVE  /\ ClaimedFrom(r)' = ClaimedFrom(r)
         /\ SumFunctionOnSet(DueOf, StakesOnRound(r))'
              = SumFunctionOnSet(DueOf, StakesOnRound(r))
         /\ \A p \in Players : OwedTo(r, p)' = OwedTo(r, p)
<1> DEFINE K == StakesOnRound(r)
<1>1. claims' = claims
  BY DEF KeepsRound
<1>2. ClaimedFrom(r)' = ClaimedFrom(r)
  BY <1>1, Zenon DEF ClaimedFrom
<1>3. StakesOnRound(r)' = K
  BY DEF KeepsRound, StakesOnRound
<1>4. \A k \in K : DueOf'[k] = DueOf[k]
  BY KeepsDue DEF KeepsRound, StakesOnRound
<1>5. IsFiniteSet(K) /\ \A k \in K : DueOf[k] \in Nat
  BY DueOnRound
<1>6. ASSUME NEW p \in Players PROVE OwedTo(r, p)' = OwedTo(r, p)
  <2>1. <<r, p>> \in DOMAIN bets' <=> <<r, p>> \in DOMAIN bets
    BY DEF KeepsRound
  <2>2. <<r, p>> \in DOMAIN bets => DueOf'[<<r, p>>] = DueOf[<<r, p>>]
    BY <1>4 DEF StakesOnRound
  <2> QED
    BY <2>1, <2>2 DEF OwedTo
<1> HIDE DEF K
<1>7. SumFunctionOnSet(DueOf', K) = SumFunctionOnSet(DueOf, K)
  BY <1>4, <1>5, SumEqual
<1> QED
  BY <1>2, <1>3, <1>6, <1>7 DEF K

(* A claim moves what the claimer is owed of a round from the dues to what *)
(* was claimed,                                                            *)
LEMMA ClaimMoves ==
  ASSUME IInv, Books, NEW p \in Players, NEW keys \in SUBSET FinishedBets, Claims(p, keys),
         NEW r, <<r, p>> \in keys
  PROVE  /\ ClaimedFrom(r)' = ClaimedFrom(r) + OwedTo(r, p)
         /\ SumFunctionOnSet(DueOf, StakesOnRound(r)) =
              OwedTo(r, p) + SumFunctionOnSet(DueOf, StakesOnRound(r))'
         /\ OwedTo(r, p) \in Nat
         /\ SumFunctionOnSet(DueOf, StakesOnRound(r))' \in Nat
         /\ \A q \in Players : OwedTo(r, q)' = IF q = p THEN 0 ELSE OwedTo(r, q)
<1> DEFINE key == <<r, p>>
           K   == StakesOnRound(r)
           C   == ClaimsOn(r)
           owed == OwedTo(r, p)
<1>1. /\ key \in DOMAIN bets /\ r \in DOMAIN rounds /\ key \in K
      /\ owed = DueOf[key] /\ DueOf[key] = Owed(key) /\ DueOf[key] \in Nat
  BY DueFacts DEF FinishedBets, StakesOnRound, OwedTo
<1>2. \A k \in K : k \in keys => k = key
  BY DueOnRound DEF Claims
<1>3. StakesOnRound(r)' = K \ {key}
  BY <1>2 DEF StakesOnRound, Claims
<1>4. \A k \in K \ {key} : DueOf'[k] = DueOf[k]
  BY <1>2, KeepsDue DEF StakesOnRound, Claims
<1>5. SumFunctionOnSet(DueOf, StakesOnRound(r))
        = owed + SumFunctionOnSet(DueOf, StakesOnRound(r))'
  <2>1. IsFiniteSet(K) /\ \A k \in K : DueOf[k] \in Nat
    BY DueOnRound
  <2> HIDE DEF K, key, owed
  <2>2. SumFunctionOnSet(DueOf, K) = DueOf[key] + SumFunctionOnSet(DueOf, K \ {key})
    BY <1>1, <2>1, SumRemove
  <2>3. SumFunctionOnSet(DueOf', K \ {key}) = SumFunctionOnSet(DueOf, K \ {key})
    <3>1. IsFiniteSet(K \ {key}) /\ \A k \in K \ {key} : DueOf[k] \in Nat
      BY <2>1, FS_Difference
    <3> QED
      BY <1>4, <3>1, SumEqual
  <2> QED
    BY <1>1, <1>3, <2>2, <2>3 DEF K
<1>6. SumFunctionOnSet(DueOf, StakesOnRound(r))' \in Nat
  <2>1. IsFiniteSet(K) /\ \A k \in K : DueOf[k] \in Nat
    BY DueOnRound
  <2> HIDE DEF K, key
  <2>2. IsFiniteSet(K \ {key}) /\ \A k \in K \ {key} : DueOf'[k] \in Nat
    BY <1>4, <2>1, FS_Difference
  <2>3. SumFunctionOnSet(DueOf', K \ {key}) \in Nat
    BY <2>2, SumType
  <2> QED
    BY <1>3, <2>3
<1>7. ClaimedFrom(r)' = ClaimedFrom(r) + owed
  <2>1. /\ IsFiniteSet(C) /\ \A k \in C : claims[k] \in Nat
        /\ ClaimedFrom(r) = SumFunctionOnSet(claims, C)
    BY ClaimedFacts
  <2>2. ClaimedFrom(r)' = SumFunctionOnSet(claims', ClaimsOn(r)')
    BY DEF ClaimedFrom, ClaimsOn
  <2>3. \A k \in keys : k \in DOMAIN bets /\ k = <<k[1], p>> /\ k \notin DOMAIN claims
    BY StakeFacts DEF Claims, FinishedBets, IInv, ClaimedOnce
  <2>4. key \notin C /\ key \notin DOMAIN claims
    BY <2>3 DEF ClaimsOn
  <2>5. \A k \in C : claims'[k] = claims[k]
    BY <2>3 DEF ClaimsOn, Claims
  <2>6. CASE Owed(key) > 0
    <3>1. ClaimsOn(r)' = C \cup {key} /\ claims'[key] = owed
      <4>1. claims'[key] = owed
        BY <1>1, <2>6 DEF Claims
      <4>2. \A k : k \in ClaimsOn(r)' <=> k \in C \cup {key}
        BY <2>3, <2>6 DEF Claims, ClaimsOn
      <4> QED
        BY <4>1, <4>2
    <3> DEFINE f == claims
               g == claims'
    <3> HIDE DEF C, key, owed
    <3>2. /\ IsFiniteSet(C) /\ key \notin C /\ owed \in Nat /\ g[key] = owed
          /\ \A k \in C : f[k] \in Nat /\ g[k] = f[k]
      BY <1>1, <2>1, <2>4, <2>5, <3>1
    <3> HIDE DEF f, g
    <3>3. SumFunctionOnSet(g, C \cup {key}) = SumFunctionOnSet(f, C) + owed
      <4>1. SumFunctionOnSet(g, C) = SumFunctionOnSet(f, C)
        BY <3>2, SumEqual
      <4>2. SumFunctionOnSet(f, C) \in Nat
        BY <3>2, SumType
      <4>3. SumFunctionOnSet(g, C \cup {key}) = g[key] + SumFunctionOnSet(g, C)
        BY <3>2, SumAdd
      <4> QED
        BY <3>2, <4>1, <4>2, <4>3
    <3> QED
      BY <2>1, <2>2, <3>1, <3>3 DEF f, g
  <2>7. CASE ~(Owed(key) > 0)
    <3>1. owed = 0
      BY <1>1, <2>7
    <3>2. \A k : k \in ClaimsOn(r)' <=> k \in C
      BY <2>3, <2>7 DEF Claims, ClaimsOn
    <3>3. ClaimsOn(r)' = C
      BY <3>2
    <3> HIDE DEF C, owed
    <3>4. SumFunctionOnSet(claims', C) = SumFunctionOnSet(claims, C)
      BY <2>1, <2>5, SumEqual
    <3>5. SumFunctionOnSet(claims, C) \in Nat
      BY <2>1, SumType
    <3> QED
      BY <2>1, <2>2, <3>1, <3>3, <3>4, <3>5
  <2> QED
    BY <2>6, <2>7
<1>8. ASSUME NEW q \in Players
      PROVE  OwedTo(r, q)' = IF q = p THEN 0 ELSE OwedTo(r, q)
  <2>1. CASE q = p
    BY <1>1, <2>1 DEF OwedTo, Claims
  <2>2. CASE q # p
    <3>1. <<r, q>> \notin keys
      BY <2>2 DEF Claims
    <3>2. <<r, q>> \in DOMAIN bets' <=> <<r, q>> \in DOMAIN bets
      BY <3>1 DEF Claims
    <3>3. <<r, q>> \in DOMAIN bets => DueOf'[<<r, q>>] = DueOf[<<r, q>>]
      BY <1>4, <2>2 DEF StakesOnRound
    <3> QED
      BY <2>2, <3>2, <3>3 DEF OwedTo
  <2> QED
    BY <2>1, <2>2
<1> QED
  BY <1>1, <1>5, <1>6, <1>7, <1>8

(* and leaves a round alone whose bet is not among those claimed. *)
LEMMA ClaimKeeps ==
  ASSUME IInv, Books, NEW p \in Players, NEW keys \in SUBSET FinishedBets, Claims(p, keys),
         NEW r, <<r, p>> \notin keys
  PROVE  /\ ClaimedFrom(r)' = ClaimedFrom(r)
         /\ SumFunctionOnSet(DueOf, StakesOnRound(r))'
              = SumFunctionOnSet(DueOf, StakesOnRound(r))
         /\ \A q \in Players : OwedTo(r, q)' = OwedTo(r, q)
<1> DEFINE K == StakesOnRound(r)
           C == ClaimsOn(r)
<1>1. \A k \in keys : k \in DOMAIN bets /\ k = <<k[1], p>> /\ k \notin DOMAIN claims
  BY StakeFacts DEF Claims, FinishedBets, IInv, ClaimedOnce
<1>2. \A k \in keys : k[1] # r
  BY <1>1
<1>3. /\ StakesOnRound(r)' = K /\ ClaimsOn(r)' = C
      /\ \A k \in K : k \in DOMAIN bets' /\ bets'[k] = bets[k]
      /\ \A k \in C : claims'[k] = claims[k]
  BY <1>1, <1>2 DEF StakesOnRound, ClaimsOn, Claims
<1>4. \A k \in K : DueOf'[k] = DueOf[k]
  BY <1>3, KeepsDue DEF StakesOnRound, Claims
<1>5. /\ IsFiniteSet(K) /\ \A k \in K : DueOf[k] \in Nat
      /\ IsFiniteSet(C) /\ \A k \in C : claims[k] \in Nat
      /\ ClaimedFrom(r) = SumFunctionOnSet(claims, C)
  BY DueOnRound, ClaimedFacts
<1>6. ClaimedFrom(r)' = SumFunctionOnSet(claims', ClaimsOn(r)')
  BY DEF ClaimedFrom, ClaimsOn
<1>7. ASSUME NEW q \in Players PROVE OwedTo(r, q)' = OwedTo(r, q)
  <2>1. <<r, q>> \in DOMAIN bets' <=> <<r, q>> \in DOMAIN bets
    BY <1>2 DEF Claims
  <2>2. <<r, q>> \in DOMAIN bets => DueOf'[<<r, q>>] = DueOf[<<r, q>>]
    BY <1>4 DEF StakesOnRound
  <2> QED
    BY <2>1, <2>2 DEF OwedTo
<1> HIDE DEF K, C
<1>8. SumFunctionOnSet(claims', C) = SumFunctionOnSet(claims, C)
  BY <1>3, <1>5, SumEqual
<1>9. SumFunctionOnSet(DueOf', K) = SumFunctionOnSet(DueOf, K)
  BY <1>4, <1>5, SumEqual
<1> QED
  BY <1>3, <1>5, <1>6, <1>7, <1>8, <1>9 DEF K

----------------------------------------------------------------------------
(* Every settled round pays out its pool *)

(* What a round has paid and still owes *)
DueFrom(r) == ClaimedFrom(r) + SumFunctionOnSet(DueOf, StakesOnRound(r))

(* It is the pool, or, of a round that winners share, less than a coin a   *)
(* player below it.                                                        *)
PaysOut(r) ==
  /\ DueFrom(r) <= Pool(r)
  /\ \/ Pool(r) = DueFrom(r)
     \/ Pool(r) < DueFrom(r) + Cardinality(Players)

RoundsPaid == \A r \in DOMAIN rounds : PaysOut(r)

(* The pool of a settled round stays the same. *)
LEMMA PoolKept ==
  ASSUME IInv, IInv', NEW r \in DOMAIN rounds, r \in DOMAIN rounds', rounds'[r] = rounds[r]
  PROVE  Pool(r)' = Pool(r)
<1>1. PoolOf(r) = rounds[r].pool
  BY RoundTypes
<1>2. (\A q \in DOMAIN rounds : PoolOf(q) = rounds[q].pool /\ rounds[q] \in FinishedRounds)'
  BY RoundTypes, PTL
<1>3. PoolOf(r)' = rounds'[r].pool
  BY <1>2
<1> QED
  BY <1>1, <1>3 DEF Pool

(* It keeps paying out as long as what it has paid and still owes stays    *)
(* the same.                                                               *)
LEMMA PaysOutKept ==
  ASSUME NEW r, PaysOut(r), DueFrom(r)' = DueFrom(r), Pool(r)' = Pool(r)
  PROVE  PaysOut(r)'
BY DEF PaysOut

(* A claim only moves what a round owes to what it has paid. *)
LEMMA ClaimPaysOut ==
  ASSUME IInv, Books, NEW p \in Players, NEW keys \in SUBSET FinishedBets, Claims(p, keys),
         NEW r
  PROVE  DueFrom(r)' = DueFrom(r)
<1>1. CASE <<r, p>> \in keys
  <2> DEFINE c  == ClaimedFrom(r)
             d  == SumFunctionOnSet(DueOf, StakesOnRound(r))'
             o  == OwedTo(r, p)
  <2>1. /\ c \in Nat /\ d \in Nat /\ o \in Nat
        /\ DueFrom(r) = c + (o + d) /\ DueFrom(r)' = (c + o) + d
    BY <1>1, ClaimMoves, ClaimedFacts DEF DueFrom
  <2> HIDE DEF c, d, o
  <2> QED
    BY <2>1
<1>2. CASE <<r, p>> \notin keys
  BY <1>2, ClaimKeeps DEF DueFrom
<1> QED
  BY <1>1, <1>2

(* The round a step settles pays out. *)
LEMMA ClosePaysOut ==
  ASSUME IInv, IInv', Books, Books', PoolsMatch, Closes,
         NEW r \in DOMAIN rounds' \ DOMAIN rounds
  PROVE  PaysOut(r)'
<1>1. /\ r \in DOMAIN rounds' /\ r \notin DOMAIN rounds /\ PoolOf(r)' = PoolOf(r)
      /\ bets' = bets /\ claims' = claims
  BY SettledIs DEF Closes
<1>2. Pool(r)' = Pool(r)
  BY <1>1 DEF Pool
<1>3. StakesOnRound(r)' = StakesOnRound(r)
  BY <1>1 DEF StakesOnRound
<1>4. ClaimedFrom(r)' = 0
  <2>1. ClaimedFrom(r)' = ClaimedFrom(r)
    BY <1>1, Zenon DEF ClaimedFrom
  <2> QED
    BY <1>1, <2>1, ClaimedFacts
<1> DEFINE s == SumFunctionOnSet(DueOf', StakesOnRound(r))
<1>5. DueFrom(r)' = 0 + s
  BY <1>3, <1>4 DEF DueFrom
<1>6. s \in Nat /\ s <= Pool(r) /\ (Pool(r) = s \/ Pool(r) < s + Cardinality(Players))
  BY Settlement
<1> HIDE DEF s
<1>7. 0 + s = s
  BY <1>6
<1> QED
  BY <1>2, <1>5, <1>6, <1>7 DEF PaysOut

(* No round is settled at first, *)
LEMMA PaidInit == Init => RoundsPaid
BY DEF Init, RoundsPaid, EmptyMap

(* and no step makes one pay out more or less. *)
LEMMA PaidNext ==
  IInv /\ IInv' /\ Books /\ Books' /\ PoolsMatch /\ RoundsPaid /\ [Next]_vars => RoundsPaid'
<1> SUFFICES ASSUME IInv, IInv', Books, Books', PoolsMatch, RoundsPaid, [Next]_vars,
                    NEW r \in DOMAIN rounds'
             PROVE  PaysOut(r)'
  BY DEF RoundsPaid
<1>1. ASSUME r \in DOMAIN rounds, rounds'[r] = rounds[r], KeepsRound(r)
      PROVE  PaysOut(r)'
  <2>1. DueFrom(r)' = DueFrom(r)
    BY <1>1, KeepsRoundFacts DEF DueFrom
  <2>2. Pool(r)' = Pool(r)
    BY <1>1, PoolKept
  <2> QED
    BY <1>1, <2>1, <2>2, PaysOutKept DEF RoundsPaid
<1>2. CASE Quiet
  BY <1>1, <1>2 DEF Quiet, bookVars, KeepsRound
<1>3. ASSUME NEW p \in Players, NEW q \in Nat, NEW dir \in Directions,
             NEW gross \in Stakes, BetsOn(p, q, dir, gross, config.token_denom)
      PROVE  PaysOut(r)'
  <2>1. r # q /\ r \in DOMAIN rounds /\ rounds'[r] = rounds[r]
    BY <1>3 DEF BetsOn
  <2>2. KeepsRound(r)
    BY <1>3, <2>1 DEF BetsOn, KeepsRound
  <2> QED
    BY <1>1, <2>1, <2>2
<1>4. CASE Closes
  <2>1. CASE r \in DOMAIN rounds
    <3>1. rounds'[r] = rounds[r] /\ KeepsRound(r)
      BY <1>4, <2>1 DEF Closes, KeepsRound
    <3> QED
      BY <1>1, <2>1, <3>1
  <2>2. CASE r \notin DOMAIN rounds
    BY <1>4, <2>2, ClosePaysOut
  <2> QED
    BY <2>1, <2>2
<1>5. ASSUME NEW p \in Players, NEW keys \in SUBSET FinishedBetsOf(p), Pay(p, keys)
      PROVE  PaysOut(r)'
  <2>1. Claims(p, keys) /\ keys \in SUBSET FinishedBets
    BY <1>5, PayIs, OfPlayer
  <2>2. r \in DOMAIN rounds /\ rounds' = rounds
    BY <2>1 DEF Claims
  <2>3. DueFrom(r)' = DueFrom(r)
    BY <2>1, ClaimPaysOut
  <2>4. Pool(r)' = Pool(r)
    BY <2>2, PoolKept
  <2> QED
    BY <2>2, <2>3, <2>4, PaysOutKept DEF RoundsPaid
<1> QED
  BY <1>2, <1>3, <1>4, <1>5, StepIs

(* What the run sums over the bets of a settled round is what they are due. *)
LEMMA PaidIs == Players # {} /\ IInv /\ Books /\ RoundsPaid => RoundPaysOutItsPool
<1> SUFFICES ASSUME Players # {}, IInv, Books, RoundsPaid, NEW r \in DOMAIN rounds
             PROVE  LET due == ClaimedFrom(r) + SumOwed({k \in DOMAIN bets : k[1] = r})
                    IN  /\ due <= PoolShares(rounds[r])
                        /\ PoolShares(rounds[r]) < due + Cardinality(Players)
  BY DEF RoundPaysOutItsPool
<1>1. SumOwed({k \in DOMAIN bets : k[1] = r}) = SumFunctionOnSet(DueOf, StakesOnRound(r))
  <2>1. StakesOnRound(r) \in SUBSET FinishedBets
    BY DEF StakesOnRound, FinishedBets
  <2>2. SumOwed(StakesOnRound(r)) = SumFunctionOnSet(DueOf, StakesOnRound(r))
    BY <2>1, OwedIsDue
  <2> QED
    BY <2>2 DEF StakesOnRound
<1>2. Pool(r) = PoolShares(rounds[r])
  BY RoundFacts
<1>3. PaysOut(r) /\ DueFrom(r) \in Nat
  BY ClaimedFacts, DueOnRound DEF RoundsPaid, DueFrom
<1>4. Cardinality(Players) \in Nat /\ Cardinality(Players) # 0
  BY PredictionAssumption, FS_EmptySet, FS_CardinalityType
<1>5. DueFrom(r) <= Pool(r) /\ Pool(r) < DueFrom(r) + Cardinality(Players)
  BY <1>3, <1>4 DEF PaysOut
<1> QED
  BY <1>1, <1>2, <1>5 DEF DueFrom

(* What a settled round has paid and still owes is its pool, but for less  *)
(* than a coin a player, whatever the bets, the prices and the order in    *)
(* which players claim.  With no player at all the strict bound would be   *)
(* zero coins.                                                             *)
THEOREM RoundsPayOut == Players # {} => (Spec => []RoundPaysOutItsPool)
<1> SUFFICES ASSUME Players # {} PROVE Spec => []RoundPaysOutItsPool
  OBVIOUS
<1>1. IInv /\ Books /\ RoundsPaid => RoundPaysOutItsPool
  BY PaidIs
<1>2. IInv /\ IInv' /\ Books /\ Books' /\ PoolsMatch /\ RoundsPaid /\ [Next]_vars
        => RoundsPaid'
  BY PaidNext
<1> QED
  BY <1>1, <1>2, PaidInit, Invariance, BooksInit, BooksNext, PoolsInit, PoolsNext, PTL
     DEF Spec

----------------------------------------------------------------------------
(* The dues when a round is settled *)

(* As a formula, to use it of the next state *)
LEMMA DueTypes == IInv => \A k \in DOMAIN bets : DueOf[k] \in Nat
BY DueFacts

(* CloseRound settles one round or none; it never raises what is due, and  *)
(* lowers it by less than a coin a player if it settles one.               *)
LEMMA CloseOwing ==
  ASSUME IInv, IInv', Books, Books', PoolsMatch, Closes
  PROVE  /\ Owing' <= Owing
         /\ \/ DOMAIN rounds' = DOMAIN rounds /\ Owing' = Owing
            \/ \E r : /\ r \notin DOMAIN rounds /\ DOMAIN rounds' = DOMAIN rounds \cup {r}
                      /\ Owing <= Owing' + Cardinality(Players)
<1> DEFINE S == DOMAIN bets
           f == DueOf
           g == DueOf'
<1>1. /\ UNCHANGED bets /\ nextRoundId \in Nat
      /\ DOMAIN rounds = 0..(nextRoundId - 3) /\ DOMAIN rounds' = 0..(nextRoundId - 2)
      /\ \A r \in DOMAIN rounds : r \in DOMAIN rounds' /\ rounds'[r] = rounds[r]
  BY RoundFacts DEF Closes
<1>2. IsFiniteSet(S) /\ \A k \in S : f[k] \in Nat
  BY DuesAreSums
<1>3. \A k \in S : g[k] \in Nat
  <2>1. (\A k \in DOMAIN bets : DueOf[k] \in Nat)'
    BY DueTypes, PTL
  <2> QED
    BY <1>1, <2>1
<1>4. Owing = SumFunctionOnSet(f, S) /\ Owing' = SumFunctionOnSet(g, S)
  BY <1>1 DEF Owing
<1>5. CASE nextRoundId < 2
  <2>1. DOMAIN rounds' = DOMAIN rounds
    BY <1>1, <1>5
  <2>2. \A k \in S : g[k] = f[k]
    BY <1>1, <2>1, KeepsDue
  <2> HIDE DEF S, f, g
  <2>3. SumFunctionOnSet(g, S) = SumFunctionOnSet(f, S) /\ SumFunctionOnSet(f, S) \in Nat
    BY <1>2, <2>2, SumEqual, SumType
  <2> QED
    BY <1>4, <2>1, <2>3
<1>6. CASE nextRoundId >= 2
  <2> DEFINE r == nextRoundId - 2
             K == StakesOnRound(r)
             P == Pool(r)
             n == Cardinality(Players)
  <2>1. r \notin DOMAIN rounds /\ DOMAIN rounds' = DOMAIN rounds \cup {r}
    BY <1>1, <1>6
  <2>2. r \in DOMAIN rounds' \ DOMAIN rounds /\ r \in Nat /\ r < nextRoundId
    BY <1>1, <1>6, <2>1
  <2>3. K \in SUBSET S /\ \A k \in S \ K : k[1] # r
    BY DEF StakesOnRound
  <2>4. \A k \in S \ K : g[k] = f[k]
    <3> SUFFICES ASSUME NEW k \in S, k \notin K PROVE g[k] = f[k]
      OBVIOUS
    <3>1. k[1] \in DOMAIN rounds' <=> k[1] \in DOMAIN rounds
      BY <2>1, <2>3
    <3> QED
      BY <1>1, <3>1, KeepsDue
  <2>5. \A k \in K : f[k] = StakeOf[k]
    BY <2>1, DueFacts DEF StakesOnRound
  <2> HIDE DEF r
  <2>6. /\ IsFiniteSet(K) /\ SumFunctionOnSet(StakeOf, K) = P /\ P \in Nat
    BY <2>2, StakesFillPool
  <2>7. /\ SumFunctionOnSet(g, K) \in Nat
        /\ SumFunctionOnSet(g, K) <= P
        /\ P = SumFunctionOnSet(g, K) \/ P < SumFunctionOnSet(g, K) + n
    BY <2>2, Settlement
  <2>8. n \in Nat
    BY PredictionAssumption, FS_CardinalityType
  <2> HIDE DEF S, K, P, f, g, n
  <2>9. SumFunctionOnSet(f, K) = P
    <3>1. \A k \in K : StakeOf[k] \in Nat /\ f[k] = StakeOf[k]
      BY <1>2, <2>3, <2>5
    <3> QED
      BY <2>6, <3>1, SumEqual
  <2>10. SumFunctionOnSet(f, S) = SumFunctionOnSet(f, K) + SumFunctionOnSet(f, S \ K)
    <3>1. IsFiniteSet(S) /\ (\A k \in S : f[k] \in Nat) /\ \A k \in K : k \in S
      BY <1>2, <2>3
    <3> QED
      BY <3>1, SumSplit
  <2>11. SumFunctionOnSet(g, S) = SumFunctionOnSet(g, K) + SumFunctionOnSet(g, S \ K)
    <3>1. IsFiniteSet(S) /\ (\A k \in S : g[k] \in Nat) /\ \A k \in K : k \in S
      BY <1>2, <1>3, <2>3
    <3> QED
      BY <3>1, SumSplit
  <2>12. /\ SumFunctionOnSet(g, S \ K) = SumFunctionOnSet(f, S \ K)
         /\ SumFunctionOnSet(f, S \ K) \in Nat
    <3>1. IsFiniteSet(S \ K) /\ \A k \in S \ K : f[k] \in Nat
      BY <1>2, FS_Subset
    <3> QED
      BY <2>4, <3>1, SumEqual, SumType
  <2>13. Owing' <= Owing /\ Owing <= Owing' + n
    BY <1>4, <2>6, <2>7, <2>8, <2>9, <2>10, <2>11, <2>12
  <2> QED
    BY <2>1, <2>13 DEF n
<1> QED
  BY <1>1, <1>5, <1>6

----------------------------------------------------------------------------
(* The payment of a claim *)

(* All configurations pay and are paid in one token. *)
OneToken == \A c, d \in Configs : c.token_denom = d.token_denom

(* UpdateConfig does not check what instantiate and ModifyDevWallets do:   *)
(* that the ratios of the wallets sum to one.                              *)
WalletsChecked ==
  \A c \in Configs : c.dev_wallet_list # <<>> => RatiosSumToOne(c.dev_wallet_list)

(* No configuration has an empty list of wallets, and there is a bound on  *)
(* the lengths of the lists.                                               *)
WalletsListed ==
  /\ \A c \in Configs : c.dev_wallet_list # <<>>
  /\ \E n \in Nat : \A w \in AllWalletLists : Len(w) <= n

(* What the stored configuration then always has *)
ConfigKept ==
  /\ \E c \in Configs : config.token_denom = c.token_denom
  /\ config.dev_wallet_list \in AllWalletLists
  /\ config.dev_wallet_list # <<>> => RatiosSumToOne(config.dev_wallet_list)
  /\ config.dev_wallet_list = <<>> => \E c \in Configs : c.dev_wallet_list = <<>>

(* The empty list does not pass the check. *)
LEMMA NoRatios == ~RatiosSumToOne(<<>>)
<1>1. TotalRatio(<<>>) = SumFunctionOnSet(<<>>, {})
  BY DEF TotalRatio, SumFunction
<1> QED
  BY <1>1, SumEmpty, BetMathAssumption DEF RatiosSumToOne

(* The configuration a step stores is a given one, or has given wallets    *)
(* whose ratios were checked.                                              *)
LEMMA ConfigNext ==
  ASSUME WalletsChecked, IInv, ConfigKept, [Next]_vars
  PROVE  ConfigKept'
<1>1. CASE UNCHANGED config
  BY <1>1 DEF ConfigKept
<1>2. ASSUME NEW c \in Configs, config' = c PROVE ConfigKept'
  BY <1>2 DEF ConfigKept, WalletsChecked, AllWalletLists
<1>3. ASSUME NEW w \in WalletLists, RatiosSumToOne(w),
             config' = [config EXCEPT !.dev_wallet_list = w]
      PROVE  ConfigKept'
  <2>1. config \in ConfigType
    BY DEF IInv, TypeOK
  <2>2. config'.dev_wallet_list = w /\ config'.token_denom = config.token_denom
    BY <1>3, <2>1 DEF ConfigType
  <2>3. w # <<>> /\ w \in AllWalletLists
    BY <1>3, NoRatios DEF AllWalletLists
  <2> QED
    BY <1>3, <2>2, <2>3 DEF ConfigKept
<1> QED
  BY <1>1, <1>2, <1>3, ConfigKinds

(* The token the contract holds is the same before and after a step. *)
LEMMA TokenKept ==
  ASSUME OneToken, IInv, ConfigKept, ConfigKept'
  PROVE  /\ config'.token_denom = config.token_denom
         /\ config.token_denom \in Tokens
BY DEF OneToken, ConfigKept, IInv, TypeOK, ConfigType

(* The cuts of the wallets come to no more than the fee, and to less than  *)
(* a coin a wallet below it.                                               *)
LEMMA CutsOfFee ==
  ASSUME NEW fee \in Nat, NEW wallets \in Seq(Nat),
         wallets # <<>> => RatiosSumToOne(wallets)
  PROVE  /\ TotalCuts(fee, wallets) \in Nat
         /\ TotalCuts(fee, wallets) <= fee
         /\ wallets # <<>> => fee < TotalCuts(fee, wallets) + Len(wallets)
<1> USE BetMathAssumption
<1> DEFINE D == DOMAIN wallets
           s == Cuts(fee, wallets)
<1>1. /\ D = 1..Len(wallets) /\ Len(wallets) \in Nat
      /\ \A i \in D : wallets[i] \in Nat
  OBVIOUS
<1>2. IsFiniteSet(D) /\ Cardinality(D) = Len(wallets)
  <2> DEFINE n == Len(wallets)
  <2>1. n \in Nat /\ D = 1..n
    BY <1>1
  <2> HIDE DEF n, D
  <2>2. /\ IsFiniteSet(1..n)
        /\ Cardinality(1..n) = IF 1 > n THEN 0 ELSE n - 1 + 1
    BY <2>1, FS_Interval
  <2>3. Cardinality(1..n) = n
    BY <2>1, <2>2
  <2> QED
    BY <2>1, <2>2, <2>3 DEF n
<1>3. /\ TotalCuts(fee, wallets) = SumFunctionOnSet(s, D)
      /\ \A i \in D : s[i] = (fee * wallets[i]) \div RatioOne
  BY DEF TotalCuts, Cuts, MulFloor, SumFunction
<1>4. CASE wallets = <<>>
  <2>1. D = {}
    BY <1>4
  <2> QED
    BY <1>3, <1>4, <2>1, SumEmpty
<1>5. CASE wallets # <<>>
  <2>1. SumFunctionOnSet(wallets, D) = RatioOne
    BY <1>5 DEF RatiosSumToOne, TotalRatio, SumFunction
  <2>3. RatioOne \in Nat /\ RatioOne > 0
    OBVIOUS
  <2> HIDE DEF D, s
  <2>2. /\ SumFunctionOnSet(s, D) \in Nat
        /\ SumFunctionOnSet(s, D) <= fee
        /\ fee < SumFunctionOnSet(s, D) + Cardinality(D)
    BY <1>1, <1>2, <1>3, <2>1, <2>3, SumShares
  <2> QED
    BY <1>2, <1>3, <2>2
<1> QED
  BY <1>4, <1>5

(* What both claims take out of the bank: what the bets are owed, less     *)
(* what the fee is more than the cuts it is divided into.                  *)
Pays(keys, dust) ==
  /\ vault[config.token_denom] + dust >= SumOwed(keys)
  /\ vault' = [vault EXCEPT ![config.token_denom] = @ - (SumOwed(keys) - dust)]
  /\ \E k \in keys : Owed(k) > 0

(* The dust of a claim is less than a coin a wallet. *)
DustFits(dust) ==
  config.dev_wallet_list # <<>> => dust <= Len(config.dev_wallet_list)

(* A claim takes no more from the bank than the bets it is about are owed. *)
LEMMA PayMoney ==
  ASSUME IInv, Books, ConfigKept, NEW p \in Players, NEW keys \in SUBSET FinishedBetsOf(p),
         Pay(p, keys), vault[config.token_denom] \in Nat
  PROVE  \E dust \in Nat : Pays(keys, dust) /\ DustFits(dust)
<1> USE PredictionAssumption, BetMathAssumption
<1> DEFINE charged == SumOwed(Commissionable(keys))
           fee     == FeeOn(charged)
           wallets == config.dev_wallet_list
           cuts    == IF charged = 0 THEN 0 ELSE TotalCuts(fee, wallets)
           token   == config.token_denom
           owed    == SumOwed(keys)
           net     == owed - fee
<1>1. keys \in SUBSET FinishedBets /\ Commissionable(keys) \in SUBSET FinishedBets
  BY OfPlayer DEF Commissionable
<1>2. owed \in Nat /\ charged \in Nat
  BY <1>1, OwedIsDue
<1>3. fee \in Nat /\ wallets \in Seq(Nat) /\ (charged = 0 => fee = 0)
  <2>1. config \in ConfigType
    BY DEF IInv, TypeOK
  <2> HIDE DEF charged
  <2> DEFINE product == config.gaming_fee * charged
  <2>2. product \in Nat
    BY <1>2, <2>1 DEF ConfigType
  <2>3. FeeScale \in Nat /\ FeeScale > 0
        /\ fee = IF charged = 0 THEN 0 ELSE product \div FeeScale
    BY DEF FeeOn, GamingFee, MultiplyRatio
  <2> HIDE DEF product, fee
  <2>4. fee \in Nat
    BY <2>2, <2>3, DivBounds
  <2> QED
    BY <2>1, <2>3, <2>4 DEF ConfigType
<1>4. /\ owed > 0
      /\ net + cuts <= vault[token]
      /\ vault' = [vault EXCEPT ![token] = @ - (net + cuts)]
  BY DEF Pay, CanPay, SentFor, NetFor, FeeFor
<1> HIDE DEF fee, charged
<1>5. /\ cuts \in Nat /\ cuts <= fee
      /\ wallets # <<>> => fee - cuts <= Len(wallets)
  <2>1. /\ TotalCuts(fee, wallets) \in Nat
        /\ TotalCuts(fee, wallets) <= fee
        /\ wallets # <<>> => fee < TotalCuts(fee, wallets) + Len(wallets)
    BY <1>3, CutsOfFee DEF ConfigKept
  <2>2. Len(wallets) \in Nat
    BY <1>3
  <2> QED
    BY <1>3, <2>1, <2>2
<1> HIDE DEF cuts, wallets
<1> DEFINE dust == fee - cuts
<1>6. dust \in Nat /\ (wallets # <<>> => dust <= Len(wallets))
  BY <1>3, <1>5
<1> HIDE DEF owed
<1>7. net + cuts = owed - dust
  BY <1>2, <1>3, <1>5
<1>8. \E k \in keys : Owed(k) > 0
  <2> SUFFICES ASSUME \A k \in keys : ~(Owed(k) > 0) PROVE FALSE
    OBVIOUS
  <2>1. \A k \in keys : DueOf[k] = 0
    <3>1. \A k \in keys : k \in DOMAIN bets /\ DueOf[k] = Owed(k) /\ DueOf[k] \in Nat
      BY <1>1, DueFacts DEF FinishedBets
    <3> QED
      BY <3>1
  <2>2. IsFiniteSet(keys)
    BY <1>1, OfPlayer, DuesAreSums
  <2>3. SumFunctionOnSet(DueOf, keys) = 0
    BY <2>1, <2>2, SumZero
  <2>4. owed = SumFunctionOnSet(DueOf, keys)
    BY <1>1, OwedIsDue DEF owed
  <2> QED
    BY <1>2, <1>4, <2>3, <2>4
<1>9. Pays(keys, dust)
  <2>1. vault' = [vault EXCEPT ![token] = @ - (owed - dust)]
    BY <1>4, <1>7, Zenon
  <2>2. vault[token] + dust >= owed
    BY <1>2, <1>4, <1>6, <1>7
  <2> QED
    BY <1>8, <2>1, <2>2 DEF Pays, owed
<1> QED
  BY <1>6, <1>9 DEF wallets, DustFits

----------------------------------------------------------------------------
(* The contract holds what it owes *)

MoneyInv ==
  /\ ConfigKept
  /\ vault \in [Tokens -> Nat]
  /\ Owing <= vault[config.token_denom]

(* A new contract owes nothing. *)
LEMMA MoneyInit == Init => MoneyInv
<1> SUFFICES ASSUME Init PROVE MoneyInv
  OBVIOUS
<1>1. ConfigKept
  BY DEF Init, ConfigKept, AllWalletLists
<1>2. Owing = 0
  <2>1. DOMAIN bets = {}
    BY DEF Init, EmptyMap
  <2> QED
    BY <2>1, SumEmpty DEF Owing
<1>3. vault \in [Tokens -> Nat] /\ vault[config.token_denom] = 0
  BY PredictionAssumption DEF Init, ConfigType
<1> QED
  BY <1>1, <1>2, <1>3 DEF MoneyInv

(* What a step does to the coins and to the dues: it leaves both alone,    *)
(* brings in a stake, settles a round or pays a claim.                     *)
LEMMA StepKinds ==
  ASSUME IInv, IInv', Books, MoneyInv, config.token_denom \in Tokens, [Next]_vars
  PROVE  \/ Quiet
         \/ \E p \in Players, r \in Nat, dir \in Directions, gross \in Stakes :
              BetsOn(p, r, dir, gross, config.token_denom)
         \/ Closes
         \/ \E p \in Players, keys \in SUBSET FinishedBets, dust \in Nat :
              Claims(p, keys) /\ Pays(keys, dust) /\ DustFits(dust)
<1>1. ASSUME NEW p \in Players, NEW keys \in SUBSET FinishedBetsOf(p), Pay(p, keys)
      PROVE  \E dust \in Nat :
               /\ keys \in SUBSET FinishedBets
               /\ Claims(p, keys) /\ Pays(keys, dust) /\ DustFits(dust)
  <2>1. vault[config.token_denom] \in Nat /\ ConfigKept
    BY DEF MoneyInv
  <2>2. PICK dust \in Nat : Pays(keys, dust) /\ DustFits(dust)
    BY <1>1, <2>1, PayMoney
  <2> QED
    BY <1>1, <2>2, PayIs, OfPlayer
<1> QED
  BY <1>1, StepIs

(* Each of the four keeps the coins above the dues. *)
LEMMA MoneyNext ==
  OneToken /\ WalletsChecked /\ IInv /\ IInv' /\ Books /\ Books' /\ PoolsMatch
    /\ MoneyInv /\ [Next]_vars => MoneyInv'
<1> SUFFICES ASSUME OneToken, WalletsChecked, IInv, IInv', Books, Books', PoolsMatch,
                    MoneyInv, [Next]_vars
             PROVE  MoneyInv'
  OBVIOUS
<1> DEFINE token == config.token_denom
<1>1. ConfigKept /\ ConfigKept'
  BY ConfigNext DEF MoneyInv
<1>2. /\ token \in Tokens /\ vault \in [Tokens -> Nat] /\ config'.token_denom = token
      /\ vault[token] \in Nat /\ Owing <= vault[token] /\ Owing \in Nat
  BY <1>1, TokenKept, LiabilitiesIsOwing DEF MoneyInv
<1> SUFFICES vault' \in [Tokens -> Nat] /\ Owing' <= vault'[token]
  BY <1>1, <1>2 DEF MoneyInv
<1> HIDE DEF token
<1>3. CASE Quiet
  BY <1>2, <1>3, KeepsOwing DEF Quiet, bookVars
<1>4. ASSUME NEW p \in Players, NEW r \in Nat, NEW dir \in Directions,
             NEW gross \in Stakes, BetsOn(p, r, dir, gross, token)
      PROVE  vault' \in [Tokens -> Nat] /\ Owing' <= vault'[token]
  <2>1. Owing' = Owing + gross
    BY <1>4, BetOwing
  <2>2. vault' = [vault EXCEPT ![token] = @ + gross] /\ gross \in Nat
    BY <1>4, PredictionAssumption DEF BetsOn
  <2> QED
    BY <1>2, <2>1, <2>2
<1>5. CASE Closes
  <2>1. Owing' <= Owing /\ UNCHANGED vault
    BY <1>5, CloseOwing DEF Closes
  <2>2. (Liabilities = Owing /\ Owing \in Nat)'
    BY LiabilitiesIsOwing, PTL
  <2> QED
    BY <1>2, <2>1, <2>2
<1>6. ASSUME NEW p \in Players, NEW keys \in SUBSET FinishedBets, NEW dust \in Nat,
             Claims(p, keys), Pays(keys, dust)
      PROVE  vault' \in [Tokens -> Nat] /\ Owing' <= vault'[token]
  <2>1. Owing = Owing' + SumOwed(keys) /\ Owing' \in Nat /\ SumOwed(keys) \in Nat
    BY <1>6, ClaimOwing, OwedIsDue
  <2>2. /\ vault[token] + dust >= SumOwed(keys)
        /\ vault' = [vault EXCEPT ![token] = @ - (SumOwed(keys) - dust)]
    BY <1>6 DEF Pays, token
  <2> QED
    BY <1>2, <2>1, <2>2
<1>7. token \in Tokens
  BY <1>2
<1> QED
  BY <1>3, <1>4, <1>5, <1>6, <1>7, StepKinds DEF token

(* The contract holds at least what it may still have to pay: fees and     *)
(* cuts never eat into another player's coins.  OneToken is there because  *)
(* UpdateConfig may change the token while bets in the old one are stored, *)
(* WalletsChecked because it may store wallets whose cuts come to more     *)
(* than the fee.                                                           *)
THEOREM Covered ==
  OneToken /\ WalletsChecked => (Spec => [](Liabilities <= vault[config.token_denom]))
<1> SUFFICES ASSUME OneToken, WalletsChecked
             PROVE  Spec => [](Liabilities <= vault[config.token_denom])
  OBVIOUS
<1>1. IInv /\ Books /\ MoneyInv => Liabilities <= vault[config.token_denom]
  BY LiabilitiesIsOwing DEF MoneyInv
<1>2. IInv /\ IInv' /\ Books /\ Books' /\ PoolsMatch /\ MoneyInv /\ [Next]_vars
        => MoneyInv'
  BY MoneyNext
<1> QED
  BY <1>1, <1>2, MoneyInit, Invariance, BooksInit, BooksNext, PoolsInit, PoolsNext, PTL
     DEF Spec

----------------------------------------------------------------------------
(* Nobody is kept from the coins of a settled bet *)

(* WinnersCanClaim in terms of the guards of a payment, for the bet of one *)
(* round or for any others: what a claim sends is in the vault, and none   *)
(* of it is zero coins.                                                    *)
ClaimsAreTaken ==
  \A p \in Players : \A keys \in SUBSET FinishedBetsOf(p) :
    LET charged == SumOwed(Commissionable(keys))
    IN  /\ SumOwed(keys) > 0
        /\ charged > 0 =>
             /\ config.gaming_fee < FeeScale
             /\ CanAward(p, Experience(charged, config.exp_per_denom_won))
             /\ CutsAreWhole(charged)
        => CanPay(p, keys)

(* The fee is less than what it is charged on, and the vault holds all     *)
(* that is owed.                                                           *)
LEMMA ClaimFits ==
  ASSUME IInv, Books, MoneyInv, vault[config.token_denom] \in Nat, NEW p \in Players,
         NEW keys \in SUBSET FinishedBetsOf(p), SumOwed(keys) > 0,
         SumOwed(Commissionable(keys)) > 0 => config.gaming_fee < FeeScale
  PROVE  LET charged == SumOwed(Commissionable(keys))
             fee     == FeeOn(charged)
         IN  /\ charged \in Nat
             /\ SumOwed(keys) - fee > 0
             /\ SumOwed(keys) - fee
                  + (IF charged = 0 THEN 0 ELSE TotalCuts(fee, config.dev_wallet_list))
                  <= vault[config.token_denom]
<1> DEFINE charged == SumOwed(Commissionable(keys))
           owed    == SumOwed(keys)
           fee     == FeeOn(charged)
           wallets == config.dev_wallet_list
           coins   == vault[config.token_denom]
<1>1. keys \in SUBSET FinishedBets /\ Commissionable(keys) \in SUBSET keys
  BY OfPlayer DEF Commissionable
<1>2. keys \in SUBSET DOMAIN bets
  BY <1>1 DEF FinishedBets
<1>3. owed \in Nat /\ charged \in Nat /\ charged <= owed /\ owed <= coins
  <2>1. /\ owed = SumFunctionOnSet(DueOf, keys) /\ owed \in Nat
        /\ charged = SumFunctionOnSet(DueOf, Commissionable(keys)) /\ charged \in Nat
    BY <1>1, OwedIsDue
  <2>2. IsFiniteSet(keys) /\ \A k \in keys : DueOf[k] \in Nat
    BY <1>2, DuesAreSums
  <2>3. IsFiniteSet(DOMAIN bets) /\ \A k \in DOMAIN bets : DueOf[k] \in Nat
    BY DuesAreSums
  <2> DEFINE f == DueOf
             S == DOMAIN bets
             T == Commissionable(keys)
  <2> HIDE DEF owed, charged, f, S, T
  <2>4. SumFunctionOnSet(f, T) <= SumFunctionOnSet(f, keys)
    <3>1. T \in SUBSET keys /\ IsFiniteSet(keys) /\ \A k \in keys : f[k] \in Nat
      BY <1>1, <2>2 DEF f, T
    <3> QED
      BY <3>1, SumSubset
  <2>5. SumFunctionOnSet(f, keys) <= SumFunctionOnSet(f, S)
    <3>1. keys \in SUBSET S /\ IsFiniteSet(S) /\ \A k \in S : f[k] \in Nat
      BY <1>2, <2>3 DEF f, S
    <3> QED
      BY <3>1, SumSubset
  <2>6. Owing \in Nat /\ Owing <= coins
    BY LiabilitiesIsOwing DEF MoneyInv
  <2>7. /\ owed = SumFunctionOnSet(f, keys) /\ charged = SumFunctionOnSet(f, T)
        /\ Owing = SumFunctionOnSet(f, S)
    BY <2>1 DEF f, S, T, Owing
  <2> HIDE DEF coins
  <2>8. coins \in Nat
    BY DEF coins
  <2> QED
    BY <2>1, <2>4, <2>5, <2>6, <2>7, <2>8
<1>4. config.gaming_fee \in Nat /\ wallets \in Seq(Nat) /\ FeeScale \in Nat /\ FeeScale > 0
  BY BetMathAssumption DEF IInv, TypeOK, ConfigType
<1> HIDE DEF charged, owed, coins
<1>5. fee \in Nat /\ fee < owed
  <2>1. CASE charged = 0
    <3>1. owed > 0
      BY DEF owed
    <3> QED
      BY <2>1, <3>1 DEF FeeOn
  <2>2. CASE charged # 0
    <3>1. fee = (config.gaming_fee * charged) \div FeeScale
      BY <2>2 DEF FeeOn, GamingFee, MultiplyRatio
    <3>2. charged > 0 /\ config.gaming_fee < FeeScale
      BY <1>3, <2>2 DEF charged
    <3>3. config.gaming_fee * charged \in Nat
      BY <1>3, <1>4
    <3>4. fee \in Nat
      BY <1>4, <3>1, <3>3, DivBounds
    <3>5. fee < charged
      BY <1>3, <1>4, <3>1, <3>2, PartBelow
    <3> HIDE DEF fee
    <3> QED
      BY <1>3, <3>4, <3>5
  <2> QED
    BY <2>1, <2>2
<1> HIDE DEF fee, wallets
<1>6. TotalCuts(fee, wallets) \in Nat /\ TotalCuts(fee, wallets) <= fee
  <2>1. wallets # <<>> => RatiosSumToOne(wallets)
    BY DEF MoneyInv, ConfigKept, wallets
  <2> QED
    BY <1>4, <1>5, <2>1, CutsOfFee
<1>7. /\ charged \in Nat /\ owed - fee > 0
      /\ owed - fee + (IF charged = 0 THEN 0 ELSE TotalCuts(fee, wallets)) <= coins
  <2>1. coins \in Nat
    BY DEF coins
  <2> QED
    BY <1>3, <1>5, <1>6, <2>1
<1> QED
  BY <1>7 DEF charged, owed, fee, wallets, coins

(* A claim is never short of coins, whoever claimed before: settled bets   *)
(* that are worth something can be claimed, one by one or together, as     *)
(* long as the users contract takes the experience, the fee is below one   *)
(* and no cut of it rounds down to zero; those that were only refunded,    *)
(* without any of these conditions.                                        *)
THEOREM ClaimsStayPossible == OneToken /\ WalletsChecked => (Spec => []ClaimsAreTaken)
<1> SUFFICES ASSUME OneToken, WalletsChecked PROVE Spec => []ClaimsAreTaken
  OBVIOUS
<1>1. IInv /\ IInv' /\ Books /\ Books' /\ PoolsMatch /\ MoneyInv /\ [Next]_vars
        => MoneyInv'
  BY MoneyNext
<1>2. ASSUME IInv, Books, MoneyInv PROVE ClaimsAreTaken
  <2> SUFFICES ASSUME NEW p \in Players, NEW keys \in SUBSET FinishedBetsOf(p),
                      SumOwed(keys) > 0,
                      SumOwed(Commissionable(keys)) > 0 =>
                        /\ config.gaming_fee < FeeScale
                        /\ CanAward(p, Experience(SumOwed(Commissionable(keys)),
                                                  config.exp_per_denom_won))
                        /\ CutsAreWhole(SumOwed(Commissionable(keys)))
               PROVE  CanPay(p, keys)
    BY DEF ClaimsAreTaken
  <2>1. vault[config.token_denom] \in Nat
    BY <1>2 DEF MoneyInv, IInv, TypeOK, ConfigType
  <2>2. LET charged == SumOwed(Commissionable(keys))
            fee     == FeeOn(charged)
        IN  /\ charged \in Nat
            /\ SumOwed(keys) - fee > 0
            /\ SumOwed(keys) - fee
                 + (IF charged = 0 THEN 0 ELSE TotalCuts(fee, config.dev_wallet_list))
                 <= vault[config.token_denom]
    BY <1>2, <2>1, ClaimFits
  <2>3. SumOwed(Commissionable(keys)) > 0 =>
          \A i \in DOMAIN config.dev_wallet_list :
            BankSends(Cuts(FeeOn(SumOwed(Commissionable(keys))), config.dev_wallet_list)[i])
    BY DEF CutsAreWhole, Cuts, BankSends
  <2> QED
    BY <2>2, <2>3 DEF CanPay, SentFor, NetFor, FeeFor, ExperienceFor, BankSends
<1> QED
  BY <1>1, <1>2, MoneyInit, Invariance, BooksInit, BooksNext, PoolsInit, PoolsNext, PTL
     DEF Spec

----------------------------------------------------------------------------
(* And it holds nothing else, but for roundings *)

MaxWallets == Max({Len(w) : w \in AllWalletLists})

(* There is a longest list of wallets. *)
LEMMA WalletsBound ==
  ASSUME WalletsListed, NEW w \in AllWalletLists
  PROVE  MaxWallets \in Nat /\ Len(w) <= MaxWallets /\ Len(w) \in Nat
<1> DEFINE L == {Len(v) : v \in AllWalletLists}
<1>1. \A v \in AllWalletLists : v \in Seq(Nat)
  BY PredictionAssumption DEF ConfigType, AllWalletLists
<1>2. PICK n \in Nat : \A v \in AllWalletLists : Len(v) <= n
  BY DEF WalletsListed
<1>3. L \in SUBSET Nat /\ L # {} /\ \A l \in L : l <= n
  <2>1. \A v \in AllWalletLists : Len(v) \in Nat
    BY <1>1
  <2> QED
    BY <1>2, <2>1
<1>4. Len(w) \in L
  OBVIOUS
<1> HIDE DEF L
<1>5. Max(L) \in L /\ \A l \in L : l <= Max(L)
  BY <1>3, BoundedMax
<1> QED
  BY <1>3, <1>4, <1>5 DEF MaxWallets, L

(* What roundings allow for, as the proofs use it *)
LEMMA RoundingsIs ==
  ASSUME IInv, Books
  PROVE  /\ IsFiniteSet(DOMAIN rounds) /\ Cardinality(DOMAIN rounds) \in Nat
         /\ IsFiniteSet(DOMAIN claims) /\ Cardinality(DOMAIN claims) \in Nat
         /\ Cardinality(Players) \in Nat
         /\ Cardinality(DOMAIN rounds) * Cardinality(Players) \in Nat
         /\ Roundings = Cardinality(DOMAIN rounds) * Cardinality(Players)
                          + Cardinality(DOMAIN claims) * MaxWallets
<1>1. /\ IsFiniteSet(DOMAIN rounds) /\ IsFiniteSet(DOMAIN claims) /\ IsFiniteSet(Players)
  BY RoundFacts, PredictionAssumption DEF Books
<1>2. /\ Cardinality(DOMAIN rounds) \in Nat /\ Cardinality(DOMAIN claims) \in Nat
      /\ Cardinality(Players) \in Nat
  BY <1>1, FS_CardinalityType
<1> QED
  BY <1>1, <1>2 DEF Roundings, MaxWallets

(* They are a natural number. *)
LEMMA RoundingsType ==
  ASSUME IInv, Books, MaxWallets \in Nat
  PROVE  Roundings \in Nat
<1>1. /\ Cardinality(DOMAIN rounds) * Cardinality(Players) \in Nat
      /\ Cardinality(DOMAIN claims) \in Nat
  BY RoundingsIs
<1>2. Cardinality(DOMAIN claims) * MaxWallets \in Nat
  BY <1>1
<1> QED
  BY <1>1, <1>2, RoundingsIs

(* A settlement allows for a coin a player. *)
LEMMA CloseRoundings ==
  ASSUME IInv, Books, MaxWallets \in Nat, UNCHANGED claims,
         NEW r, r \notin DOMAIN rounds, DOMAIN rounds' = DOMAIN rounds \cup {r}
  PROVE  Roundings' = Roundings + Cardinality(Players)
<1> DEFINE n == Cardinality(DOMAIN rounds)
           P == Cardinality(Players)
           y == Cardinality(DOMAIN claims) * MaxWallets
<1>1. /\ n \in Nat /\ P \in Nat /\ n * P \in Nat /\ y \in Nat
      /\ Roundings = n * P + y
  BY RoundingsIs
<1>2. Cardinality(DOMAIN rounds \cup {r}) = n + 1
  BY RoundingsIs, FS_AddElement
<1>3. Roundings' = (n + 1) * P + y
  BY <1>2 DEF Roundings, MaxWallets
<1>4. (n + 1) * P = n * P + P
  BY <1>1
<1> HIDE DEF n, P, y
<1> DEFINE x == n * P
<1>5. x \in Nat /\ Roundings = x + y /\ Roundings' = (x + P) + y
  BY <1>1, <1>3, <1>4
<1> HIDE DEF x
<1> QED
  BY <1>1, <1>5 DEF P

(* A claim allows for a coin a wallet. *)
LEMMA ClaimRoundings ==
  ASSUME IInv, Books, MaxWallets \in Nat, NEW p \in Players,
         NEW keys \in SUBSET FinishedBets, Claims(p, keys), \E k \in keys : Owed(k) > 0
  PROVE  Roundings' >= Roundings + MaxWallets /\ Roundings' \in Nat
<1> DEFINE C == DOMAIN claims
           W == {k \in keys : Owed(k) > 0}
           n == Cardinality(C)
           m == Cardinality(W)
           M == MaxWallets
           z == Cardinality(DOMAIN rounds) * Cardinality(Players)
<1>1. DOMAIN claims' = C \cup W /\ UNCHANGED rounds
  BY DEF Claims
<1>2. /\ IsFiniteSet(C) /\ n \in Nat /\ z \in Nat /\ Roundings = z + n * M
  BY RoundingsIs
<1>3. IsFiniteSet(W) /\ W # {}
  <2>1. IsFiniteSet(keys)
    BY DuesAreSums DEF FinishedBets
  <2> QED
    BY <2>1, FS_Subset
<1>4. C \cap W = {}
  BY DEF IInv, ClaimedOnce, FinishedBets
<1>5. Roundings' = z + Cardinality(C \cup W) * M
  BY <1>1 DEF Roundings, MaxWallets
<1> HIDE DEF C, W, z, M
<1>6. Cardinality(C \cup W) = n + m /\ m \in Nat /\ m # 0
  <2>1. m \in Nat /\ m # 0
    BY <1>3, FS_EmptySet, FS_CardinalityType
  <2>2. Cardinality(C \cup W) = Cardinality(C) + Cardinality(W) - Cardinality(C \cap W)
    BY <1>2, <1>3, FS_Union
  <2>3. Cardinality(C \cap W) = 0
    BY <1>4, FS_EmptySet
  <2> QED
    BY <1>2, <2>1, <2>2, <2>3
<1> HIDE DEF n, m
<1>7. PICK j \in Nat : m = 1 + j
  <2>1. m - 1 \in Nat /\ m = 1 + (m - 1)
    BY <1>6
  <2> QED
    BY <2>1
<1>8. (n + m) * M = n * M + M + j * M /\ j * M \in Nat /\ n * M \in Nat
  <2>1. M \in Nat
    BY DEF M
  <2>2. (n + m) * M = M * (n + (1 + j))
    BY <1>2, <1>7, <2>1
  <2>3. /\ M * (n + (1 + j)) = M * n + M * (1 + j)
        /\ M * (1 + j) = M * 1 + M * j
    BY <1>2, <1>7, <2>1, Distribute
  <2> QED
    BY <1>2, <1>7, <2>1, <2>2, <2>3
<1>9. M \in Nat
  BY DEF M
<1> DEFINE x == n * M
           y == j * M
<1>10. /\ x \in Nat /\ y \in Nat /\ Roundings = z + x /\ Roundings' = z + (x + M + y)
  BY <1>2, <1>5, <1>6, <1>8
<1> HIDE DEF x, y
<1> QED
  BY <1>2, <1>9, <1>10 DEF M

NotStuck == vault[config.token_denom] <= Owing + Roundings

(* A claim records at least one payment, which allows for its dust. *)
LEMMA DustAllowed ==
  ASSUME NEW held \in Nat, NEW paid \in Nat, NEW dust \in Nat, NEW owing \in Nat,
         NEW old \in Nat, NEW new \in Nat, NEW m \in Nat,
         held <= (owing + paid) + old, dust <= m, new >= old + m
  PROVE  held - (paid - dust) <= owing + new
OBVIOUS

(* An empty contract holds nothing that could be stuck. *)
LEMMA NotStuckInit == WalletsListed /\ Init => NotStuck
<1> SUFFICES ASSUME WalletsListed, Init PROVE NotStuck
  OBVIOUS
<1>1. IInv /\ Books /\ MoneyInv
  BY InitInv, BooksInit, MoneyInit
<1>2. MaxWallets \in Nat
  BY <1>1, WalletsBound DEF MoneyInv, ConfigKept
<1>3. Owing \in Nat /\ Roundings \in Nat
  BY <1>1, <1>2, RoundingsType, LiabilitiesIsOwing
<1>4. vault[config.token_denom] = 0
  BY PredictionAssumption DEF Init, ConfigType
<1> QED
  BY <1>3, <1>4 DEF NotStuck

(* A settlement leaves less than a coin a player, a claim less than a coin *)
(* a wallet.                                                               *)
LEMMA NotStuckNext ==
  OneToken /\ WalletsListed /\ IInv /\ IInv' /\ Books /\ Books' /\ PoolsMatch
    /\ MoneyInv /\ MoneyInv' /\ NotStuck /\ [Next]_vars => NotStuck'
<1> SUFFICES ASSUME OneToken, WalletsListed, IInv, IInv', Books, Books', PoolsMatch,
                    MoneyInv, MoneyInv', NotStuck, [Next]_vars
             PROVE  NotStuck'
  OBVIOUS
<1> DEFINE token == config.token_denom
           wallets == config.dev_wallet_list
<1>1. ConfigKept /\ ConfigKept'
  BY DEF MoneyInv
<1>2. /\ token \in Tokens /\ vault \in [Tokens -> Nat] /\ config'.token_denom = token
      /\ vault[token] \in Nat /\ Owing \in Nat
  BY <1>1, TokenKept, LiabilitiesIsOwing DEF MoneyInv
<1>3. /\ MaxWallets \in Nat /\ wallets # <<>> /\ Len(wallets) <= MaxWallets
      /\ Len(wallets) \in Nat
  BY <1>1, WalletsBound DEF WalletsListed, ConfigKept
<1>4. Roundings \in Nat /\ vault[token] <= Owing + Roundings
  BY <1>3, RoundingsType DEF NotStuck
<1> SUFFICES vault'[token] <= Owing' + Roundings'
  BY <1>2 DEF NotStuck
<1>5. Owing' \in Nat
  <2>1. (Liabilities = Owing /\ Owing \in Nat)'
    BY LiabilitiesIsOwing, PTL
  <2> QED
    BY <2>1
<1> HIDE DEF token, wallets
<1>6. ASSUME DOMAIN rounds' = DOMAIN rounds, UNCHANGED claims
      PROVE  Roundings' = Roundings
  BY <1>6, Zenon DEF Roundings
<1>7. CASE Quiet
  BY <1>4, <1>6, <1>7, KeepsOwing DEF Quiet, bookVars
<1>8. ASSUME NEW p \in Players, NEW r \in Nat, NEW dir \in Directions,
             NEW gross \in Stakes, BetsOn(p, r, dir, gross, token)
      PROVE  vault'[token] <= Owing' + Roundings'
  <2>1. Owing' = Owing + gross
    BY <1>8, BetOwing
  <2>2. /\ vault' = [vault EXCEPT ![token] = @ + gross] /\ gross \in Nat
        /\ UNCHANGED <<rounds, claims>>
    BY <1>8, PredictionAssumption DEF BetsOn
  <2>3. Roundings' = Roundings
    BY <1>6, <2>2
  <2> QED
    BY <1>2, <1>4, <2>1, <2>2, <2>3
<1>9. CASE Closes
  <2>1. UNCHANGED <<vault, claims>>
    BY <1>9 DEF Closes
  <2>2. CASE DOMAIN rounds' = DOMAIN rounds /\ Owing' = Owing
    BY <1>4, <1>6, <2>1, <2>2
  <2>3. ASSUME NEW r, r \notin DOMAIN rounds, DOMAIN rounds' = DOMAIN rounds \cup {r},
               Owing <= Owing' + Cardinality(Players)
        PROVE  vault'[token] <= Owing' + Roundings'
    <3>1. Roundings' = Roundings + Cardinality(Players) /\ Cardinality(Players) \in Nat
      BY <1>3, <2>1, <2>3, CloseRoundings, RoundingsIs
    <3> QED
      BY <1>2, <1>4, <1>5, <2>1, <2>3, <3>1
  <2> QED
    BY <1>9, <2>2, <2>3, CloseOwing
<1>10. ASSUME NEW p \in Players, NEW keys \in SUBSET FinishedBets, NEW dust \in Nat,
              Claims(p, keys), Pays(keys, dust), DustFits(dust)
       PROVE  vault'[token] <= Owing' + Roundings'
  <2>1. Owing = Owing' + SumOwed(keys) /\ SumOwed(keys) \in Nat
    BY <1>10, ClaimOwing, OwedIsDue
  <2>2. vault' = [vault EXCEPT ![token] = @ - (SumOwed(keys) - dust)]
    BY <1>10 DEF Pays, token
  <2>3. Roundings' >= Roundings + MaxWallets /\ Roundings' \in Nat
    BY <1>3, <1>10, ClaimRoundings DEF Pays
  <2>4. dust <= MaxWallets
    BY <1>3, <1>10 DEF DustFits, wallets
  <2>5. vault'[token] = vault[token] - (SumOwed(keys) - dust)
    BY <1>2, <2>2
  <2> DEFINE v == vault[token]
             o == SumOwed(keys)
             d == Owing'
             a == Roundings
             b == Roundings'
             m == MaxWallets
  <2>6. /\ v \in Nat /\ o \in Nat /\ d \in Nat /\ a \in Nat /\ b \in Nat /\ m \in Nat
        /\ v <= (d + o) + a /\ dust <= m /\ b >= a + m
    BY <1>2, <1>3, <1>4, <1>5, <2>1, <2>3, <2>4
  <2> HIDE DEF v, o, d, a, b, m
  <2>7. v - (o - dust) <= d + b
    BY <2>6, DustAllowed
  <2> QED
    BY <2>5, <2>7 DEF v, o, d, b
<1>11. token \in Tokens
  BY <1>2
<1> QED
  BY <1>7, <1>8, <1>9, <1>10, <1>11, StepKinds DEF token

(* The contract holds what it owes, and no more than that and what         *)
(* rounding leaves in it.  WalletsListed excludes the configuration with   *)
(* no wallets, whose fees are charged and sent to nobody.                  *)
THEOREM Solvency ==
  OneToken /\ WalletsChecked /\ WalletsListed => (Spec => []Solvent)
<1> SUFFICES ASSUME OneToken, WalletsChecked, WalletsListed PROVE Spec => []Solvent
  OBVIOUS
<1>1. IInv /\ IInv' /\ Books /\ Books' /\ PoolsMatch /\ MoneyInv /\ [Next]_vars
        => MoneyInv'
  BY MoneyNext
<1>2. Init => NotStuck
  BY NotStuckInit
<1>3. IInv /\ IInv' /\ Books /\ Books' /\ PoolsMatch /\ MoneyInv /\ MoneyInv'
        /\ NotStuck /\ [Next]_vars => NotStuck'
  BY NotStuckNext
<1>4. IInv /\ Books /\ MoneyInv /\ NotStuck => Solvent
  BY LiabilitiesIsOwing DEF MoneyInv, NotStuck, Solvent
<1> QED
  BY <1>1, <1>2, <1>3, <1>4, MoneyInit, Invariance, BooksInit, BooksNext, PoolsInit,
     PoolsNext, PTL DEF Spec

----------------------------------------------------------------------------
(* What is recorded as claimed *)

(* The claims a step adds sum up to what the bets it is about are owed. *)
LEMMA ClaimedIsOwed ==
  ASSUME IInv, Books, NEW p \in Players, NEW keys \in SUBSET FinishedBets, Claims(p, keys)
  PROVE  SumFunctionOnSet(claims', DOMAIN claims' \ DOMAIN claims) = SumOwed(keys)
<1> DEFINE W == {k \in keys : Owed(k) > 0}
           f == DueOf
           g == claims'
<1>1. SumOwed(keys) = SumFunctionOnSet(f, keys)
  BY OwedIsDue
<1>2. IsFiniteSet(keys) /\ \A k \in keys : k \in DOMAIN bets /\ f[k] \in Nat
  BY DuesAreSums DEF FinishedBets
<1>3. \A k \in keys : f[k] = Owed(k) /\ k \notin DOMAIN claims
  BY DueFacts DEF FinishedBets, IInv, ClaimedOnce
<1>4. DOMAIN claims' \ DOMAIN claims = W
  BY <1>3 DEF Claims
<1>5. \A k \in W : g[k] = f[k]
  BY <1>3 DEF Claims
<1>6. /\ IsFiniteSet(W) /\ W \in SUBSET keys /\ \A k \in W : f[k] \in Nat
      /\ \A k \in keys \ W : f[k] = 0
  BY <1>2, <1>3, FS_Subset
<1> HIDE DEF W, f, g
<1>7. SumFunctionOnSet(g, W) = SumFunctionOnSet(f, W)
  BY <1>5, <1>6, SumEqual
<1>8. SumFunctionOnSet(f, keys) = SumFunctionOnSet(f, W)
  BY <1>2, <1>6, SumSupport
<1> QED
  BY <1>1, <1>4, <1>7, <1>8 DEF g

(* One bet is owed what it is owed. *)
LEMMA SumOwedSingle ==
  ASSUME IInv, Books, NEW k \in FinishedBets
  PROVE  SumOwed({k}) = Owed(k) /\ SumOwed({}) = 0
<1>1. /\ SumOwed({k}) = SumFunctionOnSet(DueOf, {k})
      /\ DueOf[k] = Owed(k) /\ DueOf[k] \in Nat
      /\ SumOwed({}) = SumFunctionOnSet(DueOf, {})
  BY OwedIsDue, DueFacts DEF FinishedBets
<1>2. SumFunctionOnSet(DueOf, {} \cup {k}) = DueOf[k] + SumFunctionOnSet(DueOf, {})
  BY <1>1, FS_EmptySet, SumAdd
<1>3. SumFunctionOnSet(DueOf, {}) = 0 /\ {} \cup {k} = {k}
  BY SumEmpty
<1> QED
  BY <1>1, <1>2, <1>3

(* The rules of the queries and those of the claims are the same rules. *)
LEMMA ShownIsOwed ==
  ASSUME IInv, NEW k \in FinishedBets
  PROVE  /\ NoOpponent(rounds[k[1]]) <=> OneSided(rounds[k[1]])
         /\ NoOpponent(rounds[k[1]]) => Owed(k) = bets[k].amount
         /\ ~NoOpponent(rounds[k[1]]) => Owed(k) = WinningsShown(rounds[k[1]], bets[k])
<1> DEFINE round == rounds[k[1]]
           bet   == bets[k]
<1>1. bet.direction \in Directions
  BY DEF FinishedBets, IInv, TypeOK, BetInfos
<1>2. NoOpponent(round) <=> OneSided(round)
  BY DEF NoOpponent, OneSided, Directions
<1>3. Winnings(round, bet) = WinningsShown(round, bet)
  BY <1>1 DEF Winnings, WinningsShown, Nobody, Directions
<1> QED
  BY <1>2, <1>3 DEF Owed, Payout

(* The reward query and the refund query share out the finished bets. *)
LEMMA QueriesAreOwed ==
  ASSUME IInv, Books, NEW p \in Players
  PROVE  MyPendingReward(p) + MyRefundableAmount(p) = SumOwed(FinishedBetsOf(p))
<1> DEFINE F == FinishedBetsOf(p)
           A == {k \in FinishedBetsOf(p) : ~NoOpponent(rounds[k[1]])}
           B == {k \in FinishedBetsOf(p) : NoOpponent(rounds[k[1]])}
           g == [k \in A |-> WinningsShown(rounds[k[1]], bets[k])]
           f == DueOf
<1>1. F \in SUBSET FinishedBets /\ F \in SUBSET DOMAIN bets
  BY OfPlayer
<1>2. A \in SUBSET F /\ B = F \ A /\ B \in SUBSET DOMAIN bets
  BY <1>1
<1>3. IsFiniteSet(F) /\ \A k \in F : f[k] = Owed(k) /\ f[k] \in Nat
  BY <1>1, DuesAreSums, DueFacts DEF FinishedBets
<1>4. \A k \in A : g[k] = f[k]
  BY <1>1, <1>3, ShownIsOwed
<1>5. \A k \in B : StakeOf[k] = f[k] /\ k \in F
  BY <1>1, <1>3, StakeFacts, ShownIsOwed
<1>6. MyPendingReward(p) = SumFunctionOnSet(g, A)
  BY DEF MyPendingReward, SumFunction
<1>7. MyRefundableAmount(p) = SumFunctionOnSet(StakeOf, B)
  BY <1>2, StakesAreSums DEF MyRefundableAmount
<1>8. SumOwed(F) = SumFunctionOnSet(f, F)
  BY <1>1, OwedIsDue
<1> HIDE DEF F, A, B, g, f
<1>9. SumFunctionOnSet(g, A) = SumFunctionOnSet(f, A)
  <2>1. IsFiniteSet(A) /\ \A k \in A : f[k] \in Nat /\ g[k] = f[k]
    BY <1>2, <1>3, <1>4, FS_Subset
  <2> QED
    BY <2>1, SumEqual
<1>10. SumFunctionOnSet(StakeOf, B) = SumFunctionOnSet(f, B)
  <2>1. IsFiniteSet(B) /\ \A k \in B : f[k] \in Nat /\ StakeOf[k] = f[k]
    BY <1>2, <1>3, <1>5, FS_Subset
  <2> QED
    BY <2>1, SumEqual
<1>11. SumFunctionOnSet(f, F) = SumFunctionOnSet(f, A) + SumFunctionOnSet(f, B)
  <2>1. IsFiniteSet(F) /\ (\A k \in F : f[k] \in Nat) /\ \A k \in A : k \in F
    BY <1>2, <1>3
  <2> QED
    BY <1>2, <2>1, SumSplit
<1> QED
  BY <1>6, <1>7, <1>8, <1>9, <1>10, <1>11 DEF F

(* Either claim records what the query shows in the state before. *)
LEMMA ClaimRecords ==
  ASSUME IInv, Books, NEW p \in Players
  PROVE  LET claimed == SumFunctionOnSet(claims', DOMAIN claims' \ DOMAIN claims)
         IN  /\ CollectWinnings(p) =>
                  claimed = MyPendingReward(p) + MyRefundableAmount(p)
             /\ \A r \in DOMAIN rounds :
                  CollectWinningRound(p, r) => claimed = MyPendingRewardRound(r, p)
<1> DEFINE claimed == SumFunctionOnSet(claims', DOMAIN claims' \ DOMAIN claims)
<1>1. ASSUME NEW keys \in SUBSET FinishedBetsOf(p), Pay(p, keys)
      PROVE  claimed = SumOwed(keys)
  <2>1. Claims(p, keys) /\ keys \in SUBSET FinishedBets
    BY <1>1, PayIs, OfPlayer
  <2> QED
    BY <2>1, ClaimedIsOwed
<1> HIDE DEF claimed
<1>2. CollectWinnings(p) => claimed = MyPendingReward(p) + MyRefundableAmount(p)
  BY <1>1, CollectIs, QueriesAreOwed
<1>3. ASSUME NEW r \in DOMAIN rounds, CollectWinningRound(p, r)
      PROVE  claimed = MyPendingRewardRound(r, p)
  <2>1. Pay(p, {<<r, p>>} \cap FinishedBetsOf(p))
    BY <1>3, CollectRoundIs
  <2>2. {<<r, p>>} \cap FinishedBetsOf(p) \in SUBSET FinishedBetsOf(p)
    OBVIOUS
  <2>3. claimed = SumOwed({<<r, p>>} \cap FinishedBetsOf(p))
    BY <1>1, <2>1, <2>2
  <2>4. CASE <<r, p>> \notin FinishedBetsOf(p)
    <3>1. {<<r, p>>} \cap FinishedBetsOf(p) = {} /\ <<r, p>> \notin DOMAIN bets
      BY <2>4 DEF FinishedBetsOf, BetsOf
    <3> QED
      BY <2>3, <3>1, SumEmpty DEF MyPendingRewardRound, SumOwed, SumFunction
  <2>5. CASE <<r, p>> \in FinishedBetsOf(p)
    <3>1. {<<r, p>>} \cap FinishedBetsOf(p) = {<<r, p>>} /\ <<r, p>> \in FinishedBets
      BY <2>5, OfPlayer
    <3>2. claimed = Owed(<<r, p>>)
      BY <2>3, <3>1, SumOwedSingle
    <3> QED
      BY <3>1, <3>2, ShownIsOwed DEF MyPendingRewardRound, FinishedBets
  <2> QED
    BY <2>4, <2>5
<1> QED
  BY <1>2, <1>3 DEF claimed

(* What the reward and refund queries show is what a claim then records,   *)
(* for all bets of a player together and for those of one round.           *)
THEOREM ClaimsMatchQueries == Spec => ClaimPaysWhatQueriesShow
<1>1. IInv /\ Books /\ [Next]_vars =>
        [claims' # claims =>
           LET claimed == SumFunctionOnSet(claims', DOMAIN claims' \ DOMAIN claims)
           IN  \A p \in Players :
                 /\ CollectWinnings(p) =>
                      claimed = MyPendingReward(p) + MyRefundableAmount(p)
                 /\ \A r \in DOMAIN rounds :
                      CollectWinningRound(p, r) =>
                        claimed = MyPendingRewardRound(r, p)]_vars
  BY ClaimRecords
<1> QED
  BY <1>1, Invariance, BooksInit, BooksNext, PTL DEF Spec, ClaimPaysWhatQueriesShow

----------------------------------------------------------------------------
(* What a bet of a settled round is worth *)

(* Its side lost against the other one. *)
Lost(k) ==
  LET round == rounds[k[1]]
  IN  ~OneSided(round) /\ round.winner \notin {Nobody, bets[k].direction}

(* All others are worth at least what was staked on them, and something. *)
StakesComeBack ==
  \A k \in FinishedBets :
    IF Lost(k) THEN Owed(k) = 0 ELSE Owed(k) > 0 /\ Owed(k) >= bets[k].amount

(* A winner's share of the pool is a share of more than the winning side,  *)
(* so no rounding takes a coin of the stake.                               *)
LEMMA WinnersGain == IInv => StakesComeBack
<1> SUFFICES ASSUME IInv, NEW k \in FinishedBets
             PROVE  IF Lost(k) THEN Owed(k) = 0
                    ELSE Owed(k) > 0 /\ Owed(k) >= bets[k].amount
  BY DEF StakesComeBack
<1> DEFINE round == rounds[k[1]]
           bet   == bets[k]
           side  == round.pool[bet.direction]
           share == MultiplyRatio(PoolShares(round), bet.amount, side)
<1>1. /\ round \in FinishedRounds /\ round.pool \in [Directions -> Nat]
      /\ bet \in BetInfos /\ bet.amount \in Nat /\ bet.amount > 0
      /\ bet.direction \in Directions
  BY DEF FinishedBets, IInv, TypeOK, BetsWithinPools, FinishedRounds, Pools, BetInfos
<1>2. bet.amount <= side
  BY RoundFacts DEF FinishedBets, PoolOf, IInv, BetsWithinPools
<1>3. /\ PoolShares(round) \in Nat /\ side \in Nat /\ side > 0
      /\ side <= PoolShares(round)
  BY <1>1, <1>2 DEF PoolShares, Directions
<1> HIDE DEF round, bet, side
<1>4. share >= bet.amount
  BY <1>1, <1>3, ShareAtLeast DEF MultiplyRatio
<1>5. share \in Nat
  BY <1>1, <1>3, DivNat
<1> HIDE DEF share
<1>6. Owed(k) = IF OneSided(round) THEN bet.amount
                ELSE IF round.winner = Nobody THEN bet.amount
                ELSE IF round.winner = bet.direction THEN share ELSE 0
  <2>1. Owed(k) = Payout(round, bet)
    BY DEF Owed, round, bet
  <2>2. share = MultiplyRatio(PoolShares(round), bet.amount, round.pool[bet.direction])
    BY DEF share, side
  <2>3. Nobody # bet.direction
    BY <1>1 DEF Nobody, Directions
  <2>4. Winnings(round, bet) = IF round.winner = Nobody THEN bet.amount
                               ELSE IF round.winner = bet.direction THEN share ELSE 0
    BY <2>2, <2>3 DEF Winnings
  <2> QED
    BY <2>1, <2>4 DEF Payout
<1>7. Lost(k) <=> ~OneSided(round) /\ round.winner # Nobody /\ round.winner # bet.direction
  BY DEF Lost, round, bet
<1> QED
  BY <1>1, <1>4, <1>5, <1>6, <1>7 DEF bet

(* A settled bet is lost, or worth no less than its stake: the odds of a   *)
(* round never cost a winner a part of the stake.  (The gaming fee, which  *)
(* is charged on the stake too, may.)                                      *)
THEOREM WinnersGetStakesBack == Spec => []StakesComeBack
BY WinnersGain, Invariance, PTL

(* What a step may do to a settled bet that is worth something, and to     *)
(* what was claimed                                                        *)
PrizeKept(k) ==
  \/ k \in DOMAIN bets' /\ Owed(k)' = Owed(k)
  \/ Claim(k[2]) /\ k \notin DOMAIN bets' /\ k \in DOMAIN claims' /\ claims'[k] = Owed(k)

PrizesKept ==
  /\ \A k \in FinishedBets : Owed(k) > 0 => PrizeKept(k)
  /\ \A k \in DOMAIN claims : k \in DOMAIN claims' /\ claims'[k] = claims[k]

(* Bets and settlements leave both alone, and a claim takes what it is for. *)
LEMMA PrizeStep == IInv /\ IInv' /\ [Next]_vars => PrizesKept
<1> SUFFICES ASSUME IInv, IInv', [Next]_vars PROVE PrizesKept
  OBVIOUS
<1>1. ASSUME UNCHANGED claims, NEW b, b \notin DOMAIN rounds,
             \A k \in DOMAIN bets : k[1] # b => k \in DOMAIN bets' /\ bets'[k] = bets[k],
             \A r \in DOMAIN rounds : rounds'[r] = rounds[r]
      PROVE  PrizesKept
  <2>1. \A k \in FinishedBets : k \in DOMAIN bets' /\ Owed(k)' = Owed(k)
    BY <1>1 DEF FinishedBets, Owed, Payout, Winnings
  <2> QED
    BY <1>1, <2>1 DEF PrizesKept, PrizeKept
<1>2. nextRoundId \notin DOMAIN rounds
  BY RoundFacts
<1>3. CASE Quiet
  BY <1>1, <1>2, <1>3 DEF Quiet, bookVars
<1>4. ASSUME NEW p \in Players, NEW r \in Nat, NEW dir \in Directions, NEW gross \in Stakes,
             BetsOn(p, r, dir, gross, config.token_denom)
      PROVE  PrizesKept
  <2>1. \A k \in DOMAIN bets : k[1] # r => k \in DOMAIN bets' /\ bets'[k] = bets[k]
    BY <1>4 DEF BetsOn
  <2> QED
    BY <1>1, <1>4, <2>1 DEF BetsOn
<1>5. CASE Closes
  BY <1>1, <1>2, <1>5 DEF Closes
<1>6. ASSUME NEW p \in Players, NEW keys \in SUBSET FinishedBetsOf(p), Claim(p), Pay(p, keys)
      PROVE  PrizesKept
  <2>1. Claims(p, keys)
    BY <1>6, PayIs
  <2>2. ASSUME NEW k \in FinishedBets, Owed(k) > 0 PROVE PrizeKept(k)
    <3>1. CASE k \in keys
      BY <1>6, <2>1, <2>2, <3>1 DEF Claims, PrizeKept
    <3>2. CASE k \notin keys
      <4>1. k \in DOMAIN bets' /\ bets'[k] = bets[k] /\ rounds' = rounds
        BY <2>1, <3>2 DEF Claims, FinishedBets
      <4> QED
        BY <4>1 DEF PrizeKept, Owed, Payout, Winnings
    <3> QED
      BY <3>1, <3>2
  <2>3. \A k \in DOMAIN claims : k \notin keys
    BY OfPlayer DEF FinishedBets, IInv, ClaimedOnce
  <2> QED
    BY <2>1, <2>2, <2>3 DEF Claims, PrizesKept
<1> QED
  BY <1>3, <1>4, <1>5, <1>6, StepIs

(* What a settled bet is worth is there until its player claims it, and is *)
(* then recorded as claimed for good: no later round, no other claim and   *)
(* no message of an administrator changes a prize or takes it away.        *)
THEOREM PrizesAreKept == Spec => [][PrizesKept]_vars
<1>1. IInv /\ IInv' /\ [Next]_vars => [PrizesKept]_vars
  BY PrizeStep
<1> QED
  BY <1>1, Invariance, PTL DEF Spec

----------------------------------------------------------------------------
(* Whoever has won or is to be refunded is paid *)

(* A prize is due when its round is settled and it is worth something.     *)
PrizeDue(r, p) == <<r, p>> \in FinishedBets /\ Owed(<<r, p>>) > 0

Paid(r, p) == <<r, p>> \in DOMAIN claims

(* As CloseIsEnabled: a claim whose guards hold can be taken.              *)
ClaimsAreEnabled ==
  \A p \in Players, r \in SettledIds :
    PrizeDue(r, p) /\ CanPay(p, {<<r, p>>}) => ENABLED <<CollectWinningRound(p, r)>>_vars

(* The conditions of WinnersCanClaim: whenever the users contract lists    *)
(* the game it takes the experience, the fee is below one, and no cut of   *)
(* it rounds down to zero.                                                 *)
PrizesPayable ==
  registered =>
    \A k \in FinishedBets : Owed(k) > 0 => OneSided(rounds[k[1]]) \/ Payable(k)

(* The guards of the claim of one round, from those of any claim. *)
LEMMA OneClaimIsTaken ==
  ASSUME IInv, Books, ClaimsAreTaken, NEW p \in Players, NEW r, PrizeDue(r, p),
         OneSided(rounds[r]) \/ Payable(<<r, p>>)
  PROVE  CanPay(p, {<<r, p>>})
<1> DEFINE k == <<r, p>>
<1>1. k \in FinishedBets /\ Owed(k) > 0 /\ k[1] = r /\ k[2] = p
  BY DEF PrizeDue
<1>2. {k} \in SUBSET FinishedBetsOf(p)
  BY <1>1 DEF FinishedBetsOf, BetsOf, FinishedBets
<1>3. SumOwed({k}) > 0
  BY <1>1, SumOwedSingle
<1>4. Commissionable({k}) = IF OneSided(rounds[r]) THEN {} ELSE {k}
  BY <1>1 DEF Commissionable
<1>5. SumOwed(Commissionable({k})) = IF OneSided(rounds[r]) THEN 0 ELSE Owed(k)
  BY <1>1, <1>4, SumOwedSingle
<1> QED
  BY <1>1, <1>2, <1>3, <1>5 DEF ClaimsAreTaken, Payable

(* The same of every finished bet, for the next theorem. *)
GuardsEnableClaims ==
  \A k \in FinishedBets :
    Owed(k) > 0 /\ CanPay(k[2], {k}) => ENABLED CollectWinningRound(k[2], k[1])

(* WinnersCanClaim: nothing any player or administrator does leaves a bet  *)
(* that won, or that is to be refunded, in a state its claim refuses.      *)
THEOREM WinnersCanAlwaysClaim ==
  OneToken /\ WalletsChecked => ([]GuardsEnableClaims => (Spec => []WinnersCanClaim))
<1> SUFFICES ASSUME OneToken, WalletsChecked
             PROVE  []GuardsEnableClaims => (Spec => []WinnersCanClaim)
  OBVIOUS
<1>1. Spec => []ClaimsAreTaken
  BY ClaimsStayPossible
<1>2. ASSUME IInv, Books, ClaimsAreTaken, GuardsEnableClaims PROVE WinnersCanClaim
  <2> SUFFICES ASSUME NEW k \in DOMAIN bets, k[1] \in DOMAIN rounds, Owed(k) > 0,
                      OneSided(rounds[k[1]]) \/ Payable(k)
               PROVE  ENABLED CollectWinningRound(k[2], k[1])
    BY DEF WinnersCanClaim
  <2>1. k \in FinishedBets /\ k = <<k[1], k[2]>> /\ k[2] \in Players
    BY <1>2 DEF FinishedBets, IInv, TypeOK
  <2>2. CanPay(k[2], {k})
    BY <1>2, <2>1, OneClaimIsTaken DEF PrizeDue
  <2> QED
    BY <1>2, <2>1, <2>2 DEF GuardsEnableClaims
<1> QED
  BY <1>1, <1>2, Invariance, BooksInit, BooksNext, PTL DEF Spec

(* A prize that is due stays due until it is paid, and the claim of its    *)
(* round pays it.                                                          *)
LEMMA PrizeStaysDue ==
  ASSUME IInv, PrizesKept, BetsFrozenStep, NEW p \in Players, NEW r, PrizeDue(r, p)
  PROVE  /\ PrizeDue(r, p)' \/ Paid(r, p)'
         /\ OneSided(rounds[r]) => (PrizeDue(r, p) /\ OneSided(rounds[r]))' \/ Paid(r, p)'
         /\ CollectWinningRound(p, r) => Paid(r, p)'
<1> DEFINE k == <<r, p>>
<1>1. k \in FinishedBets /\ Owed(k) > 0 /\ k[1] = r /\ k[2] = p
  BY DEF PrizeDue
<1>2. r \in DOMAIN rounds /\ r \in DOMAIN rounds' /\ rounds'[r] = rounds[r]
  BY <1>1 DEF FinishedBets, BetsFrozenStep
<1>3. PrizeKept(k)
  BY <1>1 DEF PrizesKept
<1>4. OneSided(rounds[r]) => OneSided(rounds'[r])
  BY <1>2
<1>5. PrizeDue(r, p)' \/ Paid(r, p)'
  BY <1>1, <1>2, <1>3 DEF PrizeKept, PrizeDue, Paid, FinishedBets
<1>6. ASSUME CollectWinningRound(p, r) PROVE Paid(r, p)'
  <2>1. {k} \cap DOMAIN bets = {k}
    BY <1>1 DEF FinishedBets
  <2>2. Pay(p, {k})
    BY <1>6, <2>1 DEF CollectWinningRound
  <2>3. {k} \in SUBSET FinishedBetsOf(p)
    BY <1>1 DEF FinishedBetsOf, BetsOf, FinishedBets
  <2>4. Claims(p, {k})
    BY <2>2, <2>3, PayIs
  <2> QED
    BY <1>1, <2>4 DEF Claims, Paid
<1> QED
  BY <1>4, <1>5, <1>6

(* Fairness, without what CloseRound and the clock add to it *)
LEMMA FairParts ==
  FairSpec => Spec /\ \A p \in Players, r \in SettledIds : KeepsAsking(p, r)
BY PTL DEF FairSpec

(* as it is used for one player and one round. *)
LEMMA PlayerAsks ==
  ASSUME NEW p \in Players, NEW r \in SettledIds
  PROVE  FairSpec => Spec /\ KeepsAsking(p, r)
<1>1. FairSpec => Spec /\ \A q \in Players, i \in SettledIds : KeepsAsking(q, i)
  BY FairParts
<1>2. (\A q \in Players, i \in SettledIds : KeepsAsking(q, i)) => KeepsAsking(p, r)
  OBVIOUS
<1> QED
  BY <1>1, <1>2, PTL

(* A refund of a round with an empty side is paid, whatever administrators *)
(* do, and whether or not the game is halted or the users contract lists   *)
(* it: of the player only strong fairness is assumed.                      *)
THEOREM RefundsArePaid ==
  OneToken /\ WalletsChecked =>
    ([]ClaimsAreEnabled =>
       (FairSpec => \A p \in Players, r \in SettledIds :
                      PrizeDue(r, p) /\ OneSided(rounds[r]) ~> Paid(r, p)))
<1> SUFFICES ASSUME OneToken, WalletsChecked
             PROVE  []ClaimsAreEnabled =>
                      (FairSpec => \A p \in Players, r \in SettledIds :
                                     PrizeDue(r, p) /\ OneSided(rounds[r]) ~> Paid(r, p))
  OBVIOUS
<1>0. Spec => []ClaimsAreTaken
  BY ClaimsStayPossible
<1>1. ASSUME NEW p \in Players, NEW r \in SettledIds
      PROVE  []ClaimsAreEnabled /\ FairSpec
               => (PrizeDue(r, p) /\ OneSided(rounds[r]) ~> Paid(r, p))
  <2>1. IInv /\ Books /\ ClaimsAreTaken /\ ClaimsAreEnabled
            /\ PrizeDue(r, p) /\ OneSided(rounds[r])
          => ENABLED <<CollectWinningRound(p, r)>>_vars
    BY OneClaimIsTaken DEF ClaimsAreEnabled
  <2>2. IInv /\ [PrizesKept]_vars /\ [BetsFrozenStep]_vars
            /\ PrizeDue(r, p) /\ OneSided(rounds[r])
          => (PrizeDue(r, p) /\ OneSided(rounds[r]))' \/ Paid(r, p)'
    <3>1. CASE UNCHANGED vars
      BY <3>1 DEF PrizeDue, FinishedBets, Owed, Payout, Winnings, OneSided, PoolShares,
           vars, bookVars
    <3>2. CASE PrizesKept /\ BetsFrozenStep
      BY <3>2, PrizeStaysDue
    <3> QED
      BY <3>1, <3>2
  <2>3. IInv /\ [PrizesKept]_vars /\ [BetsFrozenStep]_vars /\ PrizeDue(r, p)
            /\ <<CollectWinningRound(p, r)>>_vars
          => Paid(r, p)'
    BY PrizeStaysDue
  <2>4. FairSpec => Spec /\ KeepsAsking(p, r)
    BY PlayerAsks
  <2> QED
    BY <1>0, <2>1, <2>2, <2>3, <2>4, Invariance, BooksInit, BooksNext, PrizesAreKept,
       BetsFreeze, PTL DEF Spec, KeepsAsking, BetsFrozenOnceLive
<1> QED
  BY <1>1

(* And so is every prize of a settled round, unless the users contract     *)
(* stops listing the game for ever.                                        *)
THEOREM WinnersGetPaid ==
  OneToken /\ WalletsChecked =>
    ([]ClaimsAreEnabled /\ []PrizesPayable => (FairSpec => WinnersArePaid))
<1> SUFFICES ASSUME OneToken, WalletsChecked
             PROVE  []ClaimsAreEnabled /\ []PrizesPayable => (FairSpec => WinnersArePaid)
  OBVIOUS
<1>0. Spec => []ClaimsAreTaken
  BY ClaimsStayPossible
<1>1. ASSUME NEW p \in Players, NEW r \in SettledIds
      PROVE  []ClaimsAreEnabled /\ []PrizesPayable /\ FairSpec
               => \/ (r \in DOMAIN rounds /\ <<r, p>> \in DOMAIN bets /\ Owed(<<r, p>>) > 0)
                       ~> <<r, p>> \in DOMAIN claims
                  \/ <>[]~registered
  <2>1. IInv /\ Books /\ ClaimsAreTaken /\ ClaimsAreEnabled /\ PrizesPayable
            /\ PrizeDue(r, p) /\ registered
          => ENABLED <<CollectWinningRound(p, r)>>_vars
    BY OneClaimIsTaken DEF ClaimsAreEnabled, PrizesPayable, PrizeDue
  <2>2. IInv /\ [PrizesKept]_vars /\ [BetsFrozenStep]_vars /\ PrizeDue(r, p)
          => PrizeDue(r, p)' \/ Paid(r, p)'
    <3>1. CASE UNCHANGED vars
      BY <3>1 DEF PrizeDue, FinishedBets, Owed, Payout, Winnings, OneSided, PoolShares,
           vars, bookVars
    <3>2. CASE PrizesKept /\ BetsFrozenStep
      BY <3>2, PrizeStaysDue
    <3> QED
      BY <3>1, <3>2
  <2>3. IInv /\ [PrizesKept]_vars /\ [BetsFrozenStep]_vars /\ PrizeDue(r, p)
            /\ <<CollectWinningRound(p, r)>>_vars
          => Paid(r, p)'
    BY PrizeStaysDue
  <2>4. r \in DOMAIN rounds /\ <<r, p>> \in DOMAIN bets /\ Owed(<<r, p>>) > 0
          => PrizeDue(r, p)
    BY DEF PrizeDue, FinishedBets
  <2>5. Paid(r, p) => <<r, p>> \in DOMAIN claims
    BY DEF Paid
  <2>6. FairSpec => Spec /\ KeepsAsking(p, r)
    BY PlayerAsks
  <2> QED
    BY <1>0, <2>1, <2>2, <2>3, <2>4, <2>5, <2>6, Invariance, BooksInit, BooksNext,
       PrizesAreKept, BetsFreeze, PTL DEF Spec, KeepsAsking, BetsFrozenOnceLive
<1> QED
  BY <1>1 DEF WinnersArePaid

----------------------------------------------------------------------------
(* The escrow a round is.  EscrowFacts is what is proved about Escrow, for *)
(* the pots of the rounds.                                                 *)
RoundIds == 0..MaxRound

EscrowFacts == INSTANCE EscrowProofs WITH Pots <- RoundIds, pots <- RoundPots

(* The refinement mapping, in terms of the ids and the dues *)
StageIs(r) == IF r \in DOMAIN rounds THEN "settled"
              ELSE IF r = nextRoundId - 2 THEN "locked" ELSE "open"

HeldFor(r) == IF r < nextRoundId THEN Pool(r) - ClaimedFrom(r) ELSE 0

PotIs(r) ==
  RoundPots[r] = [stage |-> StageIs(r), held |-> HeldFor(r),
                  owed |-> [p \in Players |-> OwedTo(r, p)]]

AllPots == \A r \in RoundIds : PotIs(r)

(* It is the one the run uses. *)
LEMMA PotsAre == IInv /\ Books => AllPots
<1> SUFFICES ASSUME IInv, Books, NEW r \in RoundIds PROVE PotIs(r)
  BY DEF AllPots
<1>1. r \in Nat /\ nextRoundId \in Nat /\ DOMAIN rounds = 0..(nextRoundId - 3)
  BY RoundFacts, PredictionAssumption DEF RoundIds
<1>2. StageOf(r) = StageIs(r)
  <2>1. r = nextRoundId - 2 => liveRound # NoRound /\ r \notin DOMAIN rounds
    BY <1>1 DEF IInv, RoundsInOrder
  <2> QED
    BY <2>1 DEF StageOf, StageIs
<1>3. HeldIn(r) = HeldFor(r)
  <2>1. CASE r \in DOMAIN rounds
    <3>1. PoolShares(rounds[r]) = Pool(r) /\ r < nextRoundId
      BY <1>1, <2>1, RoundFacts
    <3> QED
      BY <2>1, <3>1 DEF HeldIn, HeldFor
  <2>2. CASE r \notin DOMAIN rounds /\ r < nextRoundId
    <3>1. ClaimedFrom(r) = 0 /\ Pool(r) \in Nat
      BY <1>1, <2>2, ClaimedFacts, PoolTypes
    <3>2. Pool(r) - ClaimedFrom(r) = Pool(r)
      BY <3>1
    <3> QED
      BY <2>2, <3>2 DEF HeldIn, HeldFor, Pool
  <2>3. CASE r \notin DOMAIN rounds /\ ~(r < nextRoundId)
    BY <2>3 DEF HeldIn, HeldFor
  <2> QED
    BY <2>1, <2>2, <2>3
<1>4. \A p \in Players : OwedIn(r, p) = OwedTo(r, p)
  BY DEF OwedIn, OwedTo, DueOf
<1>5. RoundPots[r] = [stage |-> StageOf(r), held |-> HeldIn(r),
                      owed |-> [p \in Players |-> OwedIn(r, p)]]
  BY DEF RoundPots, RoundIds
<1> QED
  BY <1>2, <1>3, <1>4, <1>5 DEF PotIs

(* A pot holds what was not claimed of its pool. *)
LEMMA HeldIs ==
  ASSUME IInv, Books, RoundsPaid, NEW r \in RoundIds
  PROVE  /\ HeldFor(r) \in Nat
         /\ r < nextRoundId /\ r \notin DOMAIN rounds
              => HeldFor(r) = Pool(r) /\ ClaimedFrom(r) = 0
<1>1. r \in Nat
  BY PredictionAssumption DEF RoundIds
<1>2. CASE r < nextRoundId /\ r \notin DOMAIN rounds
  <2>1. ClaimedFrom(r) = 0 /\ Pool(r) \in Nat
    BY <1>1, <1>2, ClaimedFacts, PoolTypes
  <2> QED
    BY <1>2, <2>1 DEF HeldFor
<1>3. CASE r \in DOMAIN rounds
  <2>1. r < nextRoundId
    BY <1>3, RoundFacts
  <2>2. /\ ClaimedFrom(r) \in Nat /\ SumFunctionOnSet(DueOf, StakesOnRound(r)) \in Nat
        /\ Pool(r) \in Nat
    BY <1>1, <2>1, ClaimedFacts, DueOnRound, PoolTypes
  <2>3. DueFrom(r) <= Pool(r)
    BY <1>3 DEF RoundsPaid, PaysOut
  <2> QED
    BY <1>3, <2>1, <2>2, <2>3 DEF HeldFor, DueFrom
<1> QED
  BY <1>2, <1>3 DEF HeldFor

(* The pots of the rounds are pots. *)
LEMMA PotsTyped ==
  IInv /\ Books /\ RoundsPaid => RoundPots \in [RoundIds -> EscrowFacts!PotType]
<1> SUFFICES ASSUME IInv, Books, RoundsPaid
             PROVE  RoundPots \in [RoundIds -> EscrowFacts!PotType]
  OBVIOUS
<1>1. \A r \in RoundIds : HeldFor(r) \in Nat
  BY HeldIs
<1>2. \A r \in RoundIds, p \in Players : OwedTo(r, p) \in Nat
  BY DueFacts DEF OwedTo
<1>3. ASSUME NEW r \in RoundIds PROVE RoundPots[r] \in EscrowFacts!PotType
  <2>1. PotIs(r)
    BY PotsAre DEF AllPots
  <2>2. StageIs(r) \in {"open", "locked", "settled"}
    BY DEF StageIs
  <2> QED
    BY <1>1, <1>2, <2>1, <2>2 DEF PotIs, EscrowFacts!PotType, EscrowFacts!Stages
<1>4. RoundPots = [r \in RoundIds |-> RoundPots[r]]
  BY DEF RoundPots, RoundIds
<1> QED
  BY <1>3, <1>4

(* The pot of a round, before and after a step *)
LEMMA PotsBoth ==
  ASSUME IInv, IInv', Books, Books', NEW r \in RoundIds
  PROVE  /\ RoundPots[r] = [stage |-> StageIs(r), held |-> HeldFor(r),
                            owed |-> [p \in Players |-> OwedTo(r, p)]]
         /\ RoundPots'[r] = [stage |-> StageIs(r)', held |-> HeldFor(r)',
                             owed |-> [p \in Players |-> OwedTo(r, p)']]
<1>1. AllPots'
  BY PotsAre, PTL
<1>2. RoundIds' = RoundIds
  BY DEF RoundIds
<1> QED
  BY <1>1, <1>2, PotsAre DEF AllPots, PotIs

(* and field by field *)
LEMMA PotFields ==
  ASSUME IInv, IInv', Books, Books', NEW r \in RoundIds
  PROVE  /\ RoundPots[r].stage = StageIs(r) /\ RoundPots'[r].stage = StageIs(r)'
         /\ RoundPots[r].held = HeldFor(r) /\ RoundPots'[r].held = HeldFor(r)'
         /\ \A q \in Players : /\ RoundPots[r].owed[q] = OwedTo(r, q)
                                /\ RoundPots'[r].owed[q] = OwedTo(r, q)'
<1>1. /\ RoundPots[r] = [stage |-> StageIs(r), held |-> HeldFor(r),
                         owed |-> [p \in Players |-> OwedTo(r, p)]]
      /\ RoundPots'[r] = [stage |-> StageIs(r)', held |-> HeldFor(r)',
                          owed |-> [p \in Players |-> OwedTo(r, p)']]
  BY PotsBoth
<1> DEFINE P == RoundPots
           Q == RoundPots'
<1> HIDE DEF P, Q
<1>2. /\ P[r] = [stage |-> StageIs(r), held |-> HeldFor(r),
                 owed |-> [p \in Players |-> OwedTo(r, p)]]
      /\ Q[r] = [stage |-> StageIs(r)', held |-> HeldFor(r)',
                 owed |-> [p \in Players |-> OwedTo(r, p)']]
  BY <1>1, Zenon DEF P, Q
<1>3. /\ P[r].stage = StageIs(r) /\ Q[r].stage = StageIs(r)'
      /\ P[r].held = HeldFor(r) /\ Q[r].held = HeldFor(r)'
      /\ \A q \in Players : /\ P[r].owed[q] = OwedTo(r, q)
                             /\ Q[r].owed[q] = OwedTo(r, q)'
  BY <1>2
<1> QED
  BY <1>3 DEF P, Q

(* A pot stays the same if its stage, its coins and its dues do. *)
LEMMA SamePot ==
  ASSUME IInv, IInv', Books, Books', NEW r \in RoundIds,
         StageIs(r)' = StageIs(r), HeldFor(r)' = HeldFor(r),
         \A p \in Players : OwedTo(r, p)' = OwedTo(r, p)
  PROVE  RoundPots'[r] = RoundPots[r]
<1>1. [p \in Players |-> OwedTo(r, p)'] = [p \in Players |-> OwedTo(r, p)]
  OBVIOUS
<1> QED
  BY <1>1, PotsBoth

(* What a bet does to the pot of its round *)
LEMMA BetPot ==
  ASSUME IInv, IInv', Books, Books', RoundsPaid,
         NEW p \in Players, NEW r \in RoundIds, NEW dir \in Directions,
         NEW gross \in Stakes, NEW token, BetsOn(p, r, dir, gross, token)
  PROVE  /\ StageIs(r) = "open" /\ StageIs(r)' = "open"
         /\ HeldFor(r)' = HeldFor(r) + gross
         /\ \A q \in Players :
              OwedTo(r, q)' = IF q = p THEN OwedTo(r, q) + gross ELSE OwedTo(r, q)
<1>1. /\ r \in Nat /\ r = nextRoundId - 1 /\ r \notin DOMAIN rounds
      /\ nextRoundId \in Nat /\ r < nextRoundId /\ r # nextRoundId - 2
      /\ UNCHANGED <<nextRoundId, rounds, claims>>
      /\ gross \in Nat
  BY RoundFacts, PredictionAssumption DEF BetsOn, RoundIds
<1>2. StageIs(r) = "open" /\ StageIs(r)' = "open"
  BY <1>1 DEF StageIs
<1>3. HeldFor(r)' = HeldFor(r) + gross
  <2> DEFINE P == PoolOf(r)
             Q == PoolOf(r)'
  <2>1. /\ P["Bull"] \in Nat /\ P["Bear"] \in Nat
    BY <1>1, PoolTypes DEF Pools, Directions
  <2>2. Q[dir] = P[dir] + gross /\ \A d \in Directions : d # dir => Q[d] = P[d]
    BY DEF BetsOn
  <2>3. ClaimedFrom(r)' = ClaimedFrom(r)
    BY <1>1, Zenon DEF ClaimedFrom
  <2>4. ClaimedFrom(r) = 0
    BY <1>1, ClaimedFacts
  <2>5. /\ HeldFor(r) = (P["Bull"] + P["Bear"]) - 0
        /\ HeldFor(r)' = (Q["Bull"] + Q["Bear"]) - 0
    BY <1>1, <2>3, <2>4 DEF HeldFor, Pool
  <2> HIDE DEF P, Q
  <2> QED
    BY <1>1, <2>1, <2>2, <2>5 DEF Directions
<1>4. ASSUME NEW q \in Players
      PROVE  OwedTo(r, q)' = IF q = p THEN OwedTo(r, q) + gross ELSE OwedTo(r, q)
  <2>1. CASE q = p
    BY <1>1, <2>1 DEF BetsOn, OwedTo, DueOf
  <2>2. CASE q # p
    <3>1. <<r, q>> \in DOMAIN bets' <=> <<r, q>> \in DOMAIN bets
      BY <2>2 DEF BetsOn
    <3>2. <<r, q>> \in DOMAIN bets => bets'[<<r, q>>] = bets[<<r, q>>]
      BY <2>2 DEF BetsOn
    <3> QED
      BY <1>1, <2>2, <3>1, <3>2 DEF OwedTo, DueOf
  <2> QED
    BY <2>1, <2>2
<1> QED
  BY <1>2, <1>3, <1>4

(* A bet is a deposit. *)
LEMMA BetDeposits ==
  ASSUME IInv, IInv', Books, Books', RoundsPaid, RoundsPaid',
         NEW p \in Players, NEW r \in RoundIds, NEW dir \in Directions,
         NEW gross \in Stakes, NEW token, BetsOn(p, r, dir, gross, token)
  PROVE  RoundEscrow!Deposit(r, p)
<1> DEFINE P == RoundPots
           Q == RoundPots'
<1>1. P \in [RoundIds -> EscrowFacts!PotType] /\ Q \in [RoundIds -> EscrowFacts!PotType]
  <2>1. P \in [RoundIds -> EscrowFacts!PotType]
    BY PotsTyped
  <2>2. (RoundPots \in [RoundIds -> EscrowFacts!PotType])'
    BY PotsTyped, PTL
  <2> QED
    BY <2>1, <2>2 DEF RoundIds
<1>2. ASSUME NEW q \in RoundIds, q # r PROVE Q[q] = P[q]
  <2>1. q \in Nat
    BY PredictionAssumption DEF RoundIds
  <2>2. KeepsRound(q) /\ PoolOf(q)' = PoolOf(q)
    BY <1>2, <2>1 DEF BetsOn, KeepsRound
  <2>3. UNCHANGED <<nextRoundId, rounds>>
    BY DEF BetsOn
  <2>4. ClaimedFrom(q)' = ClaimedFrom(q) /\ \A o \in Players : OwedTo(q, o)' = OwedTo(q, o)
    BY <2>2, KeepsRoundFacts
  <2>5. HeldFor(q)' = HeldFor(q) /\ StageIs(q)' = StageIs(q)
    BY <2>2, <2>3, <2>4 DEF HeldFor, StageIs, Pool
  <2> QED
    BY <2>4, <2>5, SamePot
<1>3. /\ StageIs(r) = "open" /\ StageIs(r)' = "open"
      /\ HeldFor(r)' = HeldFor(r) + gross
      /\ \A q \in Players :
           OwedTo(r, q)' = IF q = p THEN OwedTo(r, q) + gross ELSE OwedTo(r, q)
  BY BetPot
<1>4. /\ P[r].stage = StageIs(r) /\ Q[r].stage = StageIs(r)'
      /\ P[r].held = HeldFor(r) /\ Q[r].held = HeldFor(r)'
      /\ \A q \in Players : P[r].owed[q] = OwedTo(r, q) /\ Q[r].owed[q] = OwedTo(r, q)'
  BY PotFields
<1>5. HeldFor(r) \in Nat /\ gross \in Nat \ {0}
  BY HeldIs, PredictionAssumption
<1> HIDE DEF P, Q
<1>6. Q = EscrowFacts!PaidInto(P, r, p, gross)
  <2>1. /\ \A q \in RoundIds : q # r => Q[q] = P[q]
        /\ Q[r].stage = P[r].stage
        /\ Q[r].held = P[r].held + gross
        /\ \A q \in Players :
             Q[r].owed[q] = IF q = p THEN P[r].owed[q] + gross ELSE P[r].owed[q]
    BY <1>2, <1>3, <1>4
  <2> QED
    BY <1>1, <1>5, <2>1, EscrowFacts!PaidIn
<1>7. Q[r].held - P[r].held = gross
  BY <1>3, <1>4, <1>5
<1> QED
  BY <1>3, <1>4, <1>5, <1>6, <1>7
     DEF RoundEscrow!Deposit, RoundEscrow!PaidInto, EscrowFacts!PaidInto, P, Q

(* What a round owes its players in all is what its bets are due *)
TotalsAgree ==
  \A r \in RoundIds : SumFunctionOnSet([p \in Players |-> OwedTo(r, p)], Players)
                        = SumFunctionOnSet(DueOf, StakesOnRound(r))

(* The dues of the players of a round are the dues of its bets. *)
LEMMA TotalOwedIs == IInv /\ Books => TotalsAgree
<1> SUFFICES ASSUME IInv, Books, NEW r
             PROVE  SumFunctionOnSet([p \in Players |-> OwedTo(r, p)], Players)
                      = SumFunctionOnSet(DueOf, StakesOnRound(r))
  BY DEF TotalsAgree
<1> USE PredictionAssumption
<1> DEFINE S == Players
           T == {p \in Players : <<r, p>> \in DOMAIN bets}
           g == [p \in Players |-> OwedTo(r, p)]
           h == [p \in T |-> <<r, p>>]
           f == DueOf
<1>1. /\ IsFiniteSet(S) /\ T \in SUBSET S
      /\ h \in [T -> DOMAIN f]
      /\ \A p \in T : g[p] = f[h[p]] /\ f[h[p]] \in Nat
      /\ \A p \in S \ T : g[p] = 0
  BY DueFacts DEF OwedTo, DueOf
<1>2. ASSUME NEW p \in T, NEW q \in T, h[p] = h[q] PROVE p = q
  BY <1>2
<1>3. {h[p] : p \in T} = StakesOnRound(r)
  <2>1. ASSUME NEW k \in StakesOnRound(r) PROVE k[2] \in T /\ h[k[2]] = k
    BY DueOnRound
  <2>2. ASSUME NEW p \in T PROVE h[p] \in StakesOnRound(r)
    BY DEF StakesOnRound
  <2> HIDE DEF h, T
  <2> QED
    BY <2>1, <2>2
<1> HIDE DEF S, T, g, h, f
<1>4. IsFiniteSet(T)
  BY <1>1, FS_Subset
<1>5. SumFunctionOnSet(g, S) = SumFunctionOnSet(g, T)
  <2>1. \A p \in T : g[p] \in Nat
    BY <1>1
  <2> QED
    BY <1>1, <2>1, SumSupport
<1>6. SumFunctionOnSet(g, T) = SumFunctionOnSet(f, {h[p] : p \in T})
  <2>1. \A p \in T : f[h[p]] \in Nat /\ g[p] = f[h[p]]
    BY <1>1
  <2>2. h \in [T -> DOMAIN f] /\ \A p, q \in T : h[p] = h[q] => p = q
    BY <1>1, <1>2
  <2> QED
    BY <1>4, <2>1, <2>2, SumReindex
<1> QED
  BY <1>3, <1>5, <1>6 DEF g, S, f

(* The pots of a new contract are empty. *)
LEMMA EscrowInit == Init => RoundEscrow!Init
<1> SUFFICES ASSUME Init PROVE RoundEscrow!Init
  OBVIOUS
<1>1. DOMAIN rounds = {} /\ DOMAIN bets = {} /\ nextRoundId = 0
  BY DEF Init, EmptyMap
<1>2. IInv /\ Books
  BY InitInv, BooksInit
<1>3. ASSUME NEW r \in RoundIds
      PROVE  RoundPots[r] = [stage |-> "open", held |-> 0, owed |-> [p \in Players |-> 0]]
  <2>1. r \in Nat
    BY PredictionAssumption DEF RoundIds
  <2>2. StageIs(r) = "open" /\ HeldFor(r) = 0
    BY <1>1, <2>1 DEF StageIs, HeldFor
  <2>3. [p \in Players |-> OwedTo(r, p)] = [p \in Players |-> 0]
    BY <1>1 DEF OwedTo
  <2>4. PotIs(r)
    BY <1>2, PotsAre DEF AllPots
  <2> QED
    BY <2>2, <2>3, <2>4 DEF PotIs
<1>4. RoundPots = [r \in RoundIds |-> RoundPots[r]]
  BY DEF RoundPots, RoundIds
<1> QED
  BY <1>3, <1>4 DEF RoundEscrow!Init, RoundEscrow!NewPot, RoundIds

(* What CloseRound does to the pot of the round it settles, *)
LEMMA ClosePotSettles ==
  ASSUME IInv, IInv', Books, Books', PoolsMatch, RoundsPaid, RoundsPaid', Closes,
         NEW r \in RoundIds, r \in DOMAIN rounds', r \notin DOMAIN rounds
  PROVE  RoundEscrow!Settles(RoundPots[r], RoundPots'[r])
<1> DEFINE P == RoundPots
           Q == RoundPots'
           s == SumFunctionOnSet(DueOf', StakesOnRound(r))
<1>1. /\ r \in Nat /\ r < nextRoundId /\ r = nextRoundId - 2
      /\ PoolOf(r)' = PoolOf(r)
      /\ claims' = claims /\ bets' = bets /\ nextRoundId' = nextRoundId + 1
      /\ nextRoundId \in Nat
  BY SettledIs, RoundFacts DEF Closes
<1>2. HeldFor(r) = Pool(r) /\ ClaimedFrom(r) = 0 /\ HeldFor(r) \in Nat
  BY <1>1, HeldIs
<1>3. HeldFor(r)' = Pool(r)
  <2>1. ClaimedFrom(r)' = ClaimedFrom(r)
    BY <1>1, Zenon DEF ClaimedFrom
  <2>2. Pool(r)' = Pool(r)
    BY <1>1 DEF Pool
  <2>3. r < nextRoundId'
    BY <1>1
  <2>4. HeldFor(r)' = Pool(r) - 0
    BY <1>2, <2>1, <2>2, <2>3 DEF HeldFor
  <2>5. Pool(r) \in Nat
    BY <1>2
  <2> QED
    BY <2>4, <2>5
<1>4. SumFunctionOnSet([p \in Players |-> OwedTo(r, p)'], Players) = s
  <2>1. TotalsAgree'
    BY TotalOwedIs, PTL
  <2>2. StakesOnRound(r)' = StakesOnRound(r) /\ RoundIds' = RoundIds
    BY <1>1 DEF StakesOnRound, RoundIds
  <2> QED
    BY <2>1, <2>2 DEF TotalsAgree
<1>5. s <= Pool(r)
  BY Settlement
<1>6. StageIs(r) = "locked" /\ StageIs(r)' = "settled"
  BY <1>1 DEF StageIs
<1>7. P[r].stage = "locked" /\ P[r].held = Pool(r)
  BY <1>2, <1>6, PotFields
<1>8. /\ Q[r].stage = "settled" /\ Q[r].held = Pool(r)
      /\ Q[r].owed = [p \in Players |-> OwedTo(r, p)']
  <2>1. Q[r] = [stage |-> StageIs(r)', held |-> HeldFor(r)',
                owed |-> [p \in Players |-> OwedTo(r, p)']]
    BY PotsBoth
  <2> HIDE DEF Q
  <2> QED
    BY <1>3, <1>6, <2>1
<1>9. RoundEscrow!TotalOwed(Q[r]) = SumFunctionOnSet(Q[r].owed, Players)
  BY Zenon DEF RoundEscrow!TotalOwed, SumFunctionOnSet, RoundEscrow!SumFunctionOnSet,
       FoldFunctionOnSet, RoundEscrow!FoldFunctionOnSet, MapThenFoldSet,
       RoundEscrow!MapThenFoldSet
<1> HIDE DEF P, Q, s
<1>10. RoundEscrow!TotalOwed(Q[r]) = s
  BY <1>4, <1>8, <1>9, Zenon
<1>11. RoundEscrow!Settles(P[r], Q[r])
  BY <1>5, <1>7, <1>8, <1>10 DEF RoundEscrow!Settles
<1> QED
  BY <1>11 DEF P, Q

(* of the round it locks, *)
LEMMA ClosePotLocks ==
  ASSUME IInv, IInv', Books, Books', RoundsPaid, Closes,
         NEW r \in RoundIds, r = nextRoundId - 1
  PROVE  RoundEscrow!Locks(RoundPots[r], RoundPots'[r])
<1>1. /\ r \in Nat /\ nextRoundId \in Nat /\ nextRoundId' = nextRoundId + 1
      /\ r < nextRoundId /\ r < nextRoundId' /\ r = nextRoundId' - 2
      /\ r # nextRoundId - 2 /\ r \in 0..(nextRoundId - 1)
      /\ r \notin DOMAIN rounds /\ r \notin DOMAIN rounds'
  BY RoundFacts, PredictionAssumption DEF Closes, RoundIds
<1>2. KeepsRound(r)
  BY <1>1 DEF Closes, KeepsRound
<1>3. StageIs(r) = "open" /\ StageIs(r)' = "locked"
  BY <1>1 DEF StageIs
<1>4. ClaimedFrom(r)' = ClaimedFrom(r) /\ \A p \in Players : OwedTo(r, p)' = OwedTo(r, p)
  BY <1>2, KeepsRoundFacts
<1>5. Pool(r)' = Pool(r)
  BY <1>1 DEF Closes, Pool
<1>6. HeldFor(r)' = HeldFor(r)
  BY <1>1, <1>4, <1>5 DEF HeldFor
<1>7. [p \in Players |-> OwedTo(r, p)'] = [p \in Players |-> OwedTo(r, p)]
  BY <1>4
<1> DEFINE P == RoundPots[r]
           Q == RoundPots'[r]
           h == HeldFor(r)
           w == [p \in Players |-> OwedTo(r, p)]
<1>8. /\ P = [stage |-> "open", held |-> h, owed |-> w]
      /\ Q = [stage |-> "locked", held |-> h, owed |-> w]
  BY <1>3, <1>6, <1>7, PotsBoth
<1> HIDE DEF P, Q, h, w
<1>9. RoundEscrow!Locks(P, Q)
  BY <1>8 DEF RoundEscrow!Locks
<1> QED
  BY <1>9 DEF P, Q

(* and of every other round. *)
LEMMA ClosePotStays ==
  ASSUME IInv, IInv', Books, Books', RoundsPaid, Closes,
         NEW r \in RoundIds, r # nextRoundId - 1,
         r \in DOMAIN rounds \/ r \notin DOMAIN rounds'
  PROVE  RoundPots'[r] = RoundPots[r]
<1>1. /\ r \in Nat /\ nextRoundId \in Nat /\ nextRoundId' = nextRoundId + 1
      /\ DOMAIN rounds = 0..(nextRoundId - 3) /\ DOMAIN rounds' = 0..(nextRoundId - 2)
  BY RoundFacts, PredictionAssumption DEF Closes, RoundIds
<1>2. CASE r \in DOMAIN rounds
  <2>1. /\ KeepsRound(r) /\ r \in DOMAIN rounds' /\ rounds'[r] = rounds[r]
        /\ r < nextRoundId /\ r < nextRoundId'
    BY <1>1, <1>2 DEF Closes, KeepsRound
  <2>2. Pool(r)' = Pool(r)
    BY <1>2, <2>1, PoolKept
  <2>3. ClaimedFrom(r)' = ClaimedFrom(r) /\ \A p \in Players : OwedTo(r, p)' = OwedTo(r, p)
    BY <2>1, KeepsRoundFacts
  <2>4. StageIs(r)' = StageIs(r) /\ HeldFor(r)' = HeldFor(r)
    BY <1>2, <2>1, <2>2, <2>3 DEF StageIs, HeldFor
  <2> QED
    BY <2>3, <2>4, SamePot
<1>3. CASE r \notin DOMAIN rounds
  <2>1. r \notin DOMAIN rounds' /\ ~(r < nextRoundId)
        /\ r # nextRoundId - 2 /\ r # nextRoundId' - 2
    BY <1>1, <1>3
  <2>2. KeepsRound(r)
    BY <1>3, <2>1 DEF Closes, KeepsRound
  <2>3. /\ ClaimedFrom(r)' = ClaimedFrom(r) /\ ClaimedFrom(r) = 0
        /\ \A p \in Players : OwedTo(r, p)' = OwedTo(r, p)
    BY <1>3, <2>2, KeepsRoundFacts, ClaimedFacts
  <2>4. StageIs(r)' = StageIs(r)
    BY <1>3, <2>1 DEF StageIs
  <2>5. HeldFor(r)' = 0
    <3>1. CASE r = nextRoundId
      <4>1. PoolOf(r)'["Bull"] = 0 /\ PoolOf(r)'["Bear"] = 0
        BY <1>1, <3>1 DEF Closes, Directions
      <4>2. Pool(r)' = 0
        BY <4>1 DEF Pool
      <4> QED
        BY <2>3, <4>2 DEF HeldFor
    <3>2. CASE r # nextRoundId
      <4>1. ~(r < nextRoundId')
        BY <1>1, <2>1, <3>2
      <4> QED
        BY <4>1 DEF HeldFor
    <3> QED
      BY <3>1, <3>2
  <2>6. HeldFor(r) = 0
    BY <2>1 DEF HeldFor
  <2> QED
    BY <2>3, <2>4, <2>5, <2>6, SamePot
<1> QED
  BY <1>2, <1>3

(* So it is an advance of the escrow. *)
LEMMA CloseAdvances ==
  ASSUME IInv, IInv', Books, Books', PoolsMatch, RoundsPaid, RoundsPaid', Closes
  PROVE  RoundEscrow!Advance
<1>1. RoundPots' \in [0..MaxRound -> RoundEscrow!PotType]
  <2>1. (RoundPots \in [RoundIds -> EscrowFacts!PotType])'
    BY PotsTyped, PTL
  <2> QED
    BY <2>1 DEF EscrowFacts!PotType, RoundEscrow!PotType, EscrowFacts!Stages,
         RoundEscrow!Stages, RoundIds
<1>2. ASSUME NEW r \in 0..MaxRound
      PROVE  \/ RoundPots'[r] = RoundPots[r]
             \/ RoundEscrow!Locks(RoundPots[r], RoundPots'[r])
             \/ RoundEscrow!Settles(RoundPots[r], RoundPots'[r])
  <2>1. r \in RoundIds
    BY DEF RoundIds
  <2>2. CASE r = nextRoundId - 1
    BY <2>1, <2>2, ClosePotLocks
  <2>3. CASE r \in DOMAIN rounds' /\ r \notin DOMAIN rounds
    BY <2>1, <2>3, ClosePotSettles
  <2>4. CASE r # nextRoundId - 1 /\ (r \in DOMAIN rounds \/ r \notin DOMAIN rounds')
    BY <2>1, <2>4, ClosePotStays
  <2> QED
    BY <2>2, <2>3, <2>4
<1> QED
  BY <1>1, <1>2 DEF RoundEscrow!Advance

(* What a claim leaves of the pots it does not pay from *)
LEMMA ClaimPotStays ==
  ASSUME IInv, IInv', Books, Books', RoundsPaid,
         NEW p \in Players, NEW keys \in SUBSET FinishedBets, Claims(p, keys),
         NEW r \in RoundIds, <<r, p>> \notin keys \/ OwedTo(r, p) = 0
  PROVE  RoundPots'[r] = RoundPots[r]
<1>1. /\ UNCHANGED <<nextRoundId, nextRound, liveRound, rounds>>
      /\ r \in Nat /\ nextRoundId \in Nat
  BY RoundFacts, PredictionAssumption DEF Claims, RoundIds
<1>2. Pool(r)' = Pool(r)
  BY <1>1 DEF Pool, PoolOf
<1>3. /\ ClaimedFrom(r)' = ClaimedFrom(r)
      /\ \A q \in Players : OwedTo(r, q)' = OwedTo(r, q)
  <2>1. CASE <<r, p>> \in keys
    <3>1. OwedTo(r, p) = 0 /\ ClaimedFrom(r) \in Nat
      BY <2>1, ClaimedFacts
    <3> QED
      BY <2>1, <3>1, ClaimMoves
  <2>2. CASE <<r, p>> \notin keys
    BY <2>2, ClaimKeeps
  <2> QED
    BY <2>1, <2>2
<1>4. StageIs(r)' = StageIs(r) /\ HeldFor(r)' = HeldFor(r)
  BY <1>1, <1>2, <1>3 DEF StageIs, HeldFor
<1> QED
  BY <1>3, <1>4, SamePot

(* and what it does to one it pays from *)
LEMMA ClaimPot ==
  ASSUME IInv, IInv', Books, Books', RoundsPaid,
         NEW p \in Players, NEW keys \in SUBSET FinishedBets, Claims(p, keys),
         NEW r \in RoundIds, <<r, p>> \in keys
  PROVE  /\ StageIs(r) = "settled" /\ StageIs(r)' = "settled"
         /\ HeldFor(r)' = HeldFor(r) - OwedTo(r, p)
         /\ \A q \in Players : OwedTo(r, q)' = IF q = p THEN 0 ELSE OwedTo(r, q)
<1>1. r \in DOMAIN rounds /\ r < nextRoundId /\ r \in Nat
  BY RoundFacts DEF FinishedBets
<1>2. UNCHANGED <<nextRoundId, nextRound, liveRound, rounds>>
  BY DEF Claims
<1>3. Pool(r)' = Pool(r)
  BY <1>2 DEF Pool, PoolOf
<1>4. /\ ClaimedFrom(r)' = ClaimedFrom(r) + OwedTo(r, p) /\ OwedTo(r, p) \in Nat
      /\ \A q \in Players : OwedTo(r, q)' = IF q = p THEN 0 ELSE OwedTo(r, q)
  BY ClaimMoves
<1>5. ClaimedFrom(r) \in Nat /\ Pool(r) \in Nat
  BY <1>1, ClaimedFacts, PoolTypes
<1>6. HeldFor(r)' = HeldFor(r) - OwedTo(r, p)
  BY <1>1, <1>2, <1>3, <1>4, <1>5 DEF HeldFor
<1> QED
  BY <1>1, <1>2, <1>4, <1>6 DEF StageIs

(* A claim is a payment of everything the pots of its rounds owe the player. *)
LEMMA ClaimPays ==
  ASSUME IInv, IInv', Books, Books', RoundsPaid, RoundsPaid', NEW p \in Players,
         NEW keys \in SUBSET FinishedBets, Claims(p, keys)
  PROVE  RoundEscrow!Pay(p)
<1> DEFINE P == RoundPots
           Q == RoundPots'
           X == {r \in RoundIds : <<r, p>> \in keys /\ OwedTo(r, p) > 0}
<1>1. P \in [RoundIds -> EscrowFacts!PotType] /\ Q \in [RoundIds -> EscrowFacts!PotType]
  <2>1. P \in [RoundIds -> EscrowFacts!PotType]
    BY PotsTyped
  <2>2. (RoundPots \in [RoundIds -> EscrowFacts!PotType])'
    BY PotsTyped, PTL
  <2> QED
    BY <2>1, <2>2 DEF RoundIds
<1>2. ASSUME NEW r \in RoundIds, r \notin X PROVE Q[r] = P[r]
  <2>1. <<r, p>> \notin keys \/ OwedTo(r, p) = 0
    <3>1. <<r, p>> \in keys => OwedTo(r, p) \in Nat
      BY ClaimMoves
    <3> QED
      BY <1>2, <3>1
  <2> QED
    BY <2>1, ClaimPotStays
<1>3. ASSUME NEW r \in X
      PROVE  P[r].stage = "settled" /\ P[r].owed[p] > 0
             /\ Q[r] = EscrowFacts!PaidOutOf(P[r], p)
  <2>1. r \in RoundIds /\ <<r, p>> \in keys /\ OwedTo(r, p) > 0
    OBVIOUS
  <2>2. /\ StageIs(r) = "settled" /\ StageIs(r)' = "settled"
        /\ HeldFor(r)' = HeldFor(r) - OwedTo(r, p)
        /\ \A q \in Players : OwedTo(r, q)' = IF q = p THEN 0 ELSE OwedTo(r, q)
    BY <2>1, ClaimPot
  <2>3. /\ P[r].stage = StageIs(r) /\ Q[r].stage = StageIs(r)'
        /\ P[r].held = HeldFor(r) /\ Q[r].held = HeldFor(r)'
        /\ \A q \in Players : P[r].owed[q] = OwedTo(r, q) /\ Q[r].owed[q] = OwedTo(r, q)'
    BY <2>1, PotFields
  <2>4. P[r] \in EscrowFacts!PotType /\ Q[r] \in EscrowFacts!PotType
    BY <1>1, <2>1
  <2> HIDE DEF P, Q, X
  <2>5. /\ Q[r].stage = P[r].stage /\ Q[r].held = P[r].held - P[r].owed[p]
        /\ \A q \in Players : Q[r].owed[q] = IF q = p THEN 0 ELSE P[r].owed[q]
    BY <2>2, <2>3
  <2>6. Q[r] = EscrowFacts!PaidOutOf(P[r], p)
    BY <2>4, <2>5, EscrowFacts!PaidOut
  <2>7. P[r].stage = "settled" /\ P[r].owed[p] > 0
    BY <2>1, <2>2, <2>3
  <2> QED
    BY <2>6, <2>7
<1>4. X \in SUBSET {r \in RoundIds : P[r].stage = "settled" /\ P[r].owed[p] > 0}
  <2>1. X \subseteq RoundIds
    OBVIOUS
  <2> HIDE DEF X, P, Q
  <2> QED
    BY <1>3, <2>1
<1>5. DOMAIN Q = RoundIds /\ Q = [r \in RoundIds |-> Q[r]]
  BY <1>1
<1> HIDE DEF P, Q, X
<1>6. Q = [r \in RoundIds |-> IF r \in X THEN EscrowFacts!PaidOutOf(P[r], p) ELSE P[r]]
  BY <1>2, <1>3, <1>5
<1> QED
  BY <1>4, <1>6
     DEF RoundEscrow!Pay, RoundEscrow!PaidOutOf, EscrowFacts!PaidOutOf, P, Q, RoundIds

(* Every step of the contract is a step of the escrow, or none. *)
LEMMA EscrowStep ==
  IInv /\ IInv' /\ Books /\ Books' /\ PoolsMatch /\ RoundsPaid /\ RoundsPaid' /\ [Next]_vars
    => [RoundEscrow!Next]_RoundPots
<1> SUFFICES ASSUME IInv, IInv', Books, Books', PoolsMatch, RoundsPaid, RoundsPaid',
                    [Next]_vars
             PROVE  [RoundEscrow!Next]_RoundPots
  OBVIOUS
<1>1. CASE Quiet
  <2>1. UNCHANGED <<nextRoundId, nextRound, liveRound, rounds, bets, claims>>
    BY <1>1 DEF Quiet, bookVars
  <2>2. ASSUME NEW r \in RoundIds PROVE RoundPots'[r] = RoundPots[r]
    <3>1. KeepsRound(r)
      BY <2>1 DEF KeepsRound
    <3>2. ClaimedFrom(r)' = ClaimedFrom(r) /\ \A p \in Players : OwedTo(r, p)' = OwedTo(r, p)
      BY <3>1, KeepsRoundFacts
    <3>3. Pool(r)' = Pool(r)
      BY <2>1 DEF Pool, PoolOf
    <3>4. StageIs(r)' = StageIs(r) /\ HeldFor(r)' = HeldFor(r)
      BY <2>1, <3>2, <3>3 DEF StageIs, HeldFor
    <3> QED
      BY <3>2, <3>4, SamePot
  <2>3. /\ RoundPots = [r \in RoundIds |-> RoundPots[r]]
        /\ RoundPots' = [r \in RoundIds |-> RoundPots'[r]]
    BY DEF RoundPots, RoundIds
  <2> QED
    BY <2>2, <2>3
<1>2. ASSUME NEW p \in Players, NEW r \in Nat, NEW dir \in Directions, NEW gross \in Stakes,
             BetsOn(p, r, dir, gross, config.token_denom)
      PROVE  RoundEscrow!Next
  <2>1. r \in RoundIds
    <3>1. r = nextRoundId - 1 /\ nextRoundId \in Nat /\ nextRoundId <= MaxRound
      BY <1>2, RoundFacts DEF BetsOn, Books
    <3> QED
      BY <3>1, PredictionAssumption DEF RoundIds
  <2>2. RoundEscrow!Deposit(r, p)
    BY <1>2, <2>1, BetDeposits
  <2> QED
    BY <2>1, <2>2 DEF RoundEscrow!Next, RoundIds
<1>3. CASE Closes
  BY <1>3, CloseAdvances DEF RoundEscrow!Next
<1>4. ASSUME NEW p \in Players, NEW keys \in SUBSET FinishedBetsOf(p), Pay(p, keys)
      PROVE  RoundEscrow!Next
  <2>1. Claims(p, keys) /\ keys \in SUBSET FinishedBets
    BY <1>4, PayIs, OfPlayer
  <2>2. RoundEscrow!Pay(p)
    BY <2>1, ClaimPays
  <2> QED
    BY <2>2 DEF RoundEscrow!Next
<1> QED
  BY <1>1, <1>2, <1>3, <1>4, StepIs

(* The game implements the escrow: coins enter a round only as the stake   *)
(* of a player who is then owed as much, a round is settled for no more    *)
(* than its pool, and its coins leave only as a full payment of one        *)
(* player's dues.                                                          *)
THEOREM EscrowRefinement == Spec => ImplementsEscrow
<1>1. Init => RoundEscrow!Init
  BY EscrowInit
<1>2. IInv /\ IInv' /\ Books /\ Books' /\ PoolsMatch /\ RoundsPaid /\ [Next]_vars
        => RoundsPaid'
  BY PaidNext
<1>3. IInv /\ IInv' /\ Books /\ Books' /\ PoolsMatch /\ RoundsPaid /\ RoundsPaid' /\ [Next]_vars
        => [RoundEscrow!Next]_RoundPots
  BY EscrowStep
<1> QED
  BY <1>1, <1>2, <1>3, PaidInit, Invariance, BooksInit, BooksNext, PoolsInit, PoolsNext, PTL
     DEF Spec, ImplementsEscrow, RoundEscrow!Spec

(* So each round is solvent by itself: what has been paid into it and not  *)
(* out again covers what it still owes, to whoever has a bet on it.        *)
THEOREM RoundsNeverShort == Spec => []RoundEscrow!NeverShort
<1>1. \A pot : RoundEscrow!TotalOwed(pot) = EscrowFacts!TotalOwed(pot)
  BY Zenon DEF RoundEscrow!TotalOwed, RoundEscrow!SumFunctionOnSet,
       RoundEscrow!FoldFunctionOnSet, RoundEscrow!MapThenFoldSet, EscrowFacts!TotalOwed,
       EscrowFacts!SumFunctionOnSet, EscrowFacts!FoldFunctionOnSet,
       EscrowFacts!MapThenFoldSet
<1>2. RoundEscrow!PotType = EscrowFacts!PotType
  BY DEF RoundEscrow!PotType, RoundEscrow!Stages, EscrowFacts!PotType, EscrowFacts!Stages
<1>3. RoundEscrow!Init => EscrowFacts!Init
  BY DEF RoundEscrow!Init, EscrowFacts!Init, RoundEscrow!NewPot, EscrowFacts!NewPot, RoundIds
<1>4. RoundEscrow!Next => EscrowFacts!Next
  <2>1. ASSUME NEW x \in RoundIds, NEW p \in Players, RoundEscrow!Deposit(x, p)
        PROVE  EscrowFacts!Deposit(x, p)
    BY <2>1 DEF RoundEscrow!Deposit, EscrowFacts!Deposit, RoundEscrow!PaidInto,
         EscrowFacts!PaidInto
  <2>2. RoundEscrow!Advance => EscrowFacts!Advance
    <3>1. \A old, new : RoundEscrow!Settles(old, new) <=> EscrowFacts!Settles(old, new)
      BY <1>1, Zenon DEF RoundEscrow!Settles, EscrowFacts!Settles
    <3>2. \A old, new : RoundEscrow!Locks(old, new) <=> EscrowFacts!Locks(old, new)
      BY Zenon DEF RoundEscrow!Locks, EscrowFacts!Locks
    <3> QED
      BY <1>2, <3>1, <3>2, Zenon DEF RoundEscrow!Advance, EscrowFacts!Advance, RoundIds
  <2>3. ASSUME NEW p \in Players, RoundEscrow!Pay(p) PROVE EscrowFacts!Pay(p)
    BY <2>3, Zenon DEF RoundEscrow!Pay, EscrowFacts!Pay, RoundEscrow!PaidOutOf,
         EscrowFacts!PaidOutOf, RoundIds
  <2> QED
    BY <2>1, <2>2, <2>3 DEF RoundEscrow!Next, EscrowFacts!Next, RoundIds
<1>5. EscrowFacts!NeverShort => RoundEscrow!NeverShort
  BY <1>1, <1>2, Zenon DEF RoundEscrow!NeverShort, EscrowFacts!NeverShort, RoundIds
<1>6. EscrowFacts!Spec => []EscrowFacts!NeverShort
  <2>1. EscrowFacts!IsFiniteSet(Players)
    BY PredictionAssumption DEF IsFiniteSet, EscrowFacts!IsFiniteSet
  <2> QED
    BY <2>1, EscrowFacts!EscrowNeverShort, PTL
<1> QED
  BY <1>3, <1>4, <1>5, <1>6, EscrowRefinement, PTL
     DEF ImplementsEscrow, RoundEscrow!Spec, EscrowFacts!Spec

=============================================================================
