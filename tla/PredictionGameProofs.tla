----------------------- MODULE PredictionGameProofs -----------------------
(***************************************************************************)
(* Proofs about PredictionGame, for every value of its constants: the      *)
(* rounds.                                                                 *)
(*                                                                         *)
(* First the inductive invariant and what it contains; then what a step    *)
(* may never do to a bet or a pool, what the position query shows, that    *)
(* the game is the one the manager takes it for (GameInterface), and that  *)
(* a round that is due is settled.                                         *)
(***************************************************************************)
EXTENDS PredictionGame, TLAPS

(* The inductive invariant.  BetsWithinPools needs RoundsInOrder to know   *)
(* which pool a stored bet belongs to, TypeOK needs BetsWithinPools to     *)
(* know that a winner's share is not divided by zero, and ClaimedOnce      *)
(* needs RoundsInOrder to know that the bidding round is not finished.     *)
IInv ==
  /\ TypeOK
  /\ RoundsInOrder
  /\ BetsWithinPools
  /\ ClaimedOnce
  /\ DenomsPriced

(* Integer division of naturals *)
LEMMA DivNat ==
  ASSUME NEW a \in Nat, NEW b \in Nat, NEW c \in Nat, c > 0
  PROVE  MultiplyRatio(a, b, c) \in Nat
<1>1. a * b \in Nat
  OBVIOUS
<1>2. ASSUME NEW x \in Nat PROVE x \div c \in Nat
  OBVIOUS
<1> QED
  BY <1>1, <1>2 DEF MultiplyRatio

(* A freshly instantiated contract satisfies the invariant. *)
THEOREM InitInv == Init => IInv
<1> SUFFICES ASSUME Init PROVE IInv
  OBVIOUS
<1> USE PredictionAssumption
<1>1. TypeOK
  <2>1. DOMAIN tickers \subseteq Denoms /\ tickers \in [DOMAIN tickers -> Tickers]
    BY DEF Init, InitTickers, RegisteredDenoms
  <2>2. roundDenoms \in Seq(Denoms) /\ roundDenoms # <<>>
    <3>1. DOMAIN roundDenoms = 1..Len(DenomTickers) /\ Len(DenomTickers) \in Nat \ {0}
      BY DEF Init
    <3>2. \A i \in DOMAIN roundDenoms : roundDenoms[i] \in Denoms
      BY DEF Init
    <3>3. roundDenoms \in [1..Len(DenomTickers) -> Denoms]
      BY <3>1, <3>2 DEF Init
    <3>4. roundDenoms \in Seq(Denoms)
      BY <3>1, <3>3
    <3> QED
      BY <3>1, <3>4
  <2>3. config \in ConfigType
    BY DEF Init
  <2> QED
    BY <2>1, <2>2, <2>3 DEF Init, TypeOK, EmptyMap
<1>2. RoundsInOrder
  BY DEF Init, RoundsInOrder, EmptyMap
<1>3. BetsWithinPools /\ ClaimedOnce
  BY DEF Init, BetsWithinPools, ClaimedOnce, EmptyMap
<1>4. DenomsPriced
  <2>1. RegisteredDenoms = DOMAIN tickers
    BY DEF Init, InitTickers
  <2> QED
    BY <2>1 DEF Init, DenomsPriced, RegisteredDenoms
<1> QED
  BY <1>1, <1>2, <1>3, <1>4 DEF IInv

(* A bet keeps the invariant.  It only touches the bidding round: its      *)
(* player's entry and its pool grow by the same amount on the same side.   *)
LEMMA BetInv ==
  ASSUME IInv,
         NEW p \in Players, NEW round_id \in Nat, NEW dir \in Directions,
         NEW gross \in Stakes, NEW token \in Tokens,
         Bet(p, round_id, dir, gross, token)
  PROVE  IInv'
<1> DEFINE key == <<round_id, p>>
<1> USE PredictionAssumption
<1>1. /\ nextRound \in NextRounds /\ nextRound # NoRound
      /\ round_id = nextRound.id /\ round_id = nextRoundId - 1
      /\ nextRoundId \in Nat /\ nextRoundId > 0
  BY DEF IInv, TypeOK, RoundsInOrder, Bet
<1>2. /\ gross \in Nat /\ gross > 0
  OBVIOUS
<1>3. /\ nextRound' \in NextRounds
      /\ nextRound'.id = nextRound.id
      /\ nextRound'.open_time = nextRound.open_time
      /\ nextRound'.denom = nextRound.denom
      /\ nextRound'.pool[dir] = nextRound.pool[dir] + gross
      /\ \A d \in Directions : d # dir => nextRound'.pool[d] = nextRound.pool[d]
  <2>1. nextRound.pool \in [Directions -> Nat] /\ nextRound.pool[dir] \in Nat
    BY <1>1 DEF NextRounds, Pools
  <2> DEFINE pool == [nextRound.pool EXCEPT ![dir] = @ + gross]
  <2>2. nextRound' = [nextRound EXCEPT !.pool = pool]
    BY DEF Bet, AddToPool
  <2>3. /\ pool \in Pools
        /\ pool[dir] = nextRound.pool[dir] + gross
        /\ \A d \in Directions : d # dir => pool[d] = nextRound.pool[d]
    BY <1>2, <2>1 DEF Pools
  <2> HIDE DEF pool
  <2> QED
    BY <1>1, <2>2, <2>3 DEF NextRounds
<1>4. /\ DOMAIN bets' = DOMAIN bets \cup {key}
      /\ bets'[key] = [amount |-> StakeWith(key, gross), direction |-> dir]
      /\ \A k \in DOMAIN bets : k # key => bets'[k] = bets[k]
  <2>1. bets' = Save(bets, key, [amount |-> StakeWith(key, gross), direction |-> dir])
    BY DEF Bet
  <2> QED
    BY <2>1 DEF Save, SaveAll
<1>5. /\ key \in DOMAIN bets =>
           /\ bets[key].direction = dir
           /\ bets[key].amount \in Nat
           /\ bets[key].amount <= nextRound.pool[dir]
           /\ StakeWith(key, gross) = bets[key].amount + gross
      /\ key \notin DOMAIN bets => StakeWith(key, gross) = gross
  <2>1. key \notin DOMAIN bets => StakeWith(key, gross) = gross
    BY DEF StakeWith
  <2>2. ASSUME key \in DOMAIN bets
        PROVE  /\ bets[key].direction = dir
               /\ bets[key].amount \in Nat
               /\ bets[key].amount <= nextRound.pool[dir]
               /\ StakeWith(key, gross) = bets[key].amount + gross
    <3>1. bets[key].direction = dir
      BY <2>2 DEF Bet, SameDirection
    <3>2. bets[key].amount \in Nat
      BY <2>2 DEF IInv, TypeOK, BetInfos
    <3>3. round_id \notin DOMAIN rounds
      BY <1>1 DEF IInv, RoundsInOrder
    <3>4. PoolOf(round_id) = nextRound.pool
      BY <1>1, <3>3 DEF PoolOf
    <3>5. bets[key].amount <= PoolOf(key[1])[bets[key].direction]
      BY <2>2 DEF IInv, BetsWithinPools
    <3> QED
      BY <2>2, <3>1, <3>2, <3>4, <3>5 DEF StakeWith
  <2> QED
    BY <2>1, <2>2
<1>6. /\ StakeWith(key, gross) \in Nat /\ StakeWith(key, gross) > 0
      /\ StakeWith(key, gross) <= nextRound'.pool[dir]
  <2>1. nextRound.pool[dir] \in Nat
    BY <1>1 DEF NextRounds, Pools
  <2> QED
    BY <1>2, <1>3, <1>5, <2>1
<1>7. TypeOK'
  <2>1. /\ DOMAIN bets' \subseteq Nat \X Players
        /\ bets' \in [DOMAIN bets' -> BetInfos]
    <3>1. bets'[key] \in BetInfos
      BY <1>4, <1>6 DEF BetInfos
    <3>2. \A k \in DOMAIN bets' : bets'[k] \in BetInfos
      BY <1>4, <3>1 DEF IInv, TypeOK
    <3>3. bets' = [k \in DOMAIN bets' |-> bets'[k]]
      BY DEF Bet, Save, SaveAll
    <3> QED
      BY <1>4, <3>2, <3>3 DEF IInv, TypeOK
  <2>2. /\ DOMAIN totalsSpent' \subseteq Players
        /\ totalsSpent' \in [DOMAIN totalsSpent' -> Nat]
    <3>1. LoadOr(totalsSpent, p, 0) + gross \in Nat
      BY <1>2 DEF LoadOr, IInv, TypeOK
    <3> QED
      BY <3>1 DEF Bet, Save, SaveAll, IInv, TypeOK
  <2> QED
    BY <1>3, <2>1, <2>2 DEF IInv, TypeOK, Bet, adminVars
<1>8. RoundsInOrder'
  BY <1>1, <1>3 DEF IInv, RoundsInOrder, Bet
<1>9. BetsWithinPools'
  <2>1. ASSUME NEW k \in DOMAIN bets'
        PROVE  /\ k[1] < nextRoundId'
               /\ 0 < bets'[k].amount
               /\ bets'[k].amount <= PoolOf(k[1])'[bets'[k].direction]
    <3>1. CASE k = key
      <4>1. PoolOf(key[1])' = nextRound'.pool
        BY <1>1 DEF IInv, RoundsInOrder, PoolOf, Bet
      <4> QED
        BY <1>1, <1>4, <1>6, <3>1, <4>1 DEF Bet
    <3>2. CASE k # key
      <4>1. k \in DOMAIN bets /\ bets'[k] = bets[k] /\ bets[k] \in BetInfos
        BY <1>4, <3>2 DEF IInv, TypeOK
      <4>2. /\ k[1] < nextRoundId /\ 0 < bets[k].amount
            /\ bets[k].amount <= PoolOf(k[1])[bets[k].direction]
        BY <4>1 DEF IInv, BetsWithinPools
      <4>3. CASE k[1] # round_id
        <5>1. PoolOf(k[1])' = PoolOf(k[1])
          BY <1>1, <4>3 DEF PoolOf, Bet
        <5> QED
          BY <4>1, <4>2, <5>1 DEF Bet
      <4>4. CASE k[1] = round_id
        <5>1. round_id \notin DOMAIN rounds
          BY <1>1 DEF IInv, RoundsInOrder
        <5>2. PoolOf(k[1]) = nextRound.pool /\ PoolOf(k[1])' = nextRound'.pool
          BY <1>1, <4>4, <5>1 DEF PoolOf, Bet
        <5>3. /\ bets[k].amount \in Nat /\ bets[k].direction \in Directions
              /\ nextRound.pool[bets[k].direction] \in Nat
          BY <4>1, <1>1 DEF BetInfos, NextRounds, Pools
        <5>4. nextRound.pool[bets[k].direction] <= nextRound'.pool[bets[k].direction]
          <6>1. \/ nextRound'.pool[bets[k].direction] = nextRound.pool[bets[k].direction]
                \/ /\ bets[k].direction = dir
                   /\ nextRound'.pool[dir] = nextRound.pool[dir] + gross
            BY <1>3, <5>3
          <6> QED
            BY <1>2, <5>3, <6>1
        <5> QED
          BY <4>1, <4>2, <5>2, <5>3, <5>4, <1>3 DEF Bet, NextRounds, Pools
      <4> QED
        BY <4>3, <4>4
    <3> QED
      BY <3>1, <3>2
  <2> QED
    BY <2>1 DEF BetsWithinPools
<1>10. ClaimedOnce'
  <2>1. round_id \notin DOMAIN rounds
    BY <1>1 DEF IInv, RoundsInOrder
  <2> QED
    BY <1>4, <2>1 DEF IInv, ClaimedOnce, Bet
<1>11. DenomsPriced'
  BY <1>1, <1>3 DEF IInv, DenomsPriced, Bet, adminVars
<1> QED
  BY <1>7, <1>8, <1>9, <1>10, <1>11 DEF IInv

(* The bidding round a CloseRound creates: it has the next id, no bets,    *)
(* opens when the round gone live closes, and its denom has a ticker.      *)
LEMMA NewBidRoundFacts ==
  ASSUME IInv, NEW live \in LiveRounds \cup {NoRound}
  PROVE  /\ NewBidRound(live) \in NextRounds
         /\ NewBidRound(live).id = nextRoundId
         /\ NewBidRound(live).denom \in DOMAIN tickers
         /\ live # NoRound => NewBidRound(live).open_time = live.close_time
<1> USE PredictionAssumption
<1> DEFINE i == (nextRoundId % Len(roundDenoms)) + 1
<1>1. /\ roundDenoms \in Seq(Denoms) /\ Len(roundDenoms) \in Nat \ {0}
      /\ nextRoundId \in Nat
  BY DEF IInv, TypeOK
<1>2. i \in 1..Len(roundDenoms)
  <2>1. ASSUME NEW n \in Nat, NEW m \in Nat \ {0}
        PROVE  n % m \in 0..(m - 1)
    OBVIOUS
  <2>2. nextRoundId % Len(roundDenoms) \in 0..(Len(roundDenoms) - 1)
    BY <1>1, <2>1
  <2>3. ASSUME NEW m \in Nat \ {0}, NEW r \in 0..(m - 1)
        PROVE  r + 1 \in 1..m
    OBVIOUS
  <2> QED
    BY <1>1, <2>2, <2>3
<1>3. i \in DOMAIN roundDenoms
  BY <1>1, <1>2
<1>4. roundDenoms[i] \in Denoms /\ roundDenoms[i] \in DOMAIN tickers
  BY <1>1, <1>3 DEF IInv, DenomsPriced
<1> HIDE DEF i
<1>5. now + config.next_round_seconds \in Nat /\ config.next_round_seconds \in Nat
  BY DEF IInv, TypeOK, ConfigType
<1>6. live # NoRound => live.close_time \in Nat
  BY DEF LiveRounds
<1>7. [d \in Directions |-> 0] \in Pools
  BY DEF Pools
<1>8. NewBidRound(live).denom = roundDenoms[i]
  BY DEF NewBidRound, i
<1>9. NewBidRound(live) \in NextRounds
  BY <1>1, <1>4, <1>5, <1>6, <1>7 DEF NewBidRound, NextRounds, i
<1> QED
  BY <1>4, <1>8, <1>9 DEF NewBidRound

(* A price CloseRound works with is one of the prices. *)
LEMMA PriceType ==
  ASSUME IInv, NEW oracle \in [Tickers -> Answers], NEW denom,
         PriceKnown(oracle, denom)
  PROVE  CurrentPrice(oracle, denom) \in Prices
<1>1. tickers[denom] \in Tickers
  BY DEF IInv, TypeOK, PriceKnown
<1>2. oracle[tickers[denom]] \in {b \in Answers : Normalizes(b)}
  BY <1>1 DEF PriceKnown
<1> QED
  BY <1>2 DEF CurrentPrice, Prices

(* CloseRound keeps the invariant.  The live round is settled exactly when *)
(* the bidding round opens, because the two times are the same.            *)
LEMMA CloseRoundInv ==
  ASSUME IInv, NEW oracle \in [Tickers -> Answers], CloseRound(oracle)
  PROVE  IInv'
<1> USE PredictionAssumption
<1>1. /\ SettlesNow => OpensNow
      /\ OpensNow /\ liveRound # NoRound => SettlesNow
      /\ nextRoundId \in Nat /\ now \in Nat
  BY DEF IInv, TypeOK, RoundsInOrder, SettlesNow, OpensNow
<1>2. /\ bets' = bets /\ claims' = claims /\ totalsSpent' = totalsSpent
      /\ config' = config /\ isHalted' = isHalted /\ admins' = admins
      /\ tickers' = tickers /\ roundDenoms' = roundDenoms /\ now' = now
  BY DEF CloseRound, adminVars
<1>3. CASE OpensNow
  <2>1. /\ nextRound \in NextRounds /\ nextRound # NoRound
        /\ nextRound.id = nextRoundId - 1 /\ nextRoundId > 0
        /\ nextRoundId' = nextRoundId + 1
    BY <1>1, <1>3 DEF IInv, TypeOK, RoundsInOrder, OpensNow, CloseRound,
                      NextId, CreatesNow
  <2>2. CurrentPrice(oracle, nextRound.denom) \in Prices
    BY <1>3, PriceType DEF CloseRound, CanClose
  <2>3. liveRound' = RoundOpen(nextRound, CurrentPrice(oracle, nextRound.denom))
    BY <1>3 DEF CloseRound
  <2>4. /\ liveRound' \in LiveRounds /\ liveRound' # NoRound
        /\ liveRound'.id = nextRoundId - 1
        /\ liveRound'.pool = nextRound.pool /\ liveRound'.denom = nextRound.denom
    <3>1. now \in Nat /\ config.next_round_seconds \in Nat
      BY DEF IInv, TypeOK, ConfigType
    <3>2. now + config.next_round_seconds \in Nat
      BY <3>1
    <3> QED
      BY <1>1, <2>1, <2>2, <2>3, <3>2 DEF RoundOpen, LiveRounds, NextRounds
  <2>5. nextRound' = NewBidRound(liveRound')
    BY <1>3 DEF CloseRound, CreatesNow
  <2>6. /\ nextRound' \in NextRounds /\ nextRound' # NoRound
        /\ nextRound'.id = nextRoundId
        /\ nextRound'.denom \in DOMAIN tickers
        /\ nextRound'.open_time = liveRound'.close_time
    BY <2>4, <2>5, NewBidRoundFacts
  <2>7. /\ DOMAIN rounds' = 0..(nextRoundId - 2)
        /\ rounds' \in [DOMAIN rounds' -> FinishedRounds]
        /\ \A r \in DOMAIN rounds' : PoolOf(r) = rounds'[r].pool
    <3>1. CASE liveRound = NoRound
      <4>1. rounds' = rounds
        BY <3>1 DEF CloseRound, SettlesNow
      <4>2. nextRoundId = 1 /\ DOMAIN rounds = {}
        BY <1>1, <2>1, <3>1 DEF IInv, RoundsInOrder
      <4> QED
        BY <4>1, <4>2 DEF IInv, TypeOK
    <3>2. CASE liveRound # NoRound
      <4> DEFINE closed == RoundClose(liveRound, CurrentPrice(oracle, liveRound.denom))
      <4>1. SettlesNow
        BY <1>1, <1>3, <3>2
      <4>2. CurrentPrice(oracle, liveRound.denom) \in Prices
        BY <4>1, PriceType DEF CloseRound, CanClose
      <4>3. /\ liveRound \in LiveRounds /\ liveRound.id = nextRoundId - 2
            /\ nextRoundId >= 2 /\ DOMAIN rounds = 0..(nextRoundId - 3)
        BY <1>1, <3>2 DEF IInv, TypeOK, RoundsInOrder
      <4>4. closed \in FinishedRounds /\ closed.pool = liveRound.pool
        <5>1. Winner(liveRound.open_price, CurrentPrice(oracle, liveRound.denom))
                \in Directions \cup {Nobody}
          BY DEF Winner, Directions
        <5> QED
          BY <4>2, <4>3, <5>1 DEF RoundClose, FinishedRounds, LiveRounds
      <4> HIDE DEF closed
      <4>5. rounds' = Save(rounds, liveRound.id, closed)
        BY <4>1 DEF CloseRound, closed
      <4>6. /\ DOMAIN rounds' = DOMAIN rounds \cup {liveRound.id}
            /\ rounds'[liveRound.id] = closed
            /\ \A r \in DOMAIN rounds : r # liveRound.id => rounds'[r] = rounds[r]
            /\ rounds' = [r \in DOMAIN rounds' |-> rounds'[r]]
        BY <4>5 DEF Save, SaveAll
      <4>7. DOMAIN rounds' = 0..(nextRoundId - 2)
        <5>1. 0..(nextRoundId - 3) \cup {nextRoundId - 2} = 0..(nextRoundId - 2)
          <6>1. \A x \in Int : x \in 0..(nextRoundId - 3) \cup {nextRoundId - 2}
                                <=> x \in 0..(nextRoundId - 2)
            BY <1>1, <4>3
          <6>2. /\ 0..(nextRoundId - 3) \cup {nextRoundId - 2} \subseteq Int
                /\ 0..(nextRoundId - 2) \subseteq Int
            BY <1>1
          <6> QED
            BY <6>1, <6>2, Zenon
        <5> QED
          BY <4>3, <4>6, <5>1
      <4>8. \A r \in DOMAIN rounds' : rounds'[r] \in FinishedRounds
        BY <4>3, <4>4, <4>6 DEF IInv, TypeOK
      <4>9. PoolOf(liveRound.id) = liveRound.pool
        BY <1>1, <4>3 DEF PoolOf
      <4>10. \A r \in DOMAIN rounds : PoolOf(r) = rounds[r].pool /\ r # liveRound.id
        BY <1>1, <4>3 DEF PoolOf
      <4> QED
        BY <4>4, <4>6, <4>7, <4>8, <4>9, <4>10
    <3> QED
      BY <3>1, <3>2
  <2>8. TypeOK'
    <3>1. DOMAIN rounds' \subseteq Nat
      BY <2>7, <1>1
    <3>2. nextRoundId' \in Nat
      BY <1>1, <2>1
    <3> QED
      BY <1>2, <2>4, <2>6, <2>7, <3>1, <3>2 DEF IInv, TypeOK
  <2>9. RoundsInOrder'
    BY <1>1, <2>1, <2>4, <2>6, <2>7 DEF RoundsInOrder
  <2>10. BetsWithinPools'
    <3>1. ASSUME NEW k \in DOMAIN bets
          PROVE  k[1] < nextRoundId' /\ PoolOf(k[1])' = PoolOf(k[1])
      <4>1. k[1] \in Nat /\ k[1] < nextRoundId
        BY DEF IInv, TypeOK, BetsWithinPools
      <4>2. CASE k[1] \in DOMAIN rounds'
        <5>1. PoolOf(k[1])' = rounds'[k[1]].pool
          BY <1>1, <2>1, <2>7, <4>2 DEF PoolOf
        <5>2. k[1] < nextRoundId'
          BY <1>1, <2>1, <4>1
        <5> QED
          BY <2>7, <4>2, <5>1, <5>2
      <4>3. CASE k[1] \notin DOMAIN rounds'
        <5>1. k[1] = nextRoundId - 1 /\ k[1] \notin DOMAIN rounds
          <6>1. /\ DOMAIN rounds = 0..(nextRoundId - 3)
                /\ DOMAIN rounds' = 0..(nextRoundId - 2)
            BY <2>7 DEF IInv, RoundsInOrder
          <6>2. k[1] = nextRoundId - 1
            BY <1>1, <4>1, <4>3, <6>1
          <6> QED
            BY <1>1, <6>1, <6>2
        <5>2. PoolOf(k[1]) = nextRound.pool
          BY <1>1, <5>1 DEF PoolOf
        <5>3. PoolOf(k[1])' = liveRound'.pool
          BY <1>1, <2>1, <4>3, <5>1 DEF PoolOf
        <5> QED
          BY <1>1, <2>1, <2>4, <4>1, <5>2, <5>3
      <4> QED
        BY <4>2, <4>3
    <3> QED
      BY <1>2, <3>1 DEF IInv, BetsWithinPools
  <2>11. ClaimedOnce'
    <3>1. DOMAIN rounds \subseteq DOMAIN rounds'
      BY <1>1, <2>7 DEF IInv, RoundsInOrder
    <3> QED
      BY <1>2, <3>1 DEF IInv, ClaimedOnce
  <2>12. DenomsPriced'
    BY <1>2, <2>1, <2>4, <2>6 DEF IInv, DenomsPriced, CloseRound, adminVars
  <2> QED
    BY <2>8, <2>9, <2>10, <2>11, <2>12 DEF IInv
<1>4. CASE nextRound = NoRound
  <2>1. /\ nextRoundId = 0 /\ liveRound = NoRound /\ liveRound' = NoRound
        /\ DOMAIN rounds = {} /\ rounds' = rounds /\ nextRoundId' = 1
        /\ nextRound' = NewBidRound(NoRound)
    <3>1. nextRoundId = 0 /\ liveRound = NoRound /\ DOMAIN rounds = 0..(nextRoundId - 3)
      BY <1>1, <1>4 DEF IInv, RoundsInOrder
    <3>2. DOMAIN rounds = {}
      BY <3>1
    <3>3. rounds' = rounds /\ liveRound' = NoRound
      BY <1>4, <3>1 DEF CloseRound, SettlesNow, OpensNow
    <3>4. nextRoundId' = nextRoundId + 1 /\ nextRound' = NewBidRound(liveRound')
      BY <1>4 DEF CloseRound, CreatesNow, NextId
    <3> QED
      BY <3>1, <3>2, <3>3, <3>4
  <2>2. /\ nextRound' \in NextRounds /\ nextRound' # NoRound
        /\ nextRound'.id = 0 /\ nextRound'.denom \in DOMAIN tickers
    BY <2>1, NewBidRoundFacts
  <2>3. DOMAIN bets = {} /\ DOMAIN claims = {}
    <3>1. \A k \in DOMAIN bets : k[1] \in Nat /\ k[1] < 0
      BY <2>1 DEF IInv, TypeOK, BetsWithinPools
    <3>2. \A k \in DOMAIN claims : k[1] \in DOMAIN rounds
      BY DEF IInv, ClaimedOnce
    <3> QED
      <4>1. \A k \in DOMAIN bets : FALSE
        BY <3>1
      <4>2. \A k \in DOMAIN claims : FALSE
        BY <2>1, <3>2
      <4> QED
        BY <4>1, <4>2, Zenon
  <2>4. TypeOK'
    BY <1>2, <2>1, <2>2 DEF IInv, TypeOK
  <2>5. RoundsInOrder'
    BY <2>1, <2>2 DEF RoundsInOrder
  <2>6. BetsWithinPools' /\ ClaimedOnce'
    BY <1>2, <2>3 DEF BetsWithinPools, ClaimedOnce
  <2>7. DenomsPriced'
    BY <1>2, <2>1, <2>2 DEF IInv, DenomsPriced, CloseRound, adminVars
  <2> QED
    BY <2>4, <2>5, <2>6, <2>7 DEF IInv
<1>5. CASE ~OpensNow /\ nextRound # NoRound
  <2>1. UNCHANGED <<bookVars, adminVars, totalsSpent, now>>
    BY <1>1, <1>5 DEF CloseRound, CreatesNow, NextId, bookVars
  <2> QED
    BY <2>1 DEF IInv, TypeOK, RoundsInOrder, BetsWithinPools, PoolOf, ClaimedOnce,
                DenomsPriced, bookVars, adminVars
<1> QED
  BY <1>3, <1>4, <1>5

(* What a finished bet is owed is a natural number: the side it divides by *)
(* holds at least its own stake.                                           *)
LEMMA OwedNat ==
  ASSUME IInv, NEW k \in DOMAIN bets, k[1] \in DOMAIN rounds
  PROVE  Owed(k) \in Nat
<1> DEFINE round == rounds[k[1]]
<1> DEFINE bet == bets[k]
<1>1. /\ round.pool \in [Directions -> Nat]
      /\ bet.amount \in Nat /\ bet.amount > 0
      /\ bet.direction \in Directions
  BY DEF IInv, TypeOK, BetsWithinPools, FinishedRounds, Pools, BetInfos
<1>2. round.pool[bet.direction] \in Nat /\ PoolShares(round) \in Nat
  BY <1>1 DEF PoolShares, Directions
<1>3. bet.amount <= round.pool[bet.direction]
  <2>1. nextRoundId \in Nat /\ DOMAIN rounds = 0..(nextRoundId - 3)
    BY DEF IInv, TypeOK, RoundsInOrder
  <2>2. k[1] # nextRoundId - 1 /\ k[1] # nextRoundId - 2
    BY <2>1
  <2>3. PoolOf(k[1]) = round.pool
    BY <2>2 DEF PoolOf
  <2> QED
    BY <2>3 DEF IInv, BetsWithinPools
<1>4. MultiplyRatio(PoolShares(round), bet.amount, round.pool[bet.direction]) \in Nat
  <2>1. round.pool[bet.direction] > 0
    BY <1>1, <1>2, <1>3
  <2> QED
    BY <1>1, <1>2, <2>1, DivNat
<1>5. Winnings(round, bet) \in Nat
  <2>1. CASE round.winner = Nobody
    BY <1>1, <2>1 DEF Winnings, Nobody, Directions
  <2>2. CASE round.winner = bet.direction
    BY <1>1, <1>4, <2>2 DEF Winnings, Nobody, Directions
  <2>3. CASE round.winner # Nobody /\ round.winner # bet.direction
    BY <2>3 DEF Winnings
  <2> QED
    BY <2>1, <2>2, <2>3
<1> QED
  BY <1>1, <1>5 DEF Owed, Payout

(* Both claims pay for stored bets of finished rounds of the claimer. *)
LEMMA ClaimIsPay ==
  ASSUME IInv, NEW p \in Players, Claim(p)
  PROVE  \E keys \in SUBSET DOMAIN bets :
           (\A k \in keys : k[1] \in DOMAIN rounds) /\ Pay(p, keys)
<1>1. CASE CollectWinnings(p)
  <2> DEFINE keys == {k \in BetsOf(p) : k[1] \notin {liveRound.id, nextRound.id}}
  <2>1. keys \in SUBSET DOMAIN bets
    BY DEF BetsOf
  <2>2. (\A k \in keys : k[1] \in DOMAIN rounds) /\ Pay(p, keys)
    BY <1>1 DEF CollectWinnings
  <2> QED
    BY <2>1, <2>2
<1>2. ASSUME NEW round_id \in 0..nextRoundId, CollectWinningRound(p, round_id)
      PROVE  \E keys \in SUBSET DOMAIN bets :
               (\A k \in keys : k[1] \in DOMAIN rounds) /\ Pay(p, keys)
  <2> DEFINE keys == {<<round_id, p>>} \cap DOMAIN bets
  <2>1. keys # {} => round_id \in DOMAIN rounds
    BY <1>2 DEF CollectWinningRound
  <2>2. \A k \in keys : k[1] = round_id
    OBVIOUS
  <2>3. Pay(p, keys)
    BY <1>2 DEF CollectWinningRound
  <2> QED
    BY <2>1, <2>2, <2>3
<1> QED
  BY <1>1, <1>2 DEF Claim

(* A claim keeps the invariant: it removes finished bets and records them  *)
(* as claimed, and leaves the rounds alone.                                *)
LEMMA PayInv ==
  ASSUME IInv, NEW p \in Players, NEW keys \in SUBSET DOMAIN bets,
         \A k \in keys : k[1] \in DOMAIN rounds,
         Pay(p, keys)
  PROVE  IInv'
<1> DEFINE paid == {k \in keys : Owed(k) > 0}
<1>1. /\ UNCHANGED <<nextRoundId, nextRound, liveRound, rounds, totalsSpent, now>>
      /\ UNCHANGED <<config, isHalted, admins, tickers, roundDenoms>>
  BY DEF Pay, adminVars
<1>2. bets' = [k \in DOMAIN bets \ keys |-> bets[k]]
  BY DEF Pay, BetsAfterClaim, Remove
<1>3. claims' = [k \in DOMAIN claims \cup paid |->
                   IF k \in paid THEN Owed(k) ELSE claims[k]]
  BY DEF Pay, SaveAll
<1>4. \A k \in paid : Owed(k) \in Nat /\ Owed(k) > 0
  BY OwedNat
<1>5. TypeOK'
  <2>1. DOMAIN bets' \subseteq Nat \X Players /\ bets' \in [DOMAIN bets' -> BetInfos]
    BY <1>2 DEF IInv, TypeOK
  <2>2. DOMAIN claims' \subseteq Nat \X Players /\ claims' \in [DOMAIN claims' -> Nat]
    BY <1>3, <1>4 DEF IInv, TypeOK
  <2> QED
    BY <1>1, <2>1, <2>2 DEF IInv, TypeOK
<1>6. RoundsInOrder'
  BY <1>1 DEF IInv, RoundsInOrder
<1>7. BetsWithinPools'
  <2>1. ASSUME NEW k PROVE PoolOf(k[1])' = PoolOf(k[1])
    BY <1>1 DEF PoolOf
  <2> QED
    BY <1>1, <1>2, <2>1 DEF IInv, BetsWithinPools
<1>8. ClaimedOnce'
  <2>1. ASSUME NEW k \in DOMAIN claims'
        PROVE  k \notin DOMAIN bets' /\ k[1] \in DOMAIN rounds' /\ claims'[k] > 0
    <3>1. CASE k \in paid
      BY <1>1, <1>2, <1>3, <1>4, <3>1
    <3>2. CASE k \notin paid
      BY <1>1, <1>2, <1>3, <3>2 DEF IInv, ClaimedOnce
    <3> QED
      BY <3>1, <3>2
  <2> QED
    BY <2>1 DEF ClaimedOnce
<1>9. DenomsPriced'
  BY <1>1 DEF IInv, DenomsPriced
<1> QED
  BY <1>5, <1>6, <1>7, <1>8, <1>9 DEF IInv

(* The administrators' messages keep the invariant: they leave the rounds  *)
(* and the bets alone, a denom that had a ticker keeps one, and a new      *)
(* rotation only names such denoms.                                        *)
LEMMA AdministerInv ==
  ASSUME IInv, Administer
  PROVE  IInv'
<1> USE PredictionAssumption
<1>1. UNCHANGED bookVars /\ UNCHANGED totalsSpent /\ UNCHANGED now
  BY DEF Administer, UpdateConfig, UpdateHalt, AddAdmin, RemoveAdmin,
         ModifyDevWallets, AddTicker, ModifyBetArray
<1>2. /\ config' \in ConfigType /\ isHalted' \in BOOLEAN
      /\ admins' \in SUBSET Accounts /\ admins' # {}
  BY DEF IInv, TypeOK, ConfigType, Administer, UpdateConfig, UpdateHalt, AddAdmin,
         RemoveAdmin, ModifyDevWallets, AddTicker, ModifyBetArray
<1>3. /\ DOMAIN tickers' \subseteq Denoms /\ tickers' \in [DOMAIN tickers' -> Tickers]
      /\ DOMAIN tickers \subseteq DOMAIN tickers'
  <2>1. CASE tickers' = tickers
    BY <2>1 DEF IInv, TypeOK
  <2>2. ASSUME NEW denom \in Denoms, NEW ticker \in Tickers,
               tickers' = Save(tickers, denom, ticker)
        PROVE  <1>3
    BY <2>2 DEF IInv, TypeOK, Save, SaveAll
  <2> QED
    BY <2>1, <2>2 DEF Administer, UpdateConfig, UpdateHalt, AddAdmin, RemoveAdmin,
                      ModifyDevWallets, AddTicker, ModifyBetArray
<1>4. /\ roundDenoms' \in Seq(Denoms) /\ roundDenoms' # <<>>
      /\ \A i \in DOMAIN roundDenoms' : roundDenoms'[i] \in DOMAIN tickers
  BY DEF IInv, TypeOK, DenomsPriced, Administer, UpdateConfig, UpdateHalt, AddAdmin,
         RemoveAdmin, ModifyDevWallets, AddTicker, ModifyBetArray
<1>5. TypeOK'
  BY <1>1, <1>2, <1>3, <1>4 DEF IInv, TypeOK, bookVars
<1>6. RoundsInOrder' /\ BetsWithinPools' /\ ClaimedOnce'
  BY <1>1 DEF IInv, RoundsInOrder, BetsWithinPools, PoolOf, ClaimedOnce, bookVars
<1>7. DenomsPriced'
  BY <1>1, <1>3, <1>4 DEF IInv, DenomsPriced, bookVars
<1> QED
  BY <1>5, <1>6, <1>7 DEF IInv

(* Steps that leave the storage of the contract alone. *)
LEMMA QuietInv ==
  ASSUME IInv, UNCHANGED <<bookVars, adminVars, totalsSpent>>, now' \in Nat
  PROVE  IInv'
BY DEF IInv, TypeOK, RoundsInOrder, BetsWithinPools, PoolOf, ClaimedOnce,
       DenomsPriced, bookVars, adminVars

(* Every message, the clock and the registry keep the invariant. *)
THEOREM NextInv == IInv /\ [Next]_vars => IInv'
<1> SUFFICES ASSUME IInv, [Next]_vars PROVE IInv'
  OBVIOUS
<1>1. now \in Nat /\ nextRoundId \in Nat
  BY DEF IInv, TypeOK
<1>2. CASE PlaceBet
  <2>1. \A r \in 0..nextRoundId : r \in Nat
    BY <1>1
  <2> QED
    BY <1>2, <2>1, BetInv DEF PlaceBet
<1>3. CASE Close
  BY <1>3, CloseRoundInv DEF Close
<1>4. CASE \E p \in Players : Claim(p)
  BY <1>4, ClaimIsPay, PayInv
<1>5. CASE Administer
  BY <1>5, AdministerInv
<1>6. CASE ChangeRegistry
  BY <1>1, <1>6, QuietInv DEF ChangeRegistry
<1>7. CASE Tick
  BY <1>1, <1>7, QuietInv DEF Tick
<1>8. CASE UNCHANGED vars
  BY <1>1, <1>8, QuietInv DEF vars
<1> QED
  BY <1>2, <1>3, <1>4, <1>5, <1>6, <1>7, <1>8 DEF Next

(* The inductive invariant holds in every reachable state. *)
THEOREM Invariance == Spec => []IInv
  BY InitInv, NextInv, PTL DEF Spec

(* Its parts, under the names the runs check. *)
THEOREM TypeCorrect == Spec => []TypeOK
  BY Invariance, PTL DEF IInv

(* Round ids have no gap, the live round precedes the bidding round, and   *)
(* there is always a live round once there has been one.                   *)
THEOREM RoundsKeepOrder == Spec => []RoundsInOrder
  BY Invariance, PTL DEF IInv

(* No stake exceeds its side of its round's pool. *)
THEOREM StakesAreCovered == Spec => []BetsWithinPools
  BY Invariance, PTL DEF IInv

(* No bet is paid twice, and none before its round is finished. *)
THEOREM NoDoubleClaim == Spec => []ClaimedOnce
  BY Invariance, PTL DEF IInv

(* No round waits for the price of a denom without a ticker. *)
THEOREM DenomsStayPriced == Spec => []DenomsPriced
  BY Invariance, PTL DEF IInv

----------------------------------------------------------------------------
(* The action property: what a step may never do to bets and rounds *)

(* A bet only changes the sender's own entry, while the round takes bets. *)
LEMMA BetFrozen ==
  ASSUME IInv,
         NEW p \in Players, NEW round_id \in Nat, NEW dir \in Directions,
         NEW gross \in Stakes, NEW token \in Tokens,
         Bet(p, round_id, dir, gross, token)
  PROVE  BetsFrozenStep
<1> DEFINE key == <<round_id, p>>
<1>1. UNCHANGED <<rounds, liveRound>>
  BY DEF Bet
<1>2. ASSUME NEW k \in DOMAIN bets'
      PROVE  \/ k \in DOMAIN bets /\ bets'[k] = bets[k]
             \/ /\ nextRound # NoRound /\ k[1] = nextRound.id
                /\ now <= nextRound.open_time
                /\ k \in DOMAIN bets => /\ bets'[k].direction = bets[k].direction
                                        /\ bets'[k].amount > bets[k].amount
  <2>1. /\ DOMAIN bets' = DOMAIN bets \cup {key}
        /\ bets'[key].direction = dir /\ bets'[key].amount = StakeWith(key, gross)
        /\ \A j \in DOMAIN bets : j # key => bets'[j] = bets[j]
    BY DEF Bet, Save, SaveAll
  <2>2. /\ nextRound # NoRound /\ key[1] = nextRound.id
        /\ now <= nextRound.open_time
        /\ key \in DOMAIN bets => bets[key].direction = dir
    BY DEF Bet, BettingOpen, SameDirection
  <2>3. key \in DOMAIN bets => StakeWith(key, gross) > bets[key].amount
    <3>1. gross \in Nat \ {0}
      BY PredictionAssumption
    <3>2. key \in DOMAIN bets => bets[key].amount \in Nat
      BY DEF IInv, TypeOK, BetInfos
    <3> QED
      BY <3>1, <3>2 DEF StakeWith
  <2> QED
    BY <2>1, <2>2, <2>3
<1> QED
  BY <1>1, <1>2 DEF BetsFrozenStep

(* CloseRound hands pools and prices on as they are, and changes no bet. *)
LEMMA CloseRoundFrozen ==
  ASSUME IInv, NEW oracle \in [Tickers -> Answers], CloseRound(oracle)
  PROVE  BetsFrozenStep
<1>1. bets' = bets
  BY DEF CloseRound
<1>2. OpensNow /\ liveRound # NoRound => SettlesNow
  BY DEF IInv, RoundsInOrder, SettlesNow, OpensNow
<1>3. liveRound' # liveRound /\ nextRound # NoRound /\ liveRound' # NoRound
        => liveRound'.pool = nextRound.pool /\ now >= nextRound.open_time
  <2>1. CASE OpensNow
    BY <2>1 DEF CloseRound, RoundOpen, OpensNow
  <2>2. CASE ~OpensNow
    BY <2>2 DEF CloseRound
  <2> QED
    BY <2>1, <2>2
<1>4. CASE SettlesNow
  <2> DEFINE closed == RoundClose(liveRound, CurrentPrice(oracle, liveRound.denom))
  <2>1. rounds' = Save(rounds, liveRound.id, closed)
    BY <1>4 DEF CloseRound
  <2>2. closed.pool = liveRound.pool /\ closed.open_price = liveRound.open_price
    BY DEF RoundClose
  <2>3. liveRound # NoRound /\ now >= liveRound.close_time
    BY <1>4 DEF SettlesNow
  <2>4. liveRound.id \notin DOMAIN rounds
    BY <2>3 DEF IInv, TypeOK, RoundsInOrder
  <2> HIDE DEF closed
  <2>5. /\ DOMAIN rounds' = DOMAIN rounds \cup {liveRound.id}
        /\ rounds'[liveRound.id] = closed
        /\ \A r \in DOMAIN rounds : r # liveRound.id => rounds'[r] = rounds[r]
    BY <2>1 DEF Save, SaveAll
  <2> QED
    BY <1>1, <1>3, <2>2, <2>3, <2>4, <2>5 DEF BetsFrozenStep
<1>5. CASE ~SettlesNow
  <2>1. rounds' = rounds
    BY <1>5 DEF CloseRound
  <2> QED
    BY <1>1, <1>3, <2>1 DEF BetsFrozenStep
<1> QED
  BY <1>4, <1>5

(* Bets only change while their round takes bets, and rounds carry their   *)
(* pool and open price unchanged from bidding to live to finished.         *)
THEOREM BetsFreeze == Spec => BetsFrozenOnceLive
<1>1. ASSUME IInv, [Next]_vars PROVE [BetsFrozenStep]_vars
  <2> SUFFICES ASSUME Next PROVE BetsFrozenStep
    BY <1>1
  <2>1. CASE PlaceBet
    <3>1. \A r \in 0..nextRoundId : r \in Nat
      BY <1>1 DEF IInv, TypeOK
    <3> QED
      BY <1>1, <2>1, <3>1, BetFrozen DEF PlaceBet
  <2>2. CASE Close
    BY <1>1, <2>2, CloseRoundFrozen DEF Close
  <2>3. CASE \E p \in Players : Claim(p)
    <3>1. PICK p \in Players : Claim(p)
      BY <2>3
    <3>2. PICK keys \in SUBSET DOMAIN bets : Pay(p, keys)
      BY <1>1, <3>1, ClaimIsPay
    <3>3. /\ bets' = [k \in DOMAIN bets \ keys |-> bets[k]]
          /\ UNCHANGED <<liveRound, rounds>>
      BY <3>2 DEF Pay, BetsAfterClaim, Remove
    <3> QED
      BY <3>3 DEF BetsFrozenStep
  <2>4. CASE Administer \/ ChangeRegistry \/ Tick
    <3>1. UNCHANGED bookVars
      BY <2>4 DEF Administer, UpdateConfig, UpdateHalt, AddAdmin, RemoveAdmin,
                  ModifyDevWallets, AddTicker, ModifyBetArray, ChangeRegistry, Tick
    <3> QED
      BY <3>1 DEF BetsFrozenStep, bookVars
  <2> QED
    BY <2>1, <2>2, <2>3, <2>4 DEF Next
<1> QED
  BY <1>1, Invariance, PTL DEF Spec, BetsFrozenOnceLive

----------------------------------------------------------------------------
(* Queries and views of the rounds *)

(* The two rounds that are not finished are found by counting back from    *)
(* NEXT_ROUND_ID.                                                          *)
LEMMA PositionFound == IInv => PositionIsCurrent
<1> SUFFICES ASSUME IInv, NEW p \in Players, nextRoundId > 0
             PROVE  LET stake(round) ==
                          [d \in Directions |->
                             IF round = NoRound THEN 0 ELSE StakeOn(<<round.id, p>>, d)]
                    IN  MyCurrentPosition(p) = [next |-> stake(nextRound),
                                                live |-> stake(liveRound)]
  BY DEF PositionIsCurrent
<1>1. /\ nextRoundId \in Nat
      /\ nextRound # NoRound /\ nextRound.id = nextRoundId - 1
      /\ liveRound = NoRound <=> ~(nextRoundId > 1)
      /\ liveRound # NoRound => liveRound.id = nextRoundId - 2
  BY DEF IInv, TypeOK, RoundsInOrder
<1> QED
  BY <1>1 DEF MyCurrentPosition

(* The position query reports a player's stake in the rounds that are      *)
(* stored as the bidding and the live one.                                 *)
THEOREM PositionStaysCurrent == Spec => []PositionIsCurrent
  BY Invariance, PositionFound, PTL

(* The configuration changes in two messages only, of administrators.      *)
LEMMA ConfigKinds ==
  ASSUME [Next]_vars
  PROVE  \/ UNCHANGED config
         \/ \E u_config \in Configs : config' = u_config
         \/ \E wallets \in WalletLists :
              /\ RatiosSumToOne(wallets)
              /\ config' = [config EXCEPT !.dev_wallet_list = wallets]
<1>1. CASE PlaceBet
  BY <1>1 DEF PlaceBet, Bet, adminVars
<1>2. CASE Close
  BY <1>2 DEF Close, CloseRound, adminVars
<1>3. CASE \E p \in Players : Claim(p)
  BY <1>3 DEF Claim, CollectWinnings, CollectWinningRound, Pay, adminVars
<1>4. CASE Administer
  BY <1>4 DEF Administer, UpdateConfig, UpdateHalt, AddAdmin, RemoveAdmin,
       ModifyDevWallets, AddTicker, ModifyBetArray
<1>5. CASE ChangeRegistry \/ Tick \/ UNCHANGED vars
  BY <1>5 DEF ChangeRegistry, Tick, vars, adminVars
<1> QED
  BY <1>1, <1>2, <1>3, <1>4, <1>5 DEF Next

(* No configuration makes rounds of no length.  The code does not check    *)
(* it: with such a configuration CloseRound opens rounds that are due      *)
(* again at once.                                                          *)
RoundsLast == \A c \in Configs : c.next_round_seconds > 0

ConfigLasts == config.next_round_seconds > 0

(* It holds of every configuration the contract ever stores. *)
LEMMA LastsNext ==
  ASSUME RoundsLast, IInv, ConfigLasts, [Next]_vars
  PROVE  ConfigLasts'
<1>1. config \in ConfigType
  BY DEF IInv, TypeOK
<1> QED
  BY <1>1, ConfigKinds DEF RoundsLast, ConfigLasts, ConfigType

(* Whether something is due, the part of the view time and rounds decide *)
SomethingDue == SettlesNow \/ OpensNow

(* A step that leaves the view alone *)
SameView ==
  /\ UNCHANGED <<admins, isHalted>>
  /\ config'.dev_wallet_list = config.dev_wallet_list
  /\ SomethingDue' = SomethingDue

(* A CloseRound the game accepts leaves nothing due. *)
LEMMA NothingDueAfter ==
  ASSUME IInv, ConfigLasts, NEW oracle \in [Tickers -> Answers], CloseRound(oracle)
  PROVE  ~SomethingDue'
<1> DEFINE secs == config.next_round_seconds
<1>1. /\ SettlesNow => OpensNow
      /\ OpensNow /\ liveRound # NoRound => SettlesNow
      /\ now \in Nat /\ secs \in Nat /\ secs > 0 /\ now' = now
      /\ nextRoundId \in Nat
  BY DEF IInv, TypeOK, ConfigType, RoundsInOrder, SettlesNow, OpensNow, ConfigLasts,
         CloseRound
<1>2. IInv'
  BY CloseRoundInv
<1>3. CASE OpensNow
  <2>1. liveRound' = RoundOpen(nextRound, CurrentPrice(oracle, nextRound.denom))
    BY <1>3 DEF CloseRound
  <2>2. liveRound'.close_time = now + secs
    BY <2>1 DEF RoundOpen
  <2>3. liveRound' # NoRound
    <3>1. nextRoundId' = nextRoundId + 1 /\ nextRoundId # 0
      BY <1>3 DEF CloseRound, NextId, CreatesNow, OpensNow, IInv, RoundsInOrder
    <3> QED
      BY <1>1, <1>2, <3>1 DEF IInv, RoundsInOrder
  <2>4. nextRound'.open_time = liveRound'.close_time
    BY <1>2, <2>3 DEF IInv, RoundsInOrder
  <2> QED
    BY <1>1, <2>2, <2>4 DEF SomethingDue, SettlesNow, OpensNow
<1>4. CASE nextRound = NoRound
  <2>1. liveRound = NoRound /\ liveRound' = NoRound /\ nextRound' = NewBidRound(NoRound)
    BY <1>1, <1>4 DEF IInv, RoundsInOrder, CloseRound, SettlesNow, OpensNow, CreatesNow
  <2>2. nextRound'.open_time = now + secs
    BY <2>1 DEF NewBidRound
  <2> QED
    BY <1>1, <2>1, <2>2 DEF SomethingDue, SettlesNow, OpensNow
<1>5. CASE ~OpensNow /\ nextRound # NoRound
  BY <1>1, <1>5 DEF CloseRound, CreatesNow, SomethingDue, SettlesNow, OpensNow
<1> QED
  BY <1>3, <1>4, <1>5

(* Bets and claims, and what administrators do to prices, leave the view   *)
(* alone; so does the registry.                                            *)
LEMMA BetView ==
  ASSUME IInv, NEW p \in Players, NEW round_id \in Nat, NEW dir \in Directions,
         NEW gross \in Stakes, NEW token \in Tokens,
         Bet(p, round_id, dir, gross, token)
  PROVE  SameView
<1> USE PredictionAssumption
<1>1. /\ nextRound \in NextRounds /\ nextRound # NoRound
      /\ nextRound' = AddToPool(nextRound, dir, gross)
      /\ UNCHANGED <<liveRound, now, config, admins, isHalted>>
  BY DEF IInv, TypeOK, Bet, adminVars
<1>2. IInv'
  BY BetInv
<1>3. nextRound' # NoRound
  <2>1. nextRoundId' = nextRoundId
    BY DEF Bet
  <2> QED
    BY <1>1, <1>2, <2>1 DEF IInv, RoundsInOrder
<1>4. nextRound'.open_time = nextRound.open_time
  BY <1>1 DEF AddToPool, NextRounds
<1> QED
  BY <1>1, <1>3, <1>4 DEF SameView, SomethingDue, SettlesNow, OpensNow

(* The view, from its parts *)
Seen(administrators, halted, wallets, due) ==
  [admins |-> administrators, isHalted |-> halted, dev_wallet_list |-> wallets,
   users_contract |-> "users", due |-> due]

(* A message changes one part of it. *)
LEMMA ViewUpdates ==
  ASSUME NEW x
  PROVE  /\ [GameView EXCEPT !.admins = x]
              = Seen(x, isHalted, config.dev_wallet_list, SomethingDue)
         /\ [GameView EXCEPT !.isHalted = x]
              = Seen(admins, x, config.dev_wallet_list, SomethingDue)
         /\ [GameView EXCEPT !.dev_wallet_list = x]
              = Seen(admins, isHalted, x, SomethingDue)
         /\ [GameView EXCEPT !.users_contract = "users", !.dev_wallet_list = x]
              = Seen(admins, isHalted, x, SomethingDue)
         /\ [GameView EXCEPT !.due = x]
              = Seen(admins, isHalted, config.dev_wallet_list, x)
<1> DEFINE a == admins
           h == isHalted
           w == config.dev_wallet_list
           d == SomethingDue
           game == GameView
<1>0. game = [admins |-> a, isHalted |-> h, dev_wallet_list |-> w,
              users_contract |-> "users", due |-> d]
  BY DEF GameView, SomethingDue
<1> HIDE DEF a, h, w, d, game
<1>1. [game EXCEPT !.admins = x] = Seen(x, h, w, d)
  BY <1>0 DEF Seen
<1>2. [game EXCEPT !.isHalted = x] = Seen(a, x, w, d)
  BY <1>0 DEF Seen
<1>3. [game EXCEPT !.dev_wallet_list = x] = Seen(a, h, x, d)
  BY <1>0 DEF Seen
<1>4. [game EXCEPT !.users_contract = "users", !.dev_wallet_list = x] = Seen(a, h, x, d)
  <2>1. [game EXCEPT !.users_contract = "users"] = game
    BY <1>0
  <2> QED
    BY <1>3, <2>1, Zenon
<1>5. [game EXCEPT !.due = x] = Seen(a, h, w, x)
  BY <1>0 DEF Seen
<1> QED
  BY <1>1, <1>2, <1>3, <1>4, <1>5 DEF a, h, w, d, game

(* Every step is a message of the interface, a round that falls due, or    *)
(* nothing that is seen.                                                   *)
LEMMA ViewStep ==
  ASSUME IInv, [Next]_vars
  PROVE  GameView' = GameView \/ SeenGame!Steps(GameView, GameView')
<1> USE PredictionAssumption
<1>1. /\ GameView.due = SomethingDue /\ GameView'.due = SomethingDue'
      /\ GameView = Seen(admins, isHalted, config.dev_wallet_list, SomethingDue)
      /\ GameView' = Seen(admins', isHalted', config'.dev_wallet_list, SomethingDue')
      /\ GameView.admins = admins /\ GameView.isHalted = isHalted
  BY DEF GameView, SomethingDue, Seen
<1>2. ASSUME UNCHANGED <<admins, isHalted, config>>, SomethingDue' = TRUE
      PROVE  SeenGame!Steps(GameView, GameView')
  <2>1. GameView' = Seen(admins, isHalted, config.dev_wallet_list, TRUE)
    BY <1>1, <1>2, Zenon
  <2>2. [GameView EXCEPT !.due = TRUE] = Seen(admins, isHalted, config.dev_wallet_list, TRUE)
    BY ViewUpdates
  <2>3. GameView' = SeenGame!FallsDue(GameView)
    BY <2>1, <2>2, Zenon DEF SeenGame!FallsDue
  <2> QED
    BY <2>3 DEF SeenGame!Steps
<1>3. ASSUME SameView PROVE GameView' = GameView
  BY <1>1, <1>3 DEF SameView
<1>4. CASE PlaceBet
  <2>1. \A r \in 0..nextRoundId : r \in Nat
    BY DEF IInv, TypeOK
  <2> QED
    BY <1>3, <1>4, <2>1, BetView DEF PlaceBet
<1>5. CASE Close
  <2>1. ~isHalted /\ UNCHANGED <<admins, isHalted, config>>
    BY <1>5 DEF Close, CloseRound, CanClose, adminVars
  <2>2. SomethingDue' = TRUE \/ SomethingDue' = FALSE
    BY DEF SomethingDue, SettlesNow, OpensNow
  <2>3. ASSUME SomethingDue' = FALSE PROVE SeenGame!Steps(GameView, GameView')
    <3>1. PICK sender \in Accounts : TRUE
      BY DEF IInv, TypeOK
    <3> DEFINE msg == SeenGame!CloseRound(TRUE)
    <3>2. msg \in SeenGame!Messages
      <4>1. \A fresh \in BOOLEAN :
              SeenGame!CloseRound(fresh) \in {SeenGame!CloseRound(x) : x \in BOOLEAN}
        BY Zenon
      <4>2. {SeenGame!CloseRound(x) : x \in BOOLEAN} \subseteq SeenGame!Messages
        BY SMT DEF SeenGame!Messages
      <4>3. \A fresh \in BOOLEAN : SeenGame!CloseRound(fresh) \in SeenGame!Messages
        BY <4>1, <4>2, Zenon
      <4> QED
        BY <4>3
    <3>3. SeenGame!Accepts(GameView, sender, msg)
      BY <1>1, <2>1 DEF SeenGame!Accepts, SeenGame!CloseRound
    <3>4. SeenGame!After(GameView, msg) = [GameView EXCEPT !.due = FALSE]
      BY DEF SeenGame!After, SeenGame!CloseRound
    <3>5. GameView' = Seen(admins, isHalted, config.dev_wallet_list, FALSE)
      BY <1>1, <2>1, <2>3, Zenon
    <3>6. [GameView EXCEPT !.due = FALSE] = Seen(admins, isHalted, config.dev_wallet_list, FALSE)
      BY ViewUpdates
    <3>7. GameView' = SeenGame!After(GameView, msg)
      BY <3>4, <3>5, <3>6, Zenon
    <3> QED
      BY <3>1, <3>2, <3>3, <3>7 DEF SeenGame!Steps
  <2> QED
    BY <1>2, <2>1, <2>2, <2>3
<1>6. CASE \E p \in Players : Claim(p)
  <2>1. UNCHANGED <<nextRound, liveRound, now, config, admins, isHalted>>
    BY <1>6 DEF Claim, CollectWinnings, CollectWinningRound, Pay, adminVars
  <2>2. SameView
    BY <2>1 DEF SameView, SomethingDue, SettlesNow, OpensNow
  <2> QED
    BY <1>3, <2>2
<1>7. CASE ChangeRegistry \/ UNCHANGED vars
  <2>1. SameView
    BY <1>7 DEF ChangeRegistry, vars, bookVars, adminVars, SameView, SomethingDue,
         SettlesNow, OpensNow
  <2> QED
    BY <1>3, <2>1
<1>8. CASE Tick
  <2>1. /\ UNCHANGED <<nextRound, liveRound, config, admins, isHalted>>
        /\ now' = now + 1 /\ now \in Nat
    BY <1>8 DEF Tick, bookVars, adminVars, IInv, TypeOK
  <2>2. SomethingDue => SomethingDue'
    <3>1. /\ nextRound # NoRound => nextRound.open_time \in Nat
          /\ liveRound # NoRound => liveRound.close_time \in Nat
      BY DEF IInv, TypeOK, NextRounds, LiveRounds
    <3> QED
      BY <2>1, <3>1 DEF SomethingDue, SettlesNow, OpensNow
  <2>3. CASE SomethingDue' = SomethingDue
    BY <1>3, <2>1, <2>3 DEF SameView
  <2>4. CASE SomethingDue' # SomethingDue
    <3>1. SomethingDue \in BOOLEAN /\ SomethingDue' \in BOOLEAN
      BY DEF SomethingDue, SettlesNow, OpensNow
    <3>2. SomethingDue' = TRUE
      BY <2>2, <2>4, <3>1
    <3> QED
      BY <1>2, <2>1, <3>2
  <2> QED
    BY <2>3, <2>4
<1>9. CASE Administer
  <2>1. PICK sender \in Accounts :
          \/ \E u_config \in Configs : UpdateConfig(sender, u_config)
          \/ \E halt \in BOOLEAN : UpdateHalt(sender, halt)
          \/ \E account \in Accounts : AddAdmin(sender, account)
          \/ \E account \in Accounts : RemoveAdmin(sender, account)
          \/ \E wallets \in WalletLists : ModifyDevWallets(sender, wallets)
          \/ \E denom \in Denoms, ticker \in Tickers : AddTicker(sender, denom, ticker)
          \/ \E denoms \in BetArrays : ModifyBetArray(sender, denoms)
    BY <1>9 DEF Administer
  <2>2. sender \in admins /\ UNCHANGED <<nextRound, liveRound, now>>
    BY <2>1 DEF UpdateConfig, UpdateHalt, AddAdmin, RemoveAdmin, ModifyDevWallets,
         AddTicker, ModifyBetArray, bookVars
  <2>3. SomethingDue' = SomethingDue
    BY <2>2 DEF SomethingDue, SettlesNow, OpensNow
  <2>4. ASSUME NEW msg \in SeenGame!Messages, SeenGame!Accepts(GameView, sender, msg),
               GameView' = SeenGame!After(GameView, msg)
        PROVE  SeenGame!Steps(GameView, GameView')
    BY <2>4 DEF SeenGame!Steps
  <2>5. ASSUME NEW u_config \in Configs, UpdateConfig(sender, u_config)
        PROVE  SeenGame!Steps(GameView, GameView')
    <3> DEFINE msg == SeenGame!UpdateConfig("users", u_config.dev_wallet_list)
    <3>1. msg \in SeenGame!Messages
      BY DEF SeenGame!Messages, AllWalletLists
    <3>2. SeenGame!Accepts(GameView, sender, msg)
      BY <1>1, <2>2 DEF SeenGame!Accepts, SeenGame!UpdateConfig
    <3>3. SeenGame!After(GameView, msg) =
            [GameView EXCEPT !.users_contract = "users",
                             !.dev_wallet_list = u_config.dev_wallet_list]
      BY DEF SeenGame!After, SeenGame!UpdateConfig
    <3>4. admins' = admins /\ isHalted' = isHalted /\ config' = u_config
      BY <2>5 DEF UpdateConfig
    <3>5. GameView' = Seen(admins, isHalted, u_config.dev_wallet_list, SomethingDue)
      BY <1>1, <2>3, <3>4, Zenon
    <3>6. GameView' = SeenGame!After(GameView, msg)
      <4>1. [GameView EXCEPT !.users_contract = "users",
                             !.dev_wallet_list = u_config.dev_wallet_list]
              = Seen(admins, isHalted, u_config.dev_wallet_list, SomethingDue)
        BY ViewUpdates
      <4> QED
        BY <3>3, <3>5, <4>1, Zenon
    <3> QED
      BY <2>4, <3>1, <3>2, <3>6
  <2>6. ASSUME NEW halt \in BOOLEAN, UpdateHalt(sender, halt)
        PROVE  SeenGame!Steps(GameView, GameView')
    <3> DEFINE msg == IF halt THEN SeenGame!Halt ELSE SeenGame!Resume
    <3>1. msg \in SeenGame!Messages
      BY DEF SeenGame!Messages
    <3>2. SeenGame!Accepts(GameView, sender, msg)
      BY <1>1, <2>2 DEF SeenGame!Accepts, SeenGame!Halt, SeenGame!Resume
    <3>3. SeenGame!After(GameView, msg) = [GameView EXCEPT !.isHalted = halt]
      BY DEF SeenGame!After, SeenGame!Halt, SeenGame!Resume
    <3>4. admins' = admins /\ isHalted' = halt /\ config' = config
      BY <2>6 DEF UpdateHalt
    <3>5. GameView' = Seen(admins, halt, config.dev_wallet_list, SomethingDue)
      BY <1>1, <2>3, <3>4, Zenon
    <3>6. GameView' = SeenGame!After(GameView, msg)
      <4>1. [GameView EXCEPT !.isHalted = halt]
              = Seen(admins, halt, config.dev_wallet_list, SomethingDue)
        BY ViewUpdates
      <4> QED
        BY <3>3, <3>5, <4>1, Zenon
    <3> QED
      BY <2>4, <3>1, <3>2, <3>6
  <2>7. ASSUME NEW account \in Accounts, AddAdmin(sender, account)
        PROVE  SeenGame!Steps(GameView, GameView')
    <3> DEFINE msg == SeenGame!AddAdmin(account)
    <3>1. msg \in SeenGame!Messages
      BY DEF SeenGame!Messages
    <3>2. SeenGame!Accepts(GameView, sender, msg)
      BY <1>1, <2>2 DEF SeenGame!Accepts, SeenGame!AddAdmin
    <3>3. SeenGame!After(GameView, msg) =
            [GameView EXCEPT !.admins = admins \cup {account}]
      BY <1>1 DEF SeenGame!After, SeenGame!AddAdmin
    <3>4. admins' = admins \cup {account} /\ isHalted' = isHalted /\ config' = config
      BY <2>7 DEF AddAdmin
    <3>5. GameView' = Seen(admins \cup {account}, isHalted, config.dev_wallet_list, SomethingDue)
      BY <1>1, <2>3, <3>4, Zenon
    <3>6. GameView' = SeenGame!After(GameView, msg)
      <4>1. [GameView EXCEPT !.admins = admins \cup {account}]
              = Seen(admins \cup {account}, isHalted, config.dev_wallet_list, SomethingDue)
        BY ViewUpdates
      <4> QED
        BY <3>3, <3>5, <4>1, Zenon
    <3> QED
      BY <2>4, <3>1, <3>2, <3>6
  <2>8. ASSUME NEW account \in Accounts, RemoveAdmin(sender, account)
        PROVE  SeenGame!Steps(GameView, GameView')
    <3> DEFINE msg == SeenGame!RemoveAdmin(account)
    <3>1. msg \in SeenGame!Messages
      BY DEF SeenGame!Messages
    <3>2. SeenGame!Accepts(GameView, sender, msg)
      BY <1>1, <2>2, <2>8 DEF SeenGame!Accepts, SeenGame!RemoveAdmin, RemoveAdmin
    <3>3. SeenGame!After(GameView, msg) = [GameView EXCEPT !.admins = admins \ {account}]
      BY <1>1 DEF SeenGame!After, SeenGame!RemoveAdmin
    <3>4. admins' = admins \ {account} /\ isHalted' = isHalted /\ config' = config
      BY <2>8 DEF RemoveAdmin
    <3>5. GameView' = Seen(admins \ {account}, isHalted, config.dev_wallet_list, SomethingDue)
      BY <1>1, <2>3, <3>4, Zenon
    <3>6. GameView' = SeenGame!After(GameView, msg)
      <4>1. [GameView EXCEPT !.admins = admins \ {account}]
              = Seen(admins \ {account}, isHalted, config.dev_wallet_list, SomethingDue)
        BY ViewUpdates
      <4> QED
        BY <3>3, <3>5, <4>1, Zenon
    <3> QED
      BY <2>4, <3>1, <3>2, <3>6
  <2>9. ASSUME NEW wallets \in WalletLists, ModifyDevWallets(sender, wallets)
        PROVE  SeenGame!Steps(GameView, GameView')
    <3> DEFINE msg == SeenGame!ModifyDevWallet(wallets)
    <3>1. msg \in SeenGame!Messages
      BY DEF SeenGame!Messages, AllWalletLists
    <3>2. SeenGame!Accepts(GameView, sender, msg)
      BY <1>1, <2>2, <2>9 DEF SeenGame!Accepts, SeenGame!ModifyDevWallet,
           ModifyDevWallets, RatiosSumToOne, AllWalletLists
    <3>3. SeenGame!After(GameView, msg) = [GameView EXCEPT !.dev_wallet_list = wallets]
      BY DEF SeenGame!After, SeenGame!ModifyDevWallet
    <3>4. config'.dev_wallet_list = wallets /\ UNCHANGED <<admins, isHalted>>
      BY <2>9 DEF ModifyDevWallets, IInv, TypeOK, ConfigType
    <3>5. GameView' = Seen(admins, isHalted, wallets, SomethingDue)
      BY <1>1, <2>3, <3>4, Zenon
    <3>6. GameView' = SeenGame!After(GameView, msg)
      <4>1. [GameView EXCEPT !.dev_wallet_list = wallets]
              = Seen(admins, isHalted, wallets, SomethingDue)
        BY ViewUpdates
      <4> QED
        BY <3>3, <3>5, <4>1, Zenon
    <3> QED
      BY <2>4, <3>1, <3>2, <3>6
  <2>10. CASE \/ \E denom \in Denoms, ticker \in Tickers : AddTicker(sender, denom, ticker)
              \/ \E denoms \in BetArrays : ModifyBetArray(sender, denoms)
    <3>1. UNCHANGED <<admins, isHalted, config>>
      BY <2>10 DEF AddTicker, ModifyBetArray
    <3> QED
      BY <1>3, <2>3, <3>1 DEF SameView
  <2> QED
    BY <2>1, <2>5, <2>6, <2>7, <2>8, <2>9, <2>10
<1> QED
  BY <1>4, <1>5, <1>6, <1>7, <1>8, <1>9 DEF Next

(* What the manager and the administrators see of the game changes only as *)
(* the model of the manager assumes, whatever the configurations are.      *)
THEOREM GameStepsAreSeen ==
  Spec => [][GameView' = GameView \/ SeenGame!Steps(GameView, GameView')]_vars
<1>1. IInv /\ [Next]_vars
        => [GameView' = GameView \/ SeenGame!Steps(GameView, GameView')]_vars
  BY ViewStep
<1> QED
  BY <1>1, Invariance, PTL DEF Spec

(* And if rounds have a length, one CloseRound leaves nothing due.         *)
THEOREM GameRefinement == RoundsLast => (Spec => ImplementsGame)
<1> SUFFICES ASSUME RoundsLast PROVE Spec => ImplementsGame
  OBVIOUS
<1>1. Init => ConfigLasts
  BY DEF Init, RoundsLast, ConfigLasts
<1>2. IInv /\ ConfigLasts /\ [Next]_vars => ConfigLasts'
  BY LastsNext
<1>3. IInv /\ ConfigLasts /\ [Next]_vars
        => [/\ GameView' = GameView \/ SeenGame!Steps(GameView, GameView')
            /\ Close => ~GameView'.due]_vars
  BY ViewStep, NothingDueAfter DEF Close, GameView, SomethingDue
<1> QED
  BY <1>1, <1>2, <1>3, Invariance, PTL DEF Spec, ImplementsGame

----------------------------------------------------------------------------
(* A round that is due is settled *)

(* A price the game can use *)
Usable(answer) == answer.age <= MaxOldPriceTime /\ Normalizes(answer)

(* While the game is not halted, CloseRound needs nothing but usable       *)
(* prices of the denoms that have a ticker (and the bound on ids).         *)
ClosesWhenPriced ==
  ~isHalted /\ nextRoundId < MaxRound =>
    \A oracle \in [Tickers -> Answers] :
      (\A denom \in DOMAIN tickers : Usable(oracle[tickers[denom]])) => CanClose(oracle)

(* The denoms of both running rounds have a ticker, whatever an            *)
(* administrator did to the tickers and to the rotation since.             *)
THEOREM CloseStaysPossible == Spec => []ClosesWhenPriced
<1>1. ASSUME IInv PROVE ClosesWhenPriced
  <2> SUFFICES ASSUME ~isHalted, nextRoundId < MaxRound,
                      NEW oracle \in [Tickers -> Answers],
                      \A denom \in DOMAIN tickers : Usable(oracle[tickers[denom]])
               PROVE  CanClose(oracle)
    BY DEF ClosesWhenPriced
  <2>1. \A round \in {nextRound, liveRound} \ {NoRound} : PriceKnown(oracle, round.denom)
    BY <1>1 DEF IInv, DenomsPriced, PriceKnown, Usable
  <2> QED
    BY <2>1 DEF CanClose, SettlesNow, OpensNow
<1> QED
  BY <1>1, Invariance, PTL

(* A round that is due stays so until CloseRound, and the first CloseRound *)
(* the game accepts settles it.                                            *)
DueStep ==
  \A r \in Nat : Due(r) => IF Close THEN r \in DOMAIN rounds' ELSE Due(r)'

(* Neither bets nor claims, halts or new configurations withdraw it.       *)
LEMMA DueKept == IInv /\ [Next]_vars => DueStep
<1> SUFFICES ASSUME IInv, [Next]_vars, NEW r \in Nat, Due(r)
             PROVE  IF Close THEN r \in DOMAIN rounds' ELSE Due(r)'
  BY DEF DueStep
<1>1. /\ liveRound # NoRound /\ liveRound.id = r /\ now >= liveRound.close_time
      /\ liveRound.close_time \in Nat /\ now \in Nat
  BY DEF Due, IInv, TypeOK, LiveRounds
<1>2. CASE Close
  <2>1. r \in DOMAIN rounds'
    BY <1>1, <1>2 DEF Close, CloseRound, SettlesNow, Save, SaveAll
  <2> QED
    BY <1>2, <2>1
<1>3. CASE ~Close
  <2>1. UNCHANGED liveRound /\ (now' = now \/ now' = now + 1)
    <3>1. CASE PlaceBet
      BY <3>1 DEF PlaceBet, Bet
    <3>2. CASE \E p \in Players : Claim(p)
      BY <3>2 DEF Claim, CollectWinnings, CollectWinningRound, Pay
    <3>3. CASE Administer
      BY <3>3 DEF Administer, UpdateConfig, UpdateHalt, AddAdmin, RemoveAdmin,
           ModifyDevWallets, AddTicker, ModifyBetArray, bookVars
    <3>4. CASE ChangeRegistry \/ Tick \/ UNCHANGED vars
      BY <3>4 DEF ChangeRegistry, Tick, vars, bookVars
    <3> QED
      BY <1>3, <3>1, <3>2, <3>3, <3>4 DEF Next
  <2> QED
    BY <1>1, <1>3, <2>1 DEF Due
<1> QED
  BY <1>2, <1>3

(* So no step but CloseRound decides about a round that is due, and that   *)
(* one always does.                                                        *)
THEOREM DueRoundsKept == Spec => [][DueStep]_vars
<1>1. IInv /\ [Next]_vars => [DueStep]_vars
  BY DueKept
<1> QED
  BY <1>1, Invariance, PTL DEF Spec

(* The provers do not reason about ENABLED.  This says of CloseRound that  *)
(* the step can be taken when its guards hold and a round is due; it is    *)
(* what is left to TLC of the liveness property below.                     *)
CloseIsEnabled ==
  SettlesNow /\ (\E oracle \in [Tickers -> Answers] : CanClose(oracle))
    => ENABLED <<Close>>_vars

(* A game that is not halted for ever settles every round that falls due,  *)
(* if the oracle can give a usable price at all: of the service that sends *)
(* CloseRound only strong fairness is assumed, of administrators nothing.  *)
THEOREM DueRoundsAreSettled ==
  (\E answer \in Answers : Usable(answer)) =>
    ([]CloseIsEnabled => (FairSpec => DueRoundsSettle))
<1> SUFFICES ASSUME NEW answer \in Answers, Usable(answer)
             PROVE  []CloseIsEnabled => (FairSpec => DueRoundsSettle)
  OBVIOUS
<1>1. ASSUME NEW r \in SettledIds
      PROVE  []CloseIsEnabled /\ FairSpec
               => ((Due(r) ~> r \in DOMAIN rounds) \/ <>[]isHalted)
  <2>1. r \in Nat /\ r <= MaxRound - 3
    BY <1>1, PredictionAssumption DEF SettledIds
  <2>2. IInv /\ Due(r) /\ ~isHalted /\ CloseIsEnabled => ENABLED <<Close>>_vars
    <3> SUFFICES ASSUME IInv, Due(r), ~isHalted
                 PROVE  SettlesNow /\ \E oracle \in [Tickers -> Answers] : CanClose(oracle)
      BY DEF CloseIsEnabled
    <3>1. SettlesNow
      BY DEF Due, SettlesNow
    <3>2. nextRoundId < MaxRound
      BY <2>1, PredictionAssumption DEF Due, IInv, RoundsInOrder, TypeOK
    <3> DEFINE oracle == [t \in Tickers |-> answer]
    <3>3. oracle \in [Tickers -> Answers]
      OBVIOUS
    <3>4. \A round \in {nextRound, liveRound} \ {NoRound} : PriceKnown(oracle, round.denom)
      BY DEF IInv, TypeOK, DenomsPriced, PriceKnown, Usable
    <3>5. CanClose(oracle)
      BY <3>2, <3>4 DEF CanClose, SettlesNow, OpensNow
    <3> QED
      BY <3>1, <3>3, <3>5
  <2>3. IInv /\ Due(r) /\ [Next]_vars => Due(r)' \/ (r \in DOMAIN rounds)'
    BY <2>1, DueKept DEF DueStep
  <2>4. IInv /\ Due(r) /\ [Next]_vars /\ <<Close>>_vars => (r \in DOMAIN rounds)'
    BY <2>1, DueKept DEF DueStep
  <2> QED
    BY <2>2, <2>3, <2>4, Invariance, PTL DEF FairSpec, Spec
<1> QED
  BY <1>1 DEF DueRoundsSettle

=============================================================================
