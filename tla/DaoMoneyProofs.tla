--------------------------- MODULE DaoMoneyProofs ---------------------------
(***************************************************************************)
(* Proofs about DaoBets, for every value of its constants: the coins.      *)
(*                                                                         *)
(* Due is what each stored stake may still have to be paid: the stake      *)
(* while its bet is unfinished, its share after.  A bet adds to the dues   *)
(* what it brings in, a settlement never raises them (Settlement: rounded  *)
(* shares never come to more than the pool), and a claim takes off at      *)
(* least what it pays.  So the contract stays solvent and no claim is      *)
(* short of coins, and bet by bet the same facts are the steps of the      *)
(* escrow it implements.  Last, what a stake has won stays what it is      *)
(* until it is paid, and is paid to whoever keeps asking.                  *)
(***************************************************************************)
EXTENDS DaoBetsProofs

(* What each stored stake may still have to be paid, and all of them *)
Due == [k \in DOMAIN bets |->
          IF k[1] \in DOMAIN finished THEN Owed(k) ELSE bets[k].amount]

Owing == SumFunctionOnSet(Due, DOMAIN bets)

(* Dues are natural numbers: the share of a finished bet, else the stake.  *)
LEMMA DueFacts ==
  ASSUME IInv
  PROVE  /\ IsFiniteSet(DOMAIN bets)
         /\ \A k \in DOMAIN bets :
              /\ Due[k] \in Nat
              /\ k[1] \in DOMAIN finished => Due[k] = Owed(k)
              /\ k[1] \notin DOMAIN finished => Due[k] = bets[k].amount
BY StakeFacts, OwedType DEF Due, IInv, BooksFinite

(* The same as an implication, to be read in the next state. *)
LEMMA DueType == IInv => \A k \in DOMAIN bets : Due[k] \in Nat
BY DueFacts

(* What stakes of finished bets are owed in all is the sum of their dues.  *)
LEMMA SumOwedIsSum ==
  ASSUME IInv, NEW keys \in SUBSET FinishedKeys
  PROVE  /\ SumOwed(keys) = SumFunctionOnSet(Due, keys)
         /\ IsFiniteSet(keys) /\ \A k \in keys : k \in DOMAIN bets /\ Due[k] \in Nat
         /\ SumOwed(keys) \in Nat
<1>1. IsFiniteSet(keys) /\ SumOwed(keys) \in Nat
  BY SumOwedType
<1> DEFINE g == [k \in keys |-> Owed(k)]
<1>2. SumOwed(keys) = SumFunctionOnSet(g, keys)
  BY DEF SumOwed, SumFunction
<1>3. \A k \in keys : k \in DOMAIN bets /\ Due[k] \in Nat /\ g[k] = Due[k]
  BY DueFacts DEF FinishedKeys
<1> HIDE DEF g
<1>4. SumFunctionOnSet(g, keys) = SumFunctionOnSet(Due, keys)
  BY <1>1, <1>3, SumEqual
<1> QED
  BY <1>1, <1>2, <1>3, <1>4

(* What the run calls liabilities is the sum of all dues. *)
LEMMA LiabilitiesIsOwing == IInv => Liabilities = Owing /\ Owing \in Nat
<1> SUFFICES ASSUME IInv PROVE Liabilities = Owing /\ Owing \in Nat
  OBVIOUS
<1> DEFINE S == DOMAIN bets
           F == FinishedKeys
           U == {k \in DOMAIN bets : k[1] \in DOMAIN unfinished}
<1>1. F \in SUBSET S /\ U = S \ F /\ U \in SUBSET S
  BY StakeFacts, BetFacts DEF FinishedKeys
<1>2. SumOwed(F) = SumFunctionOnSet(Due, F)
  BY SumOwedIsSum
<1>3. SumStakes(U) = SumFunctionOnSet(Due, U)
  <2>1. IsFiniteSet(U) /\ SumStakes(U) = SumFunctionOnSet(StakeOf, U)
    BY <1>1, SumStakesIsSum
  <2>2. \A k \in U : Due[k] \in Nat /\ StakeOf[k] = Due[k]
    BY <1>1, DueFacts DEF StakeOf, FinishedKeys
  <2> HIDE DEF U
  <2> QED
    BY <2>1, <2>2, SumEqual
<1>4. /\ Owing = SumFunctionOnSet(Due, F) + SumFunctionOnSet(Due, S \ F)
      /\ Owing \in Nat
  <2>1. IsFiniteSet(S) /\ \A k \in S : Due[k] \in Nat
    BY DueFacts
  <2> HIDE DEF S, F
  <2>2. Owing = SumFunctionOnSet(Due, S)
    BY DEF Owing, S
  <2>3. Owing \in Nat
    BY <2>1, <2>2, SumType
  <2>4. F \in SUBSET S
    BY <1>1
  <2>5. SumFunctionOnSet(Due, S) = SumFunctionOnSet(Due, F) + SumFunctionOnSet(Due, S \ F)
    BY <2>1, <2>4, SumSplit
  <2> QED
    BY <2>2, <2>3, <2>5
<1> QED
  BY <1>1, <1>2, <1>3, <1>4 DEF Liabilities, FinishedKeys

(* A step that changes neither the stakes nor the finished bets *)
LEMMA KeepsOwing == UNCHANGED <<bets, finished>> => Owing' = Owing
<1> SUFFICES ASSUME UNCHANGED <<bets, finished>> PROVE Owing' = Owing
  OBVIOUS
<1>1. \A k : Owed(k)' = Owed(k)
  BY DEF Owed, Won, BetOf
<1>2. Due' = Due
  BY <1>1, Zenon DEF Due
<1>3. DOMAIN bets' = DOMAIN bets
  OBVIOUS
<1> QED
  BY <1>2, <1>3, Zenon DEF Owing

(* A bet adds what it brings in. *)
LEMMA BetOnOwing ==
  ASSUME IInv, NEW p \in Players, NEW id \in Nat, NEW option \in Titles,
         NEW amount \in Stakes, NEW token \in Tokens,
         BetsOn(p, id, option, amount, token)
  PROVE  Owing' = Owing + amount
<1> DEFINE key == <<id, p>>
           S   == DOMAIN bets
           f   == Due
           g   == Due'
<1>1. IsFiniteSet(S) /\ \A k \in S : f[k] \in Nat
  BY DueFacts
<1>2. /\ DOMAIN bets' = S \cup {key} /\ finished' = finished
      /\ \A k \in S \ {key} : bets'[k] = bets[k]
      /\ key \in S => bets'[key].amount = bets[key].amount + amount
      /\ key \notin S => bets'[key].amount = amount
      /\ key[1] = id /\ id \notin DOMAIN finished
      /\ amount \in Nat
  BY DaoBetsAssumption DEF BetsOn, IInv, BetsPartition
<1>3. \A k \in S \ {key} : Owed(k)' = Owed(k)
  BY <1>2 DEF Owed, Won, BetOf
<1>4. \A k \in S \ {key} : g[k] = f[k]
  BY <1>2, <1>3 DEF Due
<1>5. g[key] = IF key \in S THEN f[key] + amount ELSE amount
  BY <1>2 DEF Due
<1>6. Owing = SumFunctionOnSet(f, S) /\ Owing' = SumFunctionOnSet(g, S \cup {key})
  BY <1>2 DEF Owing
<1> HIDE DEF S, f, g, key
<1>7. Raises(f, g, S, key, amount)
  BY <1>1, <1>2, <1>4, <1>5 DEF Raises
<1> QED
  BY <1>6, <1>7, SumUpdate

(* A claim takes off what the stakes it is about are owed. *)
LEMMA ClaimOwing ==
  ASSUME IInv, NEW p \in Players, NEW keys \in SUBSET FinishedKeys, Claims(p, keys)
  PROVE  Owing = Owing' + SumOwed(keys) /\ Owing' \in Nat
<1> DEFINE S == DOMAIN bets
           T == DOMAIN bets'
           f == Due
           g == Due'
<1>1. IsFiniteSet(S) /\ \A k \in S : f[k] \in Nat
  BY DueFacts
<1>2. /\ keys \in SUBSET S /\ T \in SUBSET S
      /\ T = S \ keys /\ keys = S \ T
      /\ \A k \in T : bets'[k] = bets[k]
      /\ finished' = finished
  BY DEF Claims, FinishedKeys
<1>3. \A k \in T : Owed(k)' = Owed(k)
  BY <1>2 DEF Owed, Won, BetOf
<1>4. \A k \in T : g[k] = f[k]
  BY <1>2, <1>3 DEF Due
<1>5. Owing = SumFunctionOnSet(f, S) /\ Owing' = SumFunctionOnSet(g, T)
  BY DEF Owing
<1>6. SumOwed(keys) = SumFunctionOnSet(f, keys)
  BY SumOwedIsSum
<1> HIDE DEF S, T, f, g
<1>7. IsFiniteSet(T) /\ \A k \in T : f[k] \in Nat
  BY <1>1, <1>2, FS_Subset
<1>8. SumFunctionOnSet(g, T) = SumFunctionOnSet(f, T) /\ SumFunctionOnSet(f, T) \in Nat
  BY <1>4, <1>7, SumEqual, SumType
<1>9. SumFunctionOnSet(f, S) = SumFunctionOnSet(f, T) + SumFunctionOnSet(f, S \ T)
  BY <1>1, <1>2, SumSubset
<1>10. SumFunctionOnSet(f, S \ T) = SumFunctionOnSet(f, keys)
  BY <1>2
<1> QED
  BY <1>5, <1>6, <1>8, <1>9, <1>10

----------------------------------------------------------------------------
(* The settlement of a bet *)

(* The stakes on a bet are, in all, its pool. *)
LEMMA StakesFillPool ==
  ASSUME IInv, PotsMatch, NEW b \in DOMAIN unfinished
  PROVE  /\ IsFiniteSet(StakesOnBet(b))
         /\ SumFunctionOnSet(StakeOf, StakesOnBet(b)) = Pool(unfinished[b])
         /\ Pool(unfinished[b]) \in Nat
<1> DEFINE K == StakesOnBet(b)
           O == DOMAIN unfinished[b].current_bet_amounts
           a == unfinished[b].current_bet_amounts
           f == StakeOf
           g == [k \in DOMAIN bets |-> bets[k].option]
           h == [o \in O |-> SumFunctionOnSet(f, {k \in K : g[k] = o})]
<1>1. IsFiniteSet(K) /\ \A k \in K : f[k] \in Nat
  <2>1. K \subseteq DOMAIN bets
    BY DEF StakesOnBet
  <2> QED
    BY <2>1, SumStakesIsSum
<1>2. IsFiniteSet(O) /\ \A o \in O : a[o] \in Nat
  BY BetFacts
<1>3. \A k \in K : g[k] \in O
  BY StakeFacts, BetFacts DEF StakesOnBet
<1>4. \A o \in O : h[o] = a[o]
  <2> TAKE o \in O
  <2>1. StakesOn(b, o) = {k \in K : g[k] = o}
    BY DEF StakesOn, StakesOnBet
  <2>2. a[o] = SumFunctionOnSet(f, StakesOn(b, o))
    BY DEF PotsMatch, PotMatches
  <2> QED
    BY <2>1, <2>2
<1>5. Pool(unfinished[b]) = SumFunctionOnSet(a, O)
  BY DEF Pool, SumFunction
<1> HIDE DEF K, O, a, f, g
<1>6. SumFunctionOnSet(h, O) = SumFunctionOnSet(f, K)
  BY <1>1, <1>2, <1>3, SumFibres
<1> HIDE DEF h
<1>7. SumFunctionOnSet(h, O) = SumFunctionOnSet(a, O) /\ SumFunctionOnSet(a, O) \in Nat
  BY <1>2, <1>4, SumEqual, SumType
<1> QED
  BY <1>1, <1>5, <1>6, <1>7 DEF K, f

(* At most one stake a player *)
LEMMA StakesOfPlayers ==
  ASSUME IInv, NEW b, NEW W \in SUBSET StakesOnBet(b)
  PROVE  /\ IsFiniteSet(W) /\ Cardinality(W) \in Nat
         /\ Cardinality(W) <= Cardinality(Players) /\ Cardinality(Players) \in Nat
<1> DEFINE f == [k \in W |-> k[2]]
<1>1. \A k \in W : k = <<b, k[2]>> /\ k[2] \in Players
  BY StakeFacts DEF StakesOnBet
<1>2. f \in [W -> Players] /\ \A x, y \in W : f[x] = f[y] => x = y
  <2>1. f \in [W -> Players]
    BY <1>1
  <2>2. ASSUME NEW x \in W, NEW y \in W, f[x] = f[y] PROVE x = y
    BY <1>1, <2>2
  <2> QED
    BY <2>1, <2>2
<1> HIDE DEF f
<1> QED
  BY <1>2, InjectionBound, FS_CardinalityType, DaoBetsAssumption

(* What a bet that finishes owes in all: never more than its pool, and if  *)
(* anybody won, less than a coin a player short of it.                     *)
LEMMA Settlement ==
  ASSUME IInv, PotsMatch, NEW id \in Nat, Finishes(id)
  PROVE  /\ SumFunctionOnSet(Due', StakesOnBet(id)) \in Nat
         /\ SumFunctionOnSet(Due', StakesOnBet(id)) <= Pool(unfinished[id])
         /\ Pool(unfinished[id]) <=
              SumFunctionOnSet(Due', StakesOnBet(id))
                + (IF NobodyWon(finished'[id]) THEN Pool(unfinished[id]) ELSE 0)
                + Cardinality(Players)
<1> DEFINE K == StakesOnBet(id)
           P == Pool(unfinished[id])
           s == Due'
           r == finished'[id].result_option
           w == unfinished[id].current_bet_amounts[r]
           W == StakesOn(id, r)
<1>1. /\ id \in DOMAIN unfinished /\ UNCHANGED bets
      /\ id \in DOMAIN finished'
      /\ finished'[id].current_bet_amounts = unfinished[id].current_bet_amounts
      /\ finished'[id].cancelled \in BOOLEAN
  BY DEF Finishes, BetType
<1>2. /\ IsFiniteSet(K) /\ SumFunctionOnSet(StakeOf, K) = P /\ P \in Nat
      /\ Cardinality(Players) \in Nat
  BY <1>1, StakesFillPool, StakesOfPlayers
<1>3. \A k \in K : k \in DOMAIN bets /\ k[1] = id /\ StakeOf[k] = bets[k].amount
                   /\ StakeOf[k] \in Nat /\ StakeOf[k] > 0
  BY StakeFacts DEF StakesOnBet, StakeOf
<1>4. \A k \in K : s[k] =
        IF finished'[id].cancelled THEN StakeOf[k]
        ELSE IF k \in W THEN (P * StakeOf[k]) \div w ELSE 0
  <2> TAKE k \in K
  <2>1. s[k] = Owed(k)'
    BY <1>1, <1>3 DEF Due
  <2>2. Pool(finished'[id]) = P
    BY <1>1 DEF Pool
  <2>3. k \in W <=> bets[k].option = r
    BY <1>3 DEF StakesOn
  <2>4. bets' = bets
    BY <1>1
  <2> QED
    BY <1>3, <2>1, <2>2, <2>3, <2>4, <1>1 DEF Owed, Won, BetOf, MultiplyRatio
<1> HIDE DEF s, P
<1>5. CASE finished'[id].cancelled
  <2>1. \A k \in K : StakeOf[k] \in Nat /\ s[k] = StakeOf[k]
    BY <1>3, <1>4, <1>5
  <2> HIDE DEF K
  <2>2. SumFunctionOnSet(s, K) = P
    BY <1>2, <2>1, SumEqual
  <2> QED
    BY <1>2, <2>2 DEF NobodyWon, s, P, K
<1>6. CASE ~finished'[id].cancelled
  <2>1. W \in SUBSET K
    BY DEF StakesOn, StakesOnBet
  <2>2. /\ IsFiniteSet(W) /\ Cardinality(W) \in Nat /\ Cardinality(W) <= Cardinality(Players)
    BY <2>1, StakesOfPlayers
  <2>3. \A k \in K \ W : s[k] = 0
    BY <1>4, <1>6
  <2>4. CASE W = {}
    <3>1. \A k \in K : s[k] = 0
      BY <2>3, <2>4
    <3> HIDE DEF K, W
    <3>2. SumFunctionOnSet(s, K) = 0
      BY <1>2, <3>1, SumZero
    <3>3. NobodyWon(finished'[id])
      <4>1. r \in DOMAIN unfinished[id].current_bet_amounts => w = 0
        <5> SUFFICES ASSUME r \in DOMAIN unfinished[id].current_bet_amounts PROVE w = 0
          OBVIOUS
        <5>1. w = SumFunctionOnSet(StakeOf, W)
          BY <1>1 DEF PotsMatch, PotMatches, W
        <5> QED
          BY <2>4, <5>1, SumEmpty
      <4> QED
        BY <1>1, <1>6, <4>1 DEF NobodyWon
    <3> QED
      BY <1>2, <3>2, <3>3 DEF s, P, K
  <2>5. CASE W # {}
    <3>1. PICK k0 \in W : TRUE
      BY <2>5
    <3>2. k0 \in DOMAIN bets /\ bets[k0].option = r /\ k0[1] = id
      BY <3>1 DEF StakesOn
    <3>3. /\ r \in DOMAIN unfinished[id].current_bet_amounts
          /\ w \in Nat /\ w > 0
      BY <1>1, <3>2, StakeFacts, BetFacts
    <3>4. SumFunctionOnSet(StakeOf, W) = w
      BY <1>1, <3>3 DEF PotsMatch, PotMatches
    <3>5. \A k \in W : StakeOf[k] \in Nat /\ s[k] = (P * StakeOf[k]) \div w
      BY <1>3, <1>4, <1>6, <2>1
    <3> HIDE DEF K, W, w
    <3>6. /\ SumFunctionOnSet(s, W) \in Nat
          /\ SumFunctionOnSet(s, W) <= P
          /\ P < SumFunctionOnSet(s, W) + Cardinality(W)
      BY <1>2, <2>2, <3>3, <3>4, <3>5, SumShares
    <3>7. SumFunctionOnSet(s, K) = SumFunctionOnSet(s, W)
      <4>1. \A k \in W : s[k] \in Nat
        BY <1>2, <3>3, <3>5, DivBounds
      <4> QED
        BY <1>2, <2>1, <2>3, <4>1, SumSupport
    <3>8. /\ SumFunctionOnSet(s, K) \in Nat /\ SumFunctionOnSet(s, K) <= P
          /\ P <= SumFunctionOnSet(s, K) + Cardinality(Players)
      BY <1>2, <2>2, <3>6, <3>7
    <3> QED
      BY <1>2, <3>8 DEF s, P, K
  <2> QED
    BY <2>4, <2>5
<1> QED
  BY <1>1, <1>5, <1>6

(* So a settlement never raises what is owed, and lowers it by less than a *)
(* coin a player, or by a pool nobody won.                                 *)
LEMMA FinishOwing ==
  ASSUME IInv, IInv', PotsMatch, NEW id \in Nat, Finishes(id)
  PROVE  /\ Owing' <= Owing
         /\ Owing <= Owing' + Cardinality(Players)
                       + (IF NobodyWon(finished'[id]) THEN Pool(unfinished[id]) ELSE 0)
<1> DEFINE S == DOMAIN bets
           K == StakesOnBet(id)
           P == Pool(unfinished[id])
           f == Due
           g == Due'
<1>1. /\ id \in DOMAIN unfinished /\ id \notin DOMAIN finished /\ UNCHANGED bets
      /\ DOMAIN finished' = DOMAIN finished \cup {id}
      /\ \A b \in DOMAIN finished : finished'[b] = finished[b]
  BY DEF Finishes
<1>2. /\ K \in SUBSET S /\ IsFiniteSet(S) /\ \A k \in S : f[k] \in Nat
      /\ \A k \in K : f[k] = StakeOf[k]
  BY <1>1, DueFacts DEF StakesOnBet, StakeOf
<1>3. \A k \in S \ K : k[1] # id
  BY DEF StakesOnBet
<1>4. \A k \in S \ K : g[k] = f[k]
  <2> SUFFICES ASSUME NEW k \in S, k \notin K PROVE g[k] = f[k]
    OBVIOUS
  <2>1. k[1] \in DOMAIN finished' <=> k[1] \in DOMAIN finished
    BY <1>1, <1>3
  <2>2. k[1] \in DOMAIN finished => Owed(k)' = Owed(k)
    BY <1>1 DEF Owed, Won, BetOf
  <2> QED
    BY <1>1, <2>1, <2>2 DEF Due
<1>5. /\ IsFiniteSet(K) /\ SumFunctionOnSet(StakeOf, K) = P /\ P \in Nat
  BY <1>1, StakesFillPool
<1>6. /\ SumFunctionOnSet(g, K) \in Nat
      /\ SumFunctionOnSet(g, K) <= P
      /\ P <= SumFunctionOnSet(g, K)
                + (IF NobodyWon(finished'[id]) THEN P ELSE 0) + Cardinality(Players)
  BY Settlement
<1>7. Owing = SumFunctionOnSet(f, S) /\ Owing' = SumFunctionOnSet(g, S)
  BY <1>1 DEF Owing
<1>8. \A k \in S : g[k] \in Nat
  <2>1. (\A k \in DOMAIN bets : Due[k] \in Nat)'
    BY DueType, PTL
  <2> QED
    BY <1>1, <2>1
<1>9. Cardinality(Players) \in Nat
  BY DaoBetsAssumption, FS_CardinalityType
<1> HIDE DEF S, K, f, g
<1>10. SumFunctionOnSet(f, K) = P
  <2>1. \A k \in K : StakeOf[k] \in Nat /\ f[k] = StakeOf[k]
    BY <1>2
  <2> QED
    BY <1>5, <2>1, SumEqual
<1>11. /\ SumFunctionOnSet(f, S) = SumFunctionOnSet(f, K) + SumFunctionOnSet(f, S \ K)
       /\ SumFunctionOnSet(g, S) = SumFunctionOnSet(g, K) + SumFunctionOnSet(g, S \ K)
  <2>1. K \in SUBSET S
    BY <1>2
  <2>2. IsFiniteSet(S) /\ \A k \in S : f[k] \in Nat /\ g[k] \in Nat
    BY <1>2, <1>8
  <2>3. SumFunctionOnSet(f, S) = SumFunctionOnSet(f, K) + SumFunctionOnSet(f, S \ K)
    BY <2>1, <2>2, SumSplit
  <2>4. SumFunctionOnSet(g, S) = SumFunctionOnSet(g, K) + SumFunctionOnSet(g, S \ K)
    BY <2>1, <2>2, SumSplit
  <2> QED
    BY <2>3, <2>4
<1>13. /\ SumFunctionOnSet(g, S \ K) = SumFunctionOnSet(f, S \ K)
       /\ SumFunctionOnSet(f, S \ K) \in Nat
  <2>1. IsFiniteSet(S \ K) /\ \A k \in S \ K : f[k] \in Nat
    BY <1>2, FS_Subset
  <2> QED
    BY <1>4, <2>1, SumEqual, SumType
<1> DEFINE lost == IF NobodyWon(finished'[id]) THEN P ELSE 0
<1>14. lost \in Nat
  BY <1>5
<1> HIDE DEF lost, P
<1>15. P <= SumFunctionOnSet(g, K) + lost + Cardinality(Players)
  BY <1>6 DEF lost
<1>16. /\ Owing' <= Owing /\ Owing <= Owing' + Cardinality(Players) + lost
  BY <1>5, <1>6, <1>7, <1>9, <1>10, <1>11, <1>13, <1>14, <1>15
<1> QED
  BY <1>16 DEF lost, P

----------------------------------------------------------------------------
(* The payment of a claim *)

(* All configurations pay and are paid in one token *)
OneToken == \A c, d \in Configs : c.token_denom = d.token_denom

(* No configuration has an empty list of wallets, and there is a bound on  *)
(* their lengths                                                           *)
WalletsListed ==
  /\ \A c \in Configs : c.fee_receiver_wallet_list # <<>>
  /\ \E n \in Nat : \A c \in Configs : Len(c.fee_receiver_wallet_list) <= n

(* The ratios of the stored wallets sum to one, unless instantiate was     *)
(* given no wallets.                                                       *)
WalletsWhole ==
  /\ config \in Configs
  /\ config.fee_receiver_wallet_list # <<>> =>
       RatiosSumToOne(config.fee_receiver_wallet_list)

(* The cuts of the wallets come to no more than the fee, and to less than  *)
(* a coin a wallet below it.                                               *)
LEMMA CutsOfFee ==
  ASSUME NEW fee \in Nat, NEW wallets \in Seq(Nat),
         wallets # <<>> => RatiosSumToOne(wallets)
  PROVE  /\ TotalCuts(fee, wallets) \in Nat
         /\ TotalCuts(fee, wallets) <= fee
         /\ wallets # <<>> => fee < TotalCuts(fee, wallets) + Len(wallets)
         /\ fee = 0 => TotalCuts(fee, wallets) = 0
<1> USE BetMathAssumption
<1> DEFINE D == DOMAIN wallets
           s == Cuts(fee, wallets)
<1>1. /\ D = 1..Len(wallets) /\ Len(wallets) \in Nat
      /\ \A i \in D : wallets[i] \in Nat
  OBVIOUS
<1>2. IsFiniteSet(D) /\ Cardinality(D) = Len(wallets)
  <2> DEFINE n == Len(wallets)
  <2>1. n \in Nat /\ D = 1..n
    BY <1>1
  <2> HIDE DEF n, D
  <2>2. /\ IsFiniteSet(1..n)
        /\ Cardinality(1..n) = IF 1 > n THEN 0 ELSE n - 1 + 1
    BY <2>1, FS_Interval
  <2>3. Cardinality(1..n) = n
    BY <2>1, <2>2
  <2> QED
    BY <2>1, <2>2, <2>3 DEF n
<1>3. /\ TotalCuts(fee, wallets) = SumFunctionOnSet(s, D)
      /\ \A i \in D : s[i] = (fee * wallets[i]) \div RatioOne
  BY DEF TotalCuts, Cuts, MulFloor, SumFunction
<1>4. CASE wallets = <<>>
  <2>1. D = {}
    BY <1>4
  <2> QED
    BY <1>3, <1>4, <2>1, SumEmpty
<1>5. CASE wallets # <<>>
  <2>1. SumFunctionOnSet(wallets, D) = RatioOne
    BY <1>5 DEF RatiosSumToOne, TotalRatio, SumFunction
  <2>3. RatioOne \in Nat /\ RatioOne > 0
    OBVIOUS
  <2> HIDE DEF D, s
  <2>2. /\ SumFunctionOnSet(s, D) \in Nat
        /\ SumFunctionOnSet(s, D) <= fee
        /\ fee < SumFunctionOnSet(s, D) + Cardinality(D)
    BY <1>1, <1>2, <1>3, <2>1, <2>3, SumShares
  <2> QED
    BY <1>2, <1>3, <2>2
<1> QED
  BY <1>4, <1>5

(* What both claims take out of the bank: what the stakes are owed, less   *)
(* what the fee is more than the cuts it is divided into.                  *)
Pays(keys, dust) ==
  /\ vault[config.token_denom] + dust >= SumOwed(keys)
  /\ vault' = [vault EXCEPT ![config.token_denom] = @ - (SumOwed(keys) - dust)]
  /\ \E k \in keys : Won(k)

(* A claim takes no more from the bank than the stakes it is about are     *)
(* owed.                                                                   *)
LEMMA PayMoney ==
  ASSUME IInv, WalletsWhole, NEW p \in Players, NEW keys \in SUBSET FinishedBetsOf(p),
         NEW charged \in Nat, Pay(p, keys, charged), vault[config.token_denom] \in Nat
  PROVE  \E dust \in Nat :
           /\ Pays(keys, dust)
           /\ config.fee_receiver_wallet_list # <<>> =>
                dust <= Len(config.fee_receiver_wallet_list)
<1> USE DaoBetsAssumption, BetMathAssumption
<1> DEFINE won     == {k \in keys : Won(k)}
           fee     == GamingFee(config.gaming_fee, charged)
           wallets == config.fee_receiver_wallet_list
           cuts    == TotalCuts(fee, wallets)
           token   == config.token_denom
           net     == SumOwed(won) - fee
<1>1. /\ keys \in SUBSET FinishedKeys /\ won \in SUBSET FinishedKeys /\ won \in SUBSET keys
  BY DEF FinishedBetsOf, FinishedKeys
<1>2. SumOwed(keys) = SumOwed(won) /\ SumOwed(won) \in Nat
  <2>1. /\ SumOwed(keys) = SumFunctionOnSet(Due, keys)
        /\ SumOwed(won) = SumFunctionOnSet(Due, won) /\ SumOwed(won) \in Nat
        /\ IsFiniteSet(keys) /\ \A k \in keys : Due[k] \in Nat
    BY <1>1, SumOwedIsSum
  <2>2. \A k \in keys \ won : Due[k] = 0
    BY <1>1, DueFacts, OwedType DEF FinishedKeys
  <2> HIDE DEF won
  <2>3. SumFunctionOnSet(Due, keys) = SumFunctionOnSet(Due, won)
    BY <1>1, <2>1, <2>2, SumSupport
  <2> QED
    BY <2>1, <2>3
<1>3. fee \in Nat /\ wallets \in Seq(Nat)
  <2>1. config \in ConfigType
    BY DEF IInv, TypeOK
  <2> DEFINE product == config.gaming_fee * charged
  <2>2. product \in Nat
    BY <2>1 DEF ConfigType
  <2>3. FeeScale \in Nat /\ FeeScale > 0 /\ fee = product \div FeeScale
    BY DEF GamingFee, MultiplyRatio
  <2> HIDE DEF product, fee
  <2>4. fee \in Nat
    BY <2>2, <2>3, DivBounds
  <2> QED
    BY <2>1, <2>4 DEF ConfigType
<1> HIDE DEF fee
<1>4. /\ cuts \in Nat /\ cuts <= fee
      /\ wallets # <<>> => fee < cuts + Len(wallets)
  BY <1>3, CutsOfFee DEF WalletsWhole
<1>5. /\ net > 0
      /\ net + cuts <= vault[token]
      /\ vault' = [vault EXCEPT ![token] = @ - (net + cuts)]
  BY DEF Pay, CanPay, SentFor, NetFor, BankSends, fee
<1> HIDE DEF cuts, wallets
<1> DEFINE dust == fee - cuts
<1>6. dust \in Nat /\ (wallets # <<>> => dust <= Len(wallets))
  <2>1. Len(wallets) \in Nat
    BY <1>3
  <2> QED
    BY <1>3, <1>4, <2>1
<1>7. net + cuts = SumOwed(keys) - dust
  BY <1>2, <1>3, <1>4
<1>8. won # {}
  <2> SUFFICES ASSUME won = {} PROVE FALSE
    OBVIOUS
  <2>1. SumOwed(won) = SumFunctionOnSet(Due, won)
    BY <1>1, SumOwedIsSum
  <2>2. SumOwed(won) = 0
    BY <2>1, SumEmpty
  <2> QED
    BY <1>3, <1>5, <2>2
<1>9. Pays(keys, dust)
  <2>1. vault' = [vault EXCEPT ![token] = @ - (SumOwed(keys) - dust)]
    BY <1>5, <1>7, Zenon
  <2>2. vault[token] + dust >= SumOwed(keys)
    BY <1>2, <1>3, <1>4, <1>5, <1>7
  <2> QED
    BY <1>8, <2>1, <2>2 DEF Pays
<1> QED
  BY <1>6, <1>9 DEF wallets

----------------------------------------------------------------------------
(* The contract holds what it owes *)

MoneyInv ==
  /\ WalletsWhole
  /\ vault \in [Tokens -> Nat]
  /\ Owing <= vault[config.token_denom]

(* The token of the configuration is one of the bank. *)
LEMMA TokenType == WalletsWhole => config.token_denom \in Tokens
BY DaoBetsAssumption DEF WalletsWhole, ConfigType

(* An empty contract owes nothing. *)
LEMMA MoneyInit == Init => MoneyInv
<1> SUFFICES ASSUME Init PROVE MoneyInv
  OBVIOUS
<1>1. WalletsWhole
  BY DEF Init, WalletsWhole
<1>2. Owing = 0
  <2>1. DOMAIN bets = {}
    BY DEF Init, EmptyMap
  <2> QED
    BY <2>1, SumEmpty DEF Owing
<1>3. vault \in [Tokens -> Nat] /\ vault[config.token_denom] = 0
  BY <1>1, TokenType DEF Init
<1> QED
  BY <1>1, <1>2, <1>3 DEF MoneyInv

(* What a step does to the coins and to the debts, token by token of the   *)
(* proof: it leaves both alone, brings in a stake, settles a bet or pays a *)
(* claim.                                                                  *)
Quiet == UNCHANGED <<finished, bets, claims, vault>>

(* Every step is one of these four. *)
LEMMA StepKinds ==
  ASSUME OneToken, IInv, MoneyInv, [Next]_vars
  PROVE  /\ WalletsWhole' /\ config'.token_denom = config.token_denom
         /\ \/ Quiet
            \/ \E p \in Players, id \in Nat, option \in Titles, amount \in Stakes :
                 BetsOn(p, id, option, amount, config.token_denom)
            \/ \E id \in Nat : Finishes(id)
            \/ \E p \in Players, keys \in SUBSET FinishedKeys, dust \in Nat :
                 /\ Claims(p, keys) /\ Pays(keys, dust)
                 /\ config.fee_receiver_wallet_list # <<>> =>
                      dust <= Len(config.fee_receiver_wallet_list)
<1> USE DaoBetsAssumption
<1>1. WalletsWhole /\ vault[config.token_denom] \in Nat
  BY TokenType DEF MoneyInv
<1>2. ASSUME UNCHANGED config
      PROVE  WalletsWhole' /\ config'.token_denom = config.token_denom
  BY <1>1, <1>2 DEF WalletsWhole
<1>3. CASE PlaceBet
  <2>1. PICK p \in Players, id \in 1..MaxBets, option \in Titles, amount \in Stakes,
             token \in Tokens : BetOn(p, id, option, amount, token)
    BY <1>3 DEF PlaceBet
  <2>2. BetsOn(p, id, option, amount, token)
    BY <2>1, BetOnFacts
  <2>3. token = config.token_denom /\ UNCHANGED config /\ id \in Nat
    BY <2>2 DEF BetsOn
  <2>4. BetsOn(p, id, option, amount, config.token_denom)
    BY <2>2, <2>3
  <2> QED
    BY <1>2, <2>3, <2>4
<1>4. ASSUME NEW sender \in Accounts, ManageBets(sender)
      PROVE  /\ UNCHANGED config
             /\ Quiet \/ \E id \in Nat : Finishes(id)
  <2>1. CASE \E options \in OptionSets, end \in EndTimes : CreateBet(sender, options, end)
    BY <2>1 DEF CreateBet, Quiet, ownerVars, bankVars
  <2>2. CASE \E id \in 1..MaxBets, end \in EndTimes : ModifyBet(sender, id, end)
    BY <2>2 DEF ModifyBet, Quiet, ownerVars, bankVars
  <2>3. CASE \E id \in 1..MaxBets, result \in Titles : CompleteBet(sender, id, result)
    <3>1. PICK id \in Nat : Finishes(id)
      BY <2>3, CompleteFacts
    <3> QED
      BY <3>1 DEF Finishes
  <2>4. CASE \E id \in 1..MaxBets : CancelBet(sender, id)
    <3>1. PICK id \in Nat : Finishes(id)
      BY <2>4, CancelFacts
    <3> QED
      BY <3>1 DEF Finishes
  <2> QED
    BY <1>4, <2>1, <2>2, <2>3, <2>4 DEF ManageBets
<1>5. ASSUME NEW sender \in Accounts, ManageContract(sender)
      PROVE  /\ Quiet
             /\ WalletsWhole' /\ config'.token_denom = config.token_denom
  <2>1. Quiet
    BY <1>5 DEF ManageContract, UpdateConfig, TransferOwnership, AcceptOwnership,
         RenounceOwnership, Quiet, bookVars, bankVars
  <2>2. ASSUME NEW new_config \in Configs, UpdateConfig(sender, new_config)
        PROVE  WalletsWhole' /\ config'.token_denom = config.token_denom
    BY <1>1, <2>2 DEF UpdateConfig, WalletsWhole, OneToken
  <2>3. ASSUME UNCHANGED config
        PROVE  WalletsWhole' /\ config'.token_denom = config.token_denom
    BY <1>2, <2>3
  <2>4. UNCHANGED config \/ \E new_config \in Configs : UpdateConfig(sender, new_config)
    BY <1>5 DEF ManageContract, TransferOwnership, AcceptOwnership, RenounceOwnership
  <2> QED
    BY <2>1, <2>2, <2>3, <2>4
<1>6. ASSUME NEW p \in Players, Claim(p)
      PROVE  /\ UNCHANGED config
             /\ \E keys \in SUBSET FinishedKeys, dust \in Nat :
                  /\ Claims(p, keys) /\ Pays(keys, dust)
                  /\ config.fee_receiver_wallet_list # <<>> =>
                       dust <= Len(config.fee_receiver_wallet_list)
  <2>1. PICK keys \in SUBSET FinishedBetsOf(p), charged \in Nat : Pay(p, keys, charged)
    BY <1>6, ClaimIsPay
  <2>2. Claims(p, keys)
    BY <2>1, PayFacts
  <2>3. PICK dust \in Nat :
          /\ Pays(keys, dust)
          /\ config.fee_receiver_wallet_list # <<>> =>
               dust <= Len(config.fee_receiver_wallet_list)
    BY <1>1, <2>1, PayMoney
  <2>4. keys \in SUBSET FinishedKeys /\ UNCHANGED config
    BY <2>2 DEF Claims
  <2> QED
    BY <2>2, <2>3, <2>4
<1>7. CASE ChangeRegistry \/ Tick \/ UNCHANGED vars
  <2>1. Quiet /\ UNCHANGED config
    BY <1>7 DEF ChangeRegistry, Tick, vars, Quiet, bookVars, bankVars, ownerVars
  <2> QED
    BY <1>2, <2>1
<1> QED
  <2>1. ASSUME NEW sender \in Accounts, ManageBets(sender)
        PROVE  /\ WalletsWhole' /\ config'.token_denom = config.token_denom
               /\ Quiet \/ \E id \in Nat : Finishes(id)
    BY <1>2, <1>4, <2>1
  <2>2. ASSUME NEW p \in Players, Claim(p)
        PROVE  /\ WalletsWhole' /\ config'.token_denom = config.token_denom
               /\ \E keys \in SUBSET FinishedKeys, dust \in Nat :
                  /\ Claims(p, keys) /\ Pays(keys, dust)
                  /\ config.fee_receiver_wallet_list # <<>> =>
                       dust <= Len(config.fee_receiver_wallet_list)
    BY <1>2, <1>6, <2>2
  <2> QED
    BY <1>3, <1>5, <1>7, <2>1, <2>2 DEF Next

(* Each of the four keeps the coins above the dues. *)
LEMMA MoneyNext ==
  OneToken /\ IInv /\ IInv' /\ PotsMatch /\ MoneyInv /\ [Next]_vars => MoneyInv'
<1> SUFFICES ASSUME OneToken, IInv, IInv', PotsMatch, MoneyInv, [Next]_vars
             PROVE  MoneyInv'
  OBVIOUS
<1> USE DaoBetsAssumption
<1> DEFINE token == config.token_denom
<1>1. /\ WalletsWhole /\ token \in Tokens /\ vault \in [Tokens -> Nat]
      /\ vault[token] \in Nat /\ Owing <= vault[token] /\ Owing \in Nat
  BY TokenType, LiabilitiesIsOwing DEF MoneyInv
<1>2. WalletsWhole' /\ config'.token_denom = token
  BY StepKinds
<1> SUFFICES vault' \in [Tokens -> Nat] /\ Owing' <= vault'[token]
  BY <1>2 DEF MoneyInv
<1> HIDE DEF token
<1>3. CASE Quiet
  BY <1>1, <1>3, KeepsOwing DEF Quiet
<1>4. ASSUME NEW p \in Players, NEW id \in Nat, NEW option \in Titles,
             NEW amount \in Stakes, BetsOn(p, id, option, amount, token)
      PROVE  vault' \in [Tokens -> Nat] /\ Owing' <= vault'[token]
  <2>1. Owing' = Owing + amount
    BY <1>1, <1>4, BetOnOwing
  <2>2. vault' = [vault EXCEPT ![token] = @ + amount] /\ amount \in Nat
    BY <1>4 DEF BetsOn
  <2> QED
    BY <1>1, <2>1, <2>2
<1>5. ASSUME NEW id \in Nat, Finishes(id)
      PROVE  vault' \in [Tokens -> Nat] /\ Owing' <= vault'[token]
  <2>1. Owing' <= Owing /\ UNCHANGED vault
    BY <1>5, FinishOwing DEF Finishes
  <2>2. (Owing \in Nat)'
    BY LiabilitiesIsOwing, PTL
  <2> QED
    BY <1>1, <2>1, <2>2
<1>6. ASSUME NEW p \in Players, NEW keys \in SUBSET FinishedKeys, NEW dust \in Nat,
             Claims(p, keys), Pays(keys, dust)
      PROVE  vault' \in [Tokens -> Nat] /\ Owing' <= vault'[token]
  <2>1. Owing = Owing' + SumOwed(keys) /\ Owing' \in Nat /\ SumOwed(keys) \in Nat
    BY <1>6, ClaimOwing, SumOwedIsSum
  <2>2. /\ vault[token] + dust >= SumOwed(keys)
        /\ vault' = [vault EXCEPT ![token] = @ - (SumOwed(keys) - dust)]
    BY <1>6 DEF Pays, token
  <2> QED
    BY <1>1, <2>1, <2>2
<1> QED
  BY <1>3, <1>4, <1>5, <1>6, StepKinds DEF token

(* The contract holds at least what it may still have to pay: fees and     *)
(* cuts never eat into another player's coins.  OneToken is there because  *)
(* UpdateConfig may change the token the vault is counted in while stakes  *)
(* in the old one are stored.                                              *)
THEOREM Covered ==
  OneToken => (Spec => [](Liabilities <= vault[config.token_denom]))
<1> SUFFICES ASSUME OneToken PROVE Spec => [](Liabilities <= vault[config.token_denom])
  OBVIOUS
<1>2. IInv /\ IInv' /\ PotsMatch /\ MoneyInv /\ [Next]_vars => MoneyInv'
  BY MoneyNext
<1>1. IInv /\ MoneyInv => Liabilities <= vault[config.token_denom]
  BY LiabilitiesIsOwing DEF MoneyInv
<1> QED
  BY <1>1, <1>2, MoneyInit, PotsInit, PotsNext, Invariance, PTL DEF Spec

----------------------------------------------------------------------------
(* Nobody is kept from the coins of a finished bet *)

(* WinnersCanClaim in terms of the guards of a payment, for the stake on   *)
(* one bet or for any others: what a claim sends is in the vault, and none *)
(* of it is zero coins.                                                    *)
ClaimsAreTaken ==
  \A p \in Players : \A keys \in SUBSET FinishedBetsOf(p) :
    \A charged \in {0, SumOwed(keys)} :
      /\ SumOwed(keys) > 0
      /\ charged > 0 =>
           /\ config.gaming_fee < FeeScale
           /\ CanAward(p, Experience(charged, config.exp_per_denom_won))
      => CanPay(p, keys, charged)

(* Those that lost add nothing to what a claim owes. *)
LEMMA WonOwesAll ==
  ASSUME IInv, NEW keys \in SUBSET FinishedKeys
  PROVE  /\ SumOwed({k \in keys : Won(k)}) = SumOwed(keys)
         /\ SumOwed(keys) \in Nat /\ SumOwed(keys) <= Owing
<1> DEFINE won == {k \in keys : Won(k)}
           f   == Due
           S   == DOMAIN bets
<1>1. /\ SumOwed(keys) = SumFunctionOnSet(f, keys) /\ SumOwed(keys) \in Nat
      /\ SumOwed(won) = SumFunctionOnSet(f, won)
      /\ IsFiniteSet(keys) /\ \A k \in keys : f[k] \in Nat
  BY SumOwedIsSum
<1>2. \A k \in keys \ won : f[k] = 0
  BY DueFacts, OwedType DEF FinishedKeys
<1>3. won \in SUBSET keys
  OBVIOUS
<1>4. IsFiniteSet(S) /\ (\A k \in S : f[k] \in Nat) /\ keys \in SUBSET S
  BY DueFacts DEF FinishedKeys
<1>5. Owing = SumFunctionOnSet(f, S)
  BY DEF Owing
<1> HIDE DEF won, f, S
<1>6. SumFunctionOnSet(f, keys) = SumFunctionOnSet(f, won)
  BY <1>1, <1>2, <1>3, SumSupport
<1>7. SumFunctionOnSet(f, keys) <= SumFunctionOnSet(f, S)
  BY <1>4, SumSubset
<1> QED
  BY <1>1, <1>5, <1>6, <1>7 DEF won

(* A claim is never short of coins, whoever claimed before: finished bets  *)
(* that won can be claimed, one by one or together, as long as the users   *)
(* contract takes the experience and the fee is below one; those that were *)
(* only refunded, without either.                                          *)
THEOREM ClaimsStayPossible == OneToken => (Spec => []ClaimsAreTaken)
<1> SUFFICES ASSUME OneToken PROVE Spec => []ClaimsAreTaken
  OBVIOUS
<1>1. IInv /\ IInv' /\ PotsMatch /\ MoneyInv /\ [Next]_vars => MoneyInv'
  BY MoneyNext
<1>2. ASSUME IInv, MoneyInv PROVE ClaimsAreTaken
  <2> SUFFICES ASSUME NEW p \in Players, NEW keys \in SUBSET FinishedBetsOf(p),
                      NEW charged \in {0, SumOwed(keys)}, SumOwed(keys) > 0,
                      charged > 0 =>
                        /\ config.gaming_fee < FeeScale
                        /\ CanAward(p, Experience(charged, config.exp_per_denom_won))
               PROVE  CanPay(p, keys, charged)
    BY DEF ClaimsAreTaken
  <2> DEFINE owed    == SumOwed(keys)
             fee     == GamingFee(config.gaming_fee, charged)
             wallets == config.fee_receiver_wallet_list
             coins   == vault[config.token_denom]
             cuts    == TotalCuts(fee, wallets)
  <2>1. /\ SumOwed({k \in keys : Won(k)}) = owed /\ owed \in Nat /\ owed <= Owing
    BY <1>2, WonOwesAll DEF FinishedBetsOf, FinishedKeys
  <2>2. /\ Owing \in Nat /\ Owing <= coins /\ coins \in Nat
        /\ config.gaming_fee \in Nat /\ wallets \in Seq(Nat)
        /\ FeeScale \in Nat /\ FeeScale > 0
    <3>1. config.token_denom \in Tokens /\ config \in ConfigType
      BY <1>2, TokenType DEF MoneyInv, IInv, TypeOK
    <3>2. Owing \in Nat
      BY <1>2, LiabilitiesIsOwing
    <3> QED
      BY <1>2, <3>1, <3>2, BetMathAssumption DEF MoneyInv, ConfigType
  <2>3. owed > 0 /\ (charged = 0 \/ charged = owed)
    OBVIOUS
  <2>4. charged > 0 => config.gaming_fee < FeeScale
    OBVIOUS
  <2>5. CutSent(fee, wallets)
    BY DEF CutSent, BankSends
  <2>6. wallets # <<>> => RatiosSumToOne(wallets)
    BY <1>2 DEF MoneyInv, WalletsWhole
  <2> HIDE DEF owed, coins
  <2>7. fee \in Nat /\ fee < owed
    <3>1. fee = (config.gaming_fee * charged) \div FeeScale
      BY DEF GamingFee, MultiplyRatio
    <3> HIDE DEF fee
    <3>2. CASE charged = 0
      <4>1. config.gaming_fee * 0 = 0 /\ 0 \div FeeScale = 0
        BY <2>2
      <4> QED
        BY <2>1, <2>3, <3>1, <3>2, <4>1
    <3>3. CASE charged = owed /\ charged # 0
      <4>1. charged \in Nat /\ charged > 0 /\ config.gaming_fee < FeeScale
        BY <2>1, <2>3, <2>4, <3>3
      <4>2. config.gaming_fee * charged \in Nat
        BY <2>2, <4>1
      <4>3. fee \in Nat
        BY <2>2, <3>1, <4>2, DivBounds
      <4>4. fee < charged
        BY <2>2, <3>1, <4>1, PartBelow
      <4> QED
        BY <3>3, <4>3, <4>4
    <3> QED
      BY <2>3, <3>2, <3>3
  <2> HIDE DEF fee, wallets
  <2>8. cuts \in Nat /\ cuts <= fee
    BY <2>2, <2>6, <2>7, CutsOfFee
  <2> HIDE DEF cuts
  <2>9. owed - fee > 0 /\ owed - fee + cuts <= coins
    BY <2>1, <2>2, <2>7, <2>8
  <2> QED
    BY <2>1, <2>5, <2>9
       DEF CanPay, SentFor, NetFor, BankSends, owed, fee, wallets, coins, cuts
<1> QED
  BY <1>1, <1>2, MoneyInit, PotsInit, PotsNext, Invariance, PTL DEF Spec

----------------------------------------------------------------------------
(* And it holds nothing else, but for what is stranded *)

MaxWallets == Max({Len(c.fee_receiver_wallet_list) : c \in Configs})

(* There is a longest list of wallets. *)
LEMMA WalletsBound ==
  ASSUME WalletsListed, NEW c \in Configs
  PROVE  MaxWallets \in Nat /\ Len(c.fee_receiver_wallet_list) <= MaxWallets
<1> DEFINE L == {Len(d.fee_receiver_wallet_list) : d \in Configs}
<1>1. \A d \in Configs : d.fee_receiver_wallet_list \in Seq(Nat)
  BY DaoBetsAssumption DEF ConfigType
<1>2. PICK n \in Nat : \A d \in Configs : Len(d.fee_receiver_wallet_list) <= n
  BY DEF WalletsListed
<1>3. L \in SUBSET Nat /\ L # {} /\ \A l \in L : l <= n
  <2>1. \A d \in Configs : Len(d.fee_receiver_wallet_list) \in Nat
    BY <1>1
  <2> QED
    BY <1>2, <2>1
<1>4. Len(c.fee_receiver_wallet_list) \in L
  OBVIOUS
<1> HIDE DEF L
<1>5. Max(L) \in L /\ \A l \in L : l <= Max(L)
  BY <1>3, BoundedMax
<1> QED
  BY <1>3, <1>4, <1>5 DEF MaxWallets, L

ForfeitOf ==
  [b \in DOMAIN finished |-> IF NobodyWon(finished[b]) THEN Pool(finished[b]) ELSE 0]

(* The three parts of what stays in the contract are natural numbers. *)
LEMMA StrandedFacts ==
  ASSUME IInv
  PROVE  /\ IsFiniteSet(DOMAIN finished) /\ Cardinality(DOMAIN finished) \in Nat
         /\ Cardinality(DOMAIN claims) \in Nat
         /\ \A b \in DOMAIN finished : ForfeitOf[b] \in Nat
         /\ Forfeited = SumFunctionOnSet(ForfeitOf, DOMAIN finished) /\ Forfeited \in Nat
         /\ Cardinality(Players) \in Nat
<1>1. IsFiniteSet(DOMAIN finished)
  <2>1. DOMAIN finished \subseteq 1..(nextBetId - 1) /\ nextBetId - 1 \in Int
    BY DEF IInv, BetsPartition, TypeOK
  <2> QED
    BY <2>1, FS_Interval, FS_Subset
<1>2. \A b \in DOMAIN finished : ForfeitOf[b] \in Nat
  BY PoolType DEF ForfeitOf
<1>3. Forfeited = SumFunctionOnSet(ForfeitOf, DOMAIN finished)
  BY DEF Forfeited, ForfeitOf, SumFunction
<1>4. Forfeited \in Nat
  BY <1>1, <1>2, <1>3, SumType
<1>5. IsFiniteSet(DOMAIN claims) /\ IsFiniteSet(Players)
  BY DaoBetsAssumption DEF IInv, BooksFinite
<1> QED
  BY <1>1, <1>2, <1>3, <1>4, <1>5, FS_CardinalityType

(* What stays in the contract, over the bets one by one. *)
LEMMA StrandedIs ==
  Stranded = Forfeited + Cardinality(DOMAIN finished) * Cardinality(Players)
               + Cardinality(DOMAIN claims) * MaxWallets
BY DEF Stranded, MaxWallets

(* A settlement strands what it rounds off, or the pool if nobody won. *)
LEMMA FinishStranded ==
  ASSUME IInv, MaxWallets \in Nat, NEW id \in Nat, Finishes(id)
  PROVE  Stranded' = Stranded + Cardinality(Players)
                       + (IF NobodyWon(finished'[id]) THEN Pool(unfinished[id]) ELSE 0)
<1> DEFINE F    == DOMAIN finished
           f    == ForfeitOf
           g    == ForfeitOf'
           lost == IF NobodyWon(finished'[id]) THEN Pool(unfinished[id]) ELSE 0
           P    == Cardinality(Players)
           n    == Cardinality(F)
<1>1. /\ id \notin F /\ id \in DOMAIN unfinished /\ DOMAIN finished' = F \cup {id}
      /\ \A b \in F : finished'[b] = finished[b]
      /\ finished'[id].current_bet_amounts = unfinished[id].current_bet_amounts
      /\ UNCHANGED claims
  BY DEF Finishes
<1>2. /\ IsFiniteSet(F) /\ n \in Nat /\ P \in Nat /\ Cardinality(DOMAIN claims) \in Nat
      /\ \A b \in F : f[b] \in Nat
      /\ Forfeited = SumFunctionOnSet(f, F) /\ Forfeited \in Nat
  BY StrandedFacts
<1>3. lost \in Nat
  <2>1. Pool(unfinished[id]) \in Nat
    BY <1>1, BetFacts, SumType DEF Pool, SumFunction
  <2> QED
    BY <2>1
<1>4. \A b \in F : g[b] = f[b]
  BY <1>1 DEF ForfeitOf
<1>5. g[id] = lost
  BY <1>1 DEF ForfeitOf, Pool
<1>6. Forfeited' = SumFunctionOnSet(g, F \cup {id})
  BY <1>1 DEF Forfeited, ForfeitOf, SumFunction
<1> HIDE DEF F, f, g, lost, n, P
<1>7. SumFunctionOnSet(g, F \cup {id}) = SumFunctionOnSet(f, F) + lost
  <2>1. g[id] = IF id \in F THEN f[id] + lost ELSE lost
    BY <1>1, <1>5
  <2>2. Raises(f, g, F, id, lost)
    BY <1>2, <1>3, <1>4, <2>1 DEF Raises
  <2> QED
    BY <2>2, SumUpdate
<1>8. Cardinality(F \cup {id}) = n + 1
  BY <1>1, <1>2, FS_AddElement DEF n
<1>9. Stranded' = Forfeited' + (n + 1) * P + Cardinality(DOMAIN claims) * MaxWallets
  BY <1>1, <1>8, StrandedIs DEF P, F, Stranded, MaxWallets
<1>10. (n + 1) * P = n * P + P
  BY <1>2
<1>11. /\ Stranded = Forfeited + n * P + Cardinality(DOMAIN claims) * MaxWallets
       /\ n * P \in Nat /\ Cardinality(DOMAIN claims) * MaxWallets \in Nat
  BY <1>2, StrandedIs DEF n, P, F
<1> DEFINE x == n * P
           y == Cardinality(DOMAIN claims) * MaxWallets
<1> HIDE DEF x, y
<1>12. Stranded' = Stranded + P + lost
  <2>1. Stranded' = Forfeited' + (x + P) + y /\ Forfeited' = Forfeited + lost
    BY <1>2, <1>6, <1>7, <1>9, <1>10 DEF x, y
  <2>2. Stranded = Forfeited + x + y /\ x \in Nat /\ y \in Nat
    BY <1>11 DEF x, y
  <2> QED
    BY <1>2, <1>3, <2>1, <2>2
<1> QED
  BY <1>12 DEF P, lost

(* A claim strands the dust of its cuts. *)
LEMMA ClaimStranded ==
  ASSUME IInv, MaxWallets \in Nat, NEW p \in Players, NEW keys \in SUBSET FinishedKeys,
         Claims(p, keys), \E k \in keys : Won(k)
  PROVE  Stranded' >= Stranded + MaxWallets /\ Stranded' \in Nat
<1> DEFINE C   == DOMAIN claims
           won == {k \in keys : Won(k)}
           n   == Cardinality(C)
           m   == Cardinality(won)
           M   == MaxWallets
<1>1. /\ DOMAIN claims' = C \cup won /\ UNCHANGED finished
  BY DEF Claims
<1>2. /\ IsFiniteSet(C) /\ n \in Nat /\ Forfeited \in Nat
      /\ Cardinality(DOMAIN finished) * Cardinality(Players) \in Nat
  BY StrandedFacts DEF IInv, BooksFinite
<1>3. IsFiniteSet(won) /\ won # {}
  BY SumOwedIsSum, FS_Subset
<1>4. C \cap won = {}
  BY DEF IInv, ClaimedOnce, FinishedKeys
<1> DEFINE z == Forfeited + Cardinality(DOMAIN finished) * Cardinality(Players)
<1>5. Forfeited' = Forfeited
  BY <1>1, Zenon DEF Forfeited
<1>6. Stranded = z + n * M
  BY StrandedIs
<1>7. Stranded' = z + Cardinality(C \cup won) * M
  BY <1>1, <1>5 DEF Stranded, MaxWallets
<1>8. z \in Nat
  BY <1>2
<1> HIDE DEF C, won, z, M
<1>9. Cardinality(C \cup won) = n + m /\ m \in Nat /\ m # 0
  <2>1. m \in Nat /\ m # 0
    BY <1>3, FS_EmptySet, FS_CardinalityType
  <2>2. Cardinality(C \cup won) = Cardinality(C) + Cardinality(won) - Cardinality(C \cap won)
    BY <1>2, <1>3, FS_Union
  <2>3. Cardinality(C \cap won) = 0
    BY <1>4, FS_EmptySet
  <2> QED
    BY <1>2, <2>1, <2>2, <2>3
<1> HIDE DEF n, m
<1>10. PICK j \in Nat : m = 1 + j
  <2>1. m - 1 \in Nat /\ m = 1 + (m - 1)
    BY <1>9
  <2> QED
    BY <2>1
<1>11. (n + m) * M = n * M + M + j * M /\ j * M \in Nat /\ n * M \in Nat
  <2>1. M \in Nat
    BY DEF M
  <2>2. (n + m) * M = M * (n + (1 + j))
    BY <1>2, <1>10, <2>1
  <2>3. /\ M * (n + (1 + j)) = M * n + M * (1 + j)
        /\ M * (1 + j) = M * 1 + M * j
    BY <1>2, <1>10, <2>1, Distribute
  <2> QED
    BY <1>2, <1>10, <2>1, <2>2, <2>3
<1> QED
  BY <1>6, <1>7, <1>8, <1>9, <1>11 DEF M

NotStuck == vault[config.token_denom] <= Owing + Stranded

(* An empty contract holds nothing that could be stuck. *)
LEMMA NotStuckInit == WalletsListed /\ Init => NotStuck
<1> SUFFICES ASSUME WalletsListed, Init PROVE NotStuck
  OBVIOUS
<1>1. IInv /\ MoneyInv /\ vault[config.token_denom] = 0
  BY InitInv, MoneyInit, TokenType DEF Init, MoneyInv
<1>2. MaxWallets \in Nat
  BY WalletsBound DEF Init
<1>3. Owing \in Nat /\ Stranded \in Nat
  BY <1>1, <1>2, StrandedFacts, StrandedIs, LiabilitiesIsOwing
<1> QED
  BY <1>1, <1>3 DEF NotStuck

(* A claim records at least one stake, which allows for its dust. *)
LEMMA StrandedDust ==
  ASSUME NEW held \in Nat, NEW paid \in Nat, NEW dust \in Nat, NEW owing \in Nat,
         NEW old \in Nat, NEW new \in Nat, NEW m \in Nat,
         held <= (owing + paid) + old, dust <= m, new >= old + m
  PROVE  held - (paid - dust) <= owing + new
OBVIOUS

(* A settlement strands less than a coin a player or a pool nobody won, a  *)
(* claim less than a coin a wallet.                                        *)
LEMMA NotStuckNext ==
  OneToken /\ WalletsListed /\ IInv /\ IInv' /\ PotsMatch /\ MoneyInv /\ MoneyInv'
    /\ NotStuck /\ [Next]_vars => NotStuck'
<1> SUFFICES ASSUME OneToken, WalletsListed, IInv, IInv', PotsMatch, MoneyInv, MoneyInv',
                    NotStuck, [Next]_vars
             PROVE  NotStuck'
  OBVIOUS
<1> USE DaoBetsAssumption
<1> DEFINE token == config.token_denom
           wallets == config.fee_receiver_wallet_list
<1>1. /\ token \in Tokens /\ vault \in [Tokens -> Nat]
      /\ vault[token] \in Nat /\ Owing \in Nat
      /\ Cardinality(Players) \in Nat
  BY TokenType, LiabilitiesIsOwing, StrandedFacts DEF MoneyInv
<1>2. /\ config'.token_denom = token
      /\ MaxWallets \in Nat /\ wallets # <<>> /\ Len(wallets) <= MaxWallets
      /\ Len(wallets) \in Nat
  <2>1. config \in Configs /\ config \in ConfigType
    BY DEF MoneyInv, WalletsWhole
  <2>2. wallets \in Seq(Nat)
    BY <2>1 DEF ConfigType
  <2> QED
    BY <2>1, <2>2, StepKinds, WalletsBound DEF WalletsListed
<1>3. Stranded \in Nat
  BY <1>2, StrandedFacts, StrandedIs, SMTT(30)
<1>4. vault[token] <= Owing + Stranded
  BY DEF NotStuck
<1> SUFFICES vault'[token] <= Owing' + Stranded'
  BY <1>2 DEF NotStuck
<1>5. (Owing \in Nat)'
  BY LiabilitiesIsOwing, PTL
<1> HIDE DEF token, wallets
<1>6. ASSUME UNCHANGED <<finished, claims>> PROVE Stranded' = Stranded
  BY <1>6, Zenon DEF Stranded, Forfeited
<1>7. CASE Quiet
  BY <1>4, <1>6, <1>7, KeepsOwing DEF Quiet
<1>8. ASSUME NEW p \in Players, NEW id \in Nat, NEW option \in Titles,
             NEW amount \in Stakes, BetsOn(p, id, option, amount, token)
      PROVE  vault'[token] <= Owing' + Stranded'
  <2>1. Owing' = Owing + amount
    BY <1>1, <1>8, BetOnOwing
  <2>2. /\ vault' = [vault EXCEPT ![token] = @ + amount] /\ amount \in Nat
        /\ UNCHANGED <<finished, claims>>
    BY <1>8 DEF BetsOn
  <2> QED
    BY <1>1, <1>3, <1>4, <1>6, <2>1, <2>2
<1>9. ASSUME NEW id \in Nat, Finishes(id)
      PROVE  vault'[token] <= Owing' + Stranded'
  <2> DEFINE lost == IF NobodyWon(finished'[id]) THEN Pool(unfinished[id]) ELSE 0
  <2>1. Pool(unfinished[id]) \in Nat
    BY <1>9, StakesFillPool DEF Finishes
  <2>2. lost \in Nat
    BY <2>1
  <2>3. Owing <= Owing' + Cardinality(Players) + lost
    BY <1>9, FinishOwing
  <2>4. Stranded' = Stranded + Cardinality(Players) + lost
    BY <1>2, <1>9, FinishStranded
  <2>5. UNCHANGED vault
    BY <1>9 DEF Finishes
  <2> HIDE DEF lost
  <2> QED
    BY <1>1, <1>3, <1>4, <1>5, <2>2, <2>3, <2>4, <2>5
<1>10. ASSUME NEW p \in Players, NEW keys \in SUBSET FinishedKeys, NEW dust \in Nat,
              Claims(p, keys), Pays(keys, dust), wallets # <<>> => dust <= Len(wallets)
       PROVE  vault'[token] <= Owing' + Stranded'
  <2>1. Owing = Owing' + SumOwed(keys) /\ Owing' \in Nat /\ SumOwed(keys) \in Nat
    BY <1>10, ClaimOwing, SumOwedIsSum
  <2>2. vault' = [vault EXCEPT ![token] = @ - (SumOwed(keys) - dust)]
    BY <1>10 DEF Pays, token
  <2>3. Stranded' >= Stranded + MaxWallets /\ Stranded' \in Nat
    BY <1>2, <1>10, ClaimStranded DEF Pays
  <2>4. dust <= MaxWallets
    BY <1>2, <1>10
  <2>5. vault'[token] = vault[token] - (SumOwed(keys) - dust)
    BY <1>1, <2>2
  <2> DEFINE v == vault[token]
             o == SumOwed(keys)
  <2>6. v \in Nat /\ o \in Nat /\ vault'[token] = v - (o - dust) /\ Owing = Owing' + o
        /\ v <= Owing + Stranded
    BY <1>1, <1>4, <2>1, <2>5
  <2> HIDE DEF v, o
  <2>7. v <= (Owing' + o) + Stranded
    BY <2>6
  <2>8. v - (o - dust) <= Owing' + Stranded'
    <3> HIDE DaoBetsAssumption
    <3>1. MaxWallets \in Nat /\ Stranded \in Nat /\ Stranded' \in Nat /\ Owing' \in Nat
      BY <1>2, <1>3, <2>1, <2>3
    <3> QED
      BY <2>3, <2>4, <2>6, <2>7, <3>1, StrandedDust
  <2> QED
    BY <2>6, <2>8
<1> QED
  BY <1>7, <1>8, <1>9, <1>10, StepKinds DEF token, wallets

(* The contract holds what it owes, and no more than that and what         *)
(* rounding, and pools nobody won, leave in it.  WalletsListed excludes    *)
(* the configuration with no wallets, whose fees are charged and sent to   *)
(* nobody.                                                                 *)
THEOREM Solvency == OneToken /\ WalletsListed => (Spec => []Solvent)
<1> SUFFICES ASSUME OneToken, WalletsListed PROVE Spec => []Solvent
  OBVIOUS
<1>1. IInv /\ IInv' /\ PotsMatch /\ MoneyInv /\ [Next]_vars => MoneyInv'
  BY MoneyNext
<1>2. Init => NotStuck
  BY NotStuckInit
<1>3. IInv /\ IInv' /\ PotsMatch /\ MoneyInv /\ MoneyInv' /\ NotStuck /\ [Next]_vars
        => NotStuck'
  BY NotStuckNext
<1>4. IInv /\ MoneyInv /\ NotStuck => Solvent
  BY LiabilitiesIsOwing DEF MoneyInv, NotStuck, Solvent
<1> QED
  BY <1>1, <1>2, <1>3, <1>4, MoneyInit, PotsInit, PotsNext, Invariance, PTL DEF Spec

----------------------------------------------------------------------------
(* What a stake on a finished bet is worth *)

(* One stake. *)
LEMMA SumOwedSingle ==
  ASSUME IInv, NEW k \in FinishedKeys
  PROVE  SumOwed({k}) = Owed(k)
<1>1. /\ SumOwed({k}) = SumFunctionOnSet(Due, {k})
      /\ Due[k] = Owed(k) /\ Due[k] \in Nat
  BY SumOwedIsSum, DueFacts DEF FinishedKeys
<1>2. SumFunctionOnSet(Due, {} \cup {k}) = Due[k] + SumFunctionOnSet(Due, {})
  BY <1>1, FS_EmptySet, SumAdd
<1>3. SumFunctionOnSet(Due, {}) = 0 /\ {} \cup {k} = {k}
  BY SumEmpty
<1> QED
  BY <1>1, <1>2, <1>3

(* A stake that won or is refunded is worth at least its amount, and the   *)
(* others nothing.                                                         *)
StakesComeBack ==
  \A k \in FinishedKeys :
    IF Won(k) THEN Owed(k) > 0 /\ Owed(k) >= bets[k].amount ELSE Owed(k) = 0

(* A winner's share of the pool is a share of no less than the amount of   *)
(* the option, so no rounding takes a coin of the stake.                   *)
LEMMA WinnersGain == IInv => StakesComeBack
<1> SUFFICES ASSUME IInv, NEW k \in FinishedKeys, Won(k)
             PROVE  Owed(k) >= bets[k].amount
  BY OwedType DEF StakesComeBack, FinishedKeys
<1> DEFINE bet == finished[k[1]]
           P   == Pool(bet)
           a   == bets[k].amount
           w   == bet.current_bet_amounts[bets[k].option]
<1>1. k \in DOMAIN bets /\ k[1] \in DOMAIN finished
  BY DEF FinishedKeys
<1>2. /\ a \in Nat /\ a > 0 /\ a <= w /\ w \in Nat
      /\ bets[k].option \in DOMAIN bet.current_bet_amounts
  BY <1>1, StakeFacts, BetFacts
<1>3. P \in Nat /\ w <= P
  <2>1. SumFunctionOnSet(Amounts(k[1]), DOMAIN Amounts(k[1])) >= w
    BY <1>1, <1>2, BetFacts, SumMember
  <2> QED
    BY <1>1, <2>1, BetFacts, PoolType DEF Pool, SumFunction
<1>4. Owed(k) = IF bet.cancelled THEN a ELSE (P * a) \div w
  BY DEF Owed, BetOf, Won, MultiplyRatio
<1> HIDE DEF P, a, w
<1>5. (P * a) \div w >= a
  BY <1>2, <1>3, ShareAtLeast
<1> QED
  BY <1>2, <1>4, <1>5 DEF a

(* A stake on a finished bet is lost, or worth no less than what was paid: *)
(* the other options never cost a winner a part of the stake.  (The gaming *)
(* fee, which is charged on the stake too, may.)                           *)
THEOREM WinnersGetStakesBack == Spec => []StakesComeBack
BY WinnersGain, Invariance, PTL

(* What a step may do to a stake that won or is refunded, and to what was  *)
(* claimed                                                                 *)
PrizeKept(k) ==
  \/ k \in DOMAIN bets' /\ Owed(k)' = Owed(k) /\ Won(k)'
  \/ Claim(k[2]) /\ k \notin DOMAIN bets' /\ k \in DOMAIN claims' /\ claims'[k] = Owed(k)

PrizesKept ==
  /\ \A k \in FinishedKeys : Won(k) => PrizeKept(k)
  /\ \A k \in DOMAIN claims : k \in DOMAIN claims' /\ claims'[k] = claims[k]

(* Every step leaves the stakes and the verdicts alone, bets, finishes a   *)
(* bet or is a claim.                                                      *)
LEMMA PrizeKinds ==
  ASSUME IInv, [Next]_vars
  PROVE  \/ UNCHANGED <<finished, bets, claims>>
         \/ \E p \in Players, id \in 1..MaxBets, option \in Titles, amount \in Stakes,
               token \in Tokens : BetsOn(p, id, option, amount, token)
         \/ \E id \in Nat : Finishes(id)
         \/ \E p \in Players, keys \in SUBSET FinishedKeys : Claim(p) /\ Claims(p, keys)
<1>1. ASSUME UNCHANGED bookVars PROVE UNCHANGED <<finished, bets, claims>>
  BY <1>1 DEF bookVars
<1>2. CASE PlaceBet
  BY <1>2, BetOnFacts DEF PlaceBet
<1>3. ASSUME NEW sender \in Accounts, ManageBets(sender)
      PROVE  UNCHANGED <<finished, bets, claims>> \/ \E id \in Nat : Finishes(id)
  <2>1. CASE \E id \in 1..MaxBets, result \in Titles : CompleteBet(sender, id, result)
    BY <2>1, CompleteFacts
  <2>2. CASE \E id \in 1..MaxBets : CancelBet(sender, id)
    BY <2>2, CancelFacts
  <2> QED
    BY <1>3, <2>1, <2>2 DEF ManageBets, CreateBet, ModifyBet
<1>4. ASSUME NEW sender \in Accounts, ManageContract(sender) PROVE UNCHANGED bookVars
  BY <1>4 DEF ManageContract, UpdateConfig, TransferOwnership, AcceptOwnership,
       RenounceOwnership
<1>5. ASSUME NEW p \in Players, Claim(p)
      PROVE  \E keys \in SUBSET FinishedKeys : Claims(p, keys)
  <2>1. PICK keys : Claims(p, keys)
    BY <1>5, ClaimIsPay, PayFacts
  <2> QED
    BY <2>1 DEF Claims
<1>6. CASE ChangeRegistry \/ Tick \/ UNCHANGED vars
  BY <1>6 DEF ChangeRegistry, Tick, vars, bookVars
<1> QED
  BY <1>1, <1>2, <1>3, <1>4, <1>5, <1>6 DEF Next

(* Bets and verdicts leave both alone, and a claim takes what it is for.   *)
LEMMA PrizeStep == IInv /\ [Next]_vars => PrizesKept
<1> SUFFICES ASSUME IInv, [Next]_vars PROVE PrizesKept
  OBVIOUS
<1>1. ASSUME UNCHANGED claims,
             \A k \in FinishedKeys : k \in DOMAIN bets' /\ bets'[k] = bets[k],
             \A b \in DOMAIN finished : finished'[b] = finished[b]
      PROVE  PrizesKept
  <2>1. \A k \in FinishedKeys :
          k \in DOMAIN bets' /\ Owed(k)' = Owed(k) /\ Won(k)' = Won(k)
    BY <1>1 DEF FinishedKeys, Owed, Won, BetOf
  <2> QED
    BY <1>1, <2>1 DEF PrizesKept, PrizeKept
<1>2. CASE UNCHANGED <<finished, bets, claims>>
  BY <1>1, <1>2 DEF FinishedKeys
<1>3. ASSUME NEW p \in Players, NEW id \in 1..MaxBets, NEW option \in Titles,
             NEW amount \in Stakes, NEW token \in Tokens,
             BetsOn(p, id, option, amount, token)
      PROVE  PrizesKept
  <2>1. id \notin DOMAIN finished
    BY <1>3 DEF BetsOn, IInv, BetsPartition
  <2> QED
    BY <1>1, <1>3, <2>1 DEF BetsOn, FinishedKeys
<1>4. ASSUME NEW id \in Nat, Finishes(id) PROVE PrizesKept
  BY <1>1, <1>4 DEF Finishes, FinishedKeys
<1>5. ASSUME NEW p \in Players, NEW keys \in SUBSET FinishedKeys, Claim(p), Claims(p, keys)
      PROVE  PrizesKept
  <2>1. ASSUME NEW k \in FinishedKeys, Won(k) PROVE PrizeKept(k)
    <3>1. CASE k \in keys
      BY <1>5, <2>1, <3>1 DEF Claims, PrizeKept
    <3>2. CASE k \notin keys
      <4>1. k \in DOMAIN bets' /\ bets'[k] = bets[k] /\ finished' = finished
        BY <1>5, <3>2 DEF Claims, FinishedKeys
      <4> QED
        BY <2>1, <4>1 DEF PrizeKept, Owed, Won, BetOf
    <3> QED
      BY <3>1, <3>2
  <2>2. \A k \in DOMAIN claims : k \notin keys
    BY DEF FinishedKeys, IInv, ClaimedOnce
  <2> QED
    BY <1>5, <2>1, <2>2 DEF Claims, PrizesKept
<1> QED
  BY <1>2, <1>3, <1>4, <1>5, PrizeKinds

(* What a stake that won or is refunded is worth is there until its player *)
(* claims it, and is then recorded as claimed for good: no other claim, no *)
(* later verdict and no message of the owner changes it or takes it away.  *)
THEOREM PrizesAreKept == Spec => [][PrizesKept]_vars
<1>1. IInv /\ [Next]_vars => [PrizesKept]_vars
  BY PrizeStep
<1> QED
  BY <1>1, Invariance, PTL DEF Spec

(* A verdict stays. *)
LEMMA VerdictKept ==
  ASSUME IInv, [Next]_vars, NEW b \in DOMAIN finished
  PROVE  b \in DOMAIN finished' /\ finished'[b] = finished[b]
<1>1. ASSUME NEW p \in Players, NEW keys, Claims(p, keys) PROVE finished' = finished
  BY <1>1 DEF Claims
<1>2. ASSUME NEW p \in Players, NEW id \in 1..MaxBets, NEW option \in Titles,
             NEW amount \in Stakes, NEW token \in Tokens,
             BetsOn(p, id, option, amount, token)
      PROVE  finished' = finished
  BY <1>2 DEF BetsOn
<1>3. ASSUME NEW id \in Nat, Finishes(id)
      PROVE  b \in DOMAIN finished' /\ finished'[b] = finished[b]
  BY <1>3 DEF Finishes
<1> QED
  BY <1>1, <1>2, <1>3, PrizeKinds

----------------------------------------------------------------------------
(* What the queries announce *)

(* The bets for which a player is shown a reward *)
Announced(p) == {b \in DOMAIN finished : <<b, p>> \in DOMAIN bets /\ Won(<<b, p>>)}

ShownAgree ==
  \A p \in Players :
    /\ DOMAIN PendingRewardRounds(p) = Announced(p)
    /\ \A b \in Announced(p) :
         /\ PendingRewardRounds(p)[b] = Owed(<<b, p>>)
         /\ MyPendingRewardRound(b, p) = Owed(<<b, p>>)

(* The rules of the queries and those of the claims are the same rules.    *)
LEMMA ShownIsOwed == ShownAgree
<1> SUFFICES ASSUME NEW p \in Players
             PROVE  /\ DOMAIN PendingRewardRounds(p) = Announced(p)
                    /\ \A b \in Announced(p) :
                         /\ PendingRewardRounds(p)[b] = Owed(<<b, p>>)
                         /\ MyPendingRewardRound(b, p) = Owed(<<b, p>>)
  BY DEF ShownAgree
<1>1. \A b : Won(<<b, p>>) <=> ~NotWonByQuery(finished[b], bets[<<b, p>>])
  BY DEF Won, BetOf, NotWonByQuery
<1>2. \A b \in Announced(p) : RewardShown(finished[b], bets[<<b, p>>]) = Owed(<<b, p>>)
  BY DEF Announced, RewardShown, Owed, BetOf, Pool, Won
<1>3. DOMAIN PendingRewardRounds(p) = Announced(p)
  BY <1>1 DEF PendingRewardRounds, Announced
<1>4. \A b \in Announced(p) :
        PendingRewardRounds(p)[b] = RewardShown(finished[b], bets[<<b, p>>])
  BY <1>1 DEF PendingRewardRounds, Announced
<1>5. \A b \in Announced(p) :
        MyPendingRewardRound(b, p) = RewardShown(finished[b], bets[<<b, p>>])
  BY <1>1 DEF MyPendingRewardRound, Announced
<1> QED
  BY <1>2, <1>3, <1>4, <1>5

(* What is shown for any of them in all is what their stakes are owed.     *)
LEMMA ShownTotal ==
  ASSUME IInv, NEW p \in Players, NEW B \in SUBSET Announced(p)
  PROVE  SumFunctionOnSet(PendingRewardRounds(p), B) = SumOwed({<<b, p>> : b \in B})
<1> DEFINE f    == Due
           g    == PendingRewardRounds(p)
           h    == [b \in B |-> <<b, p>>]
           keys == {<<b, p>> : b \in B}
<1>1. IsFiniteSet(B)
  <2>1. B \subseteq 1..(nextBetId - 1) /\ nextBetId \in Nat
    BY DEF Announced, IInv, TypeOK, BetsPartition
  <2>2. IsFiniteSet(1..(nextBetId - 1))
    BY <2>1, FS_Interval
  <2> QED
    BY <2>1, <2>2, FS_Subset
<1>2. \A b \in B : /\ <<b, p>> \in FinishedKeys
                   /\ f[<<b, p>>] = Owed(<<b, p>>) /\ f[<<b, p>>] \in Nat
                   /\ g[b] = Owed(<<b, p>>)
  BY DueFacts, ShownIsOwed DEF ShownAgree, Announced, FinishedKeys
<1>3. h \in [B -> DOMAIN f] /\ \A i, j \in B : h[i] = h[j] => i = j
  BY <1>2 DEF Due, FinishedKeys
<1>4. \A b \in B : f[h[b]] \in Nat /\ g[b] = f[h[b]]
  BY <1>2
<1>5. {h[b] : b \in B} = keys /\ keys \in SUBSET FinishedKeys
  BY <1>2
<1> HIDE DEF f, g, h, keys
<1>6. SumFunctionOnSet(g, B) = SumFunctionOnSet(f, {h[b] : b \in B})
  BY <1>1, <1>3, <1>4, SumReindex
<1>7. SumOwed(keys) = SumFunctionOnSet(f, keys)
  BY <1>5, SumOwedIsSum DEF f
<1> QED
  BY <1>5, <1>6, <1>7 DEF g, keys

(* The total of the query is what the batch claim counts up.               *)
LEMMA PendingIsOwed ==
  ASSUME IInv, NEW p \in Players
  PROVE  MyPendingReward(p) = SumOwed(FinishedBetsOf(p))
<1> DEFINE keys == FinishedBetsOf(p)
           won  == {k \in keys : Won(k)}
<1>1. keys \in SUBSET FinishedKeys
  BY DEF FinishedBetsOf, FinishedKeys
<1>2. {<<b, p>> : b \in Announced(p)} = won
  <2>1. \A k \in won : k = <<k[1], p>> /\ k[1] \in Announced(p)
    BY DEF FinishedBetsOf, Announced, IInv, TypeOK
  <2>2. \A b \in Announced(p) : <<b, p>> \in won
    BY DEF FinishedBetsOf, Announced
  <2> QED
    BY <2>1, <2>2
<1>3. MyPendingReward(p) = SumFunctionOnSet(PendingRewardRounds(p), Announced(p))
  BY ShownIsOwed DEF ShownAgree, MyPendingReward, SumFunction
<1>4. SumOwed(won) = SumOwed(keys)
  BY <1>1, WonOwesAll
<1> QED
  BY <1>2, <1>3, <1>4, ShownTotal

(* The coins of the players are counted in natural numbers. *)
PurseTyped == purse \in [Players -> [Tokens -> Nat]]

(* The fee a claim is charged is at most that of all it pays.              *)
LEMMA ChargeBounds ==
  ASSUME IInv, NEW total \in Nat, NEW charged \in {0, total}
  PROVE  /\ GamingFee(config.gaming_fee, charged) \in Nat
         /\ GamingFee(config.gaming_fee, charged) <= GamingFee(config.gaming_fee, total)
<1>1. config.gaming_fee \in Nat /\ FeeScale \in Nat /\ FeeScale > 0
  BY BetMathAssumption DEF IInv, TypeOK, ConfigType
<1>2. \A n \in Nat : GamingFee(config.gaming_fee, n) \in Nat
  <2> SUFFICES ASSUME NEW n \in Nat PROVE (config.gaming_fee * n) \div FeeScale \in Nat
    BY DEF GamingFee, MultiplyRatio
  <2>1. config.gaming_fee * n \in Nat
    BY <1>1
  <2> QED
    BY <1>1, <2>1, DivBounds
<1>3. GamingFee(config.gaming_fee, 0) = 0
  <2>1. config.gaming_fee * 0 = 0 /\ 0 \div FeeScale = 0
    BY <1>1
  <2> QED
    BY <2>1 DEF GamingFee, MultiplyRatio
<1> QED
  BY <1>2, <1>3

(* A claim charges its fee on everything it pays, or none.                 *)
LEMMA ClaimCharges ==
  ASSUME IInv, NEW p \in Players, Claim(p)
  PROVE  \E keys \in SUBSET FinishedBetsOf(p) :
           \E charged \in {0, SumOwed(keys)} : Pay(p, keys, charged)
<1>1. CASE CollectWinnings(p)
  BY <1>1 DEF CollectWinnings
<1>2. CASE \E id \in 1..MaxBets : CollectWinningsBet(p, id)
  <2>1. PICK id \in 1..MaxBets : CollectWinningsBet(p, id)
    BY <1>2
  <2> DEFINE key == <<id, p>>
  <2>2. /\ key \in FinishedBetsOf(p) /\ key \in FinishedKeys
        /\ Pay(p, {key}, IF BetOf(key).cancelled THEN 0 ELSE Owed(key))
    BY <2>1, CollectBetIsPay DEF CollectWinningsBet, FinishedBetsOf, FinishedKeys
  <2>3. SumOwed({key}) = Owed(key)
    BY <2>2, SumOwedSingle
  <2> HIDE DEF key
  <2> QED
    BY <2>2, <2>3
<1> QED
  BY <1>1, <1>2 DEF Claim

(* Only a claim adds to the coins of a player.                             *)
LEMMA PurseShrinks ==
  ASSUME IInv, PurseTyped, [Next]_vars, \A q \in Players : ~Claim(q)
  PROVE  /\ PurseTyped'
         /\ \A p \in Players : \A t \in Tokens : purse'[p][t] - purse[p][t] <= 0
<1>1. ASSUME UNCHANGED purse
      PROVE  /\ PurseTyped'
             /\ \A p \in Players : \A t \in Tokens : purse'[p][t] - purse[p][t] <= 0
  BY <1>1 DEF PurseTyped
<1>2. ASSUME PlaceBet
      PROVE  /\ PurseTyped'
             /\ \A p \in Players : \A t \in Tokens : purse'[p][t] - purse[p][t] <= 0
  <2>1. PICK p \in Players, id \in 1..MaxBets, option \in Titles, amount \in Stakes,
             token \in Tokens : BetOn(p, id, option, amount, token)
    BY <1>2 DEF PlaceBet
  <2>2. /\ purse' = [purse EXCEPT ![p][token] = @ - amount]
        /\ amount <= purse[p][token] /\ amount \in Nat
    BY <2>1, DaoBetsAssumption DEF BetOn
  <2>3. /\ purse[p][token] - amount \in Nat
        /\ purse[p][token] - amount - purse[p][token] <= 0
    BY <2>2 DEF PurseTyped
  <2> QED
    BY <2>2, <2>3 DEF PurseTyped
<1>3. ASSUME NEW sender \in Accounts, ManageBets(sender) \/ ManageContract(sender)
      PROVE  UNCHANGED purse
  BY <1>3 DEF ManageBets, ManageContract, CreateBet, ModifyBet, CompleteBet, CancelBet,
       Finish, UpdateConfig, TransferOwnership, AcceptOwnership, RenounceOwnership, bankVars
<1>4. ASSUME ChangeRegistry \/ Tick \/ UNCHANGED vars PROVE UNCHANGED purse
  BY <1>4 DEF ChangeRegistry, Tick, vars, bankVars
<1> QED
  BY <1>1, <1>2, <1>3, <1>4 DEF Next

(* A bet takes coins a player has, a claim adds some.                      *)
LEMMA PurseNext == IInv /\ PurseTyped /\ [Next]_vars => PurseTyped'
<1> SUFFICES ASSUME IInv, PurseTyped, [Next]_vars PROVE PurseTyped'
  OBVIOUS
<1>1. ASSUME NEW p \in Players, Claim(p) PROVE PurseTyped'
  <2>1. PICK keys \in SUBSET FinishedBetsOf(p) :
          \E charged \in {0, SumOwed(keys)} : Pay(p, keys, charged)
    BY <1>1, ClaimCharges
  <2>2. PICK charged \in {0, SumOwed(keys)} : Pay(p, keys, charged)
    BY <2>1
  <2>3. keys \in SUBSET FinishedKeys /\ SumOwed(keys) \in Nat
    BY SumOwedType DEF FinishedBetsOf, FinishedKeys
  <2> DEFINE net == NetFor(keys, charged)
  <2>4. net \in Nat
    <3>1. SumOwed({k \in keys : Won(k)}) \in Nat
      BY <2>3, SumOwedType
    <3>2. GamingFee(config.gaming_fee, charged) \in Nat
      BY <2>3, ChargeBounds
    <3> QED
      BY <2>2, <3>1, <3>2 DEF NetFor, Pay, CanPay, BankSends
  <2>5. purse' = [purse EXCEPT ![p][config.token_denom] = @ + net]
    BY <2>2 DEF Pay
  <2>6. config.token_denom \in Tokens
    BY DEF IInv, TypeOK, ConfigType
  <2> HIDE DEF net
  <2> QED
    BY <2>4, <2>5, <2>6 DEF PurseTyped
<1> QED
  BY <1>1, PurseShrinks

(* The batch claim pays all that is announced to a player.                 *)
LEMMA BatchLeavesNothing ==
  ASSUME IInv, NEW p \in Players, CollectWinnings(p)
  PROVE  PendingRewardRounds(p)' = EmptyMap
<1>1. Claims(p, FinishedBetsOf(p))
  BY CollectIsPay, PayFacts
<1>2. \A b \in DOMAIN finished' : <<b, p>> \notin DOMAIN bets'
  BY <1>1 DEF Claims, FinishedBetsOf
<1>3. {b \in DOMAIN finished' : <<b, p>> \in DOMAIN bets'} = {}
  BY <1>2
<1> QED
  BY <1>3 DEF PendingRewardRounds, EmptyMap

(* A claim: what it is about goes, recorded and paid as announced, and     *)
(* nothing else moves.                                                     *)
LEMMA ClaimAnnounced ==
  ASSUME IInv, PurseTyped, NEW q \in Players, NEW keys \in SUBSET FinishedBetsOf(q),
         NEW charged \in {0, SumOwed(keys)}, Pay(q, keys, charged)
  PROVE  AnnouncedRewardStep
<1> SUFFICES ASSUME NEW p \in Players
             PROVE  LET before == PendingRewardRounds(p)
                        after  == PendingRewardRounds(p)'
                        gone   == DOMAIN before \ DOMAIN after
                        total  == SumFunctionOnSet(before, gone)
                        token  == config.token_denom
                        paid   == purse'[p][token] - purse[p][token]
                    IN  /\ \A b \in DOMAIN before \cap DOMAIN after : after[b] = before[b]
                        /\ \A b \in DOMAIN after \ DOMAIN before :
                             b \in DOMAIN finished' \ DOMAIN finished
                        /\ {k \in DOMAIN claims' \ DOMAIN claims : k[2] = p}
                             = {<<b, p>> : b \in gone}
                        /\ \A b \in gone : claims'[<<b, p>>] = MyPendingRewardRound(b, p)
                        /\ IF gone = {} THEN paid <= 0
                           ELSE /\ total - GamingFee(config.gaming_fee, total) <= paid
                                /\ paid <= total
                        /\ CollectWinnings(p) =>
                             total = MyPendingReward(p) /\ after = EmptyMap
  BY DEF AnnouncedRewardStep
<1> DEFINE before == PendingRewardRounds(p)
           after  == PendingRewardRounds(p)'
           gone   == DOMAIN before \ DOMAIN after
           total  == SumFunctionOnSet(before, gone)
           token  == config.token_denom
           won    == {k \in keys : Won(k)}
<1>1. Claims(q, keys) /\ keys \in SUBSET FinishedKeys /\ SumOwed(keys) \in Nat
  BY PayFacts, SumOwedType DEF FinishedBetsOf, FinishedKeys
<1>2. /\ DOMAIN before = Announced(p) /\ DOMAIN after = Announced(p)'
      /\ \A b \in Announced(p) : /\ before[b] = Owed(<<b, p>>)
                                 /\ MyPendingRewardRound(b, p) = Owed(<<b, p>>)
      /\ \A b \in Announced(p)' : after[b] = Owed(<<b, p>>)'
  <2>1. ShownAgree'
    BY ShownIsOwed, PTL
  <2> QED
    BY <2>1, ShownIsOwed DEF ShownAgree
<1>3. \A k \in DOMAIN bets' : /\ k \in DOMAIN bets /\ k \notin keys
                              /\ Won(k)' <=> Won(k)
                              /\ Owed(k)' = Owed(k)
  BY <1>1 DEF Claims, Won, Owed, BetOf
<1>4. Announced(p)' = {b \in Announced(p) : <<b, p>> \notin keys}
  BY <1>1, <1>3 DEF Announced, Claims
<1>5. gone = {b \in Announced(p) : <<b, p>> \in keys}
  BY <1>2, <1>4
<1>6. DOMAIN claims' \ DOMAIN claims = won /\ \A k \in won : claims'[k] = Owed(k)
  BY <1>1 DEF Claims, FinishedKeys, IInv, ClaimedOnce
<1>7. \A k \in won : k[2] = q /\ k = <<k[1], q>> /\ k[1] \in Announced(q)
  BY <1>1 DEF FinishedBetsOf, Announced, IInv, TypeOK
<1>8. \A b \in Announced(p) : <<b, p>> \in keys => p = q /\ <<b, p>> \in won
  BY <1>1 DEF Announced, Claims
<1>9. {k \in won : k[2] = p} = {<<b, p>> : b \in gone}
  BY <1>5, <1>7, <1>8
<1>10. /\ \A b \in DOMAIN before \cap DOMAIN after : after[b] = before[b]
       /\ DOMAIN after \subseteq DOMAIN before
       /\ \A b \in gone : claims'[<<b, p>>] = MyPendingRewardRound(b, p)
  <2>1. \A b \in Announced(p)' : <<b, p>> \in DOMAIN bets'
    BY DEF Announced
  <2> QED
    BY <1>2, <1>3, <1>4, <1>5, <1>6, <1>8, <2>1
<1>11. ASSUME gone # {}
       PROVE  /\ total - GamingFee(config.gaming_fee, total) <= purse'[p][token] - purse[p][token]
              /\ purse'[p][token] - purse[p][token] <= total
  <2> DEFINE fee == GamingFee(config.gaming_fee, charged)
             all == GamingFee(config.gaming_fee, total)
             old == purse[p][token]
  <2>1. p = q /\ {k \in won : k[2] = p} = won
    BY <1>5, <1>7, <1>8, <1>11
  <2>2. total = SumOwed(won)
    <3>1. gone \in SUBSET Announced(p)
      BY <1>5
    <3>2. total = SumOwed({<<b, p>> : b \in gone})
      BY <3>1, ShownTotal
    <3> QED
      BY <1>9, <2>1, <3>2
  <2>3. SumOwed(won) = SumOwed(keys)
    BY <1>1, WonOwesAll
  <2>4. purse' = [purse EXCEPT ![q][token] = @ + (SumOwed(won) - fee)]
    BY DEF Pay, NetFor
  <2>5. q \in Players /\ token \in Tokens /\ old \in Nat
    BY DEF PurseTyped, IInv, TypeOK, ConfigType
  <2> HIDE DEF total, won, gone, token
  <2>6. total \in Nat /\ charged \in {0, total}
    BY <1>1, <2>2, <2>3
  <2>7. fee \in Nat /\ fee <= all /\ all \in Nat
    BY <2>6, ChargeBounds
  <2> HIDE DEF fee, all
  <2>8. purse'[p][token] = old + (total - fee)
    BY <2>1, <2>2, <2>4, <2>5 DEF PurseTyped
  <2> QED
    BY <2>5, <2>6, <2>7, <2>8 DEF all
<1>12. CollectWinnings(p) => total = MyPendingReward(p) /\ after = EmptyMap
  <2> SUFFICES ASSUME CollectWinnings(p)
               PROVE  total = MyPendingReward(p) /\ after = EmptyMap
    OBVIOUS
  <2>1. after = EmptyMap
    BY BatchLeavesNothing
  <2>2. gone = DOMAIN before
    BY <2>1 DEF EmptyMap
  <2> QED
    BY <2>1, <2>2 DEF MyPendingReward, SumFunction
<1>13. ASSUME gone = {} PROVE purse'[p][token] - purse[p][token] <= 0
  <2> DEFINE fee == GamingFee(config.gaming_fee, charged)
             old == purse[p][token]
  <2>1. purse' = [purse EXCEPT ![q][token] = @ + (SumOwed(won) - fee)]
    BY DEF Pay, NetFor
  <2>2. q \in Players /\ token \in Tokens /\ old \in Nat
    BY DEF PurseTyped, IInv, TypeOK, ConfigType
  <2>3. p = q => won = {}
    BY <1>7, <1>8, <1>9, <1>13
  <2>4. won = {} => SumOwed(won) = 0
    BY SumEmpty DEF SumOwed, SumFunction
  <2>5. fee \in Nat
    BY <1>1, ChargeBounds
  <2> HIDE DEF won, fee, token
  <2>6. CASE p = q
    <3>1. purse'[p][token] = old + (0 - fee)
      BY <2>1, <2>2, <2>3, <2>4, <2>6 DEF PurseTyped
    <3> QED
      BY <2>2, <2>5, <3>1
  <2>7. CASE p # q
    <3>1. purse'[p][token] = old
      BY <2>1, <2>2, <2>7 DEF PurseTyped
    <3> QED
      BY <2>2, <3>1
  <2> QED
    BY <2>6, <2>7
<1> HIDE DEF before, after, total, won
<1> QED
  BY <1>6, <1>9, <1>10, <1>11, <1>12, <1>13 DEF gone, total, before, after

(* Every other step leaves the rewards alone or adds to them.              *)
LEMMA OthersKeepAnnounced ==
  ASSUME IInv, PurseTyped, [Next]_vars, \A q \in Players : ~Claim(q)
  PROVE  AnnouncedRewardStep
<1>1. UNCHANGED claims
  <2>1. ASSUME NEW p \in Players, NEW id \in 1..MaxBets, NEW option \in Titles,
               NEW amount \in Stakes, NEW token \in Tokens,
               BetsOn(p, id, option, amount, token)
        PROVE  UNCHANGED claims
    BY <2>1 DEF BetsOn
  <2>2. ASSUME NEW id \in Nat, Finishes(id) PROVE UNCHANGED claims
    BY <2>2 DEF Finishes
  <2> QED
    BY <2>1, <2>2, PrizeKinds
<1>2. \A p \in Players : \A b \in Announced(p) :
        b \in Announced(p)' /\ Owed(<<b, p>>)' = Owed(<<b, p>>)
  <2> SUFFICES ASSUME NEW p \in Players, NEW b \in Announced(p)
               PROVE  b \in Announced(p)' /\ Owed(<<b, p>>)' = Owed(<<b, p>>)
    OBVIOUS
  <2>1. <<b, p>> \in FinishedKeys /\ Won(<<b, p>>) /\ b \in DOMAIN finished
    BY DEF Announced, FinishedKeys
  <2>2. PrizeKept(<<b, p>>)
    BY <2>1, PrizeStep DEF PrizesKept
  <2>3. b \in DOMAIN finished'
    BY <2>1, VerdictKept
  <2> QED
    BY <2>1, <2>2, <2>3 DEF PrizeKept, Announced
<1>3. \A p \in Players : \A b \in Announced(p)' :
        b \in DOMAIN finished => b \in Announced(p)
  <2> SUFFICES ASSUME NEW p \in Players, NEW b \in Announced(p)', b \in DOMAIN finished
               PROVE  b \in Announced(p)
    OBVIOUS
  <2>1. <<b, p>> \in DOMAIN bets' /\ Won(<<b, p>>)'
    BY DEF Announced
  <2>2. b \notin DOMAIN unfinished
    BY DEF IInv, BetsPartition
  <2>3. <<b, p>> \in DOMAIN bets /\ bets'[<<b, p>>] = bets[<<b, p>>]
    BY <2>1, <2>2, FrozenStep DEF StakesFrozenStep, vars, bookVars
  <2>4. finished'[b] = finished[b]
    BY VerdictKept
  <2> QED
    BY <2>1, <2>3, <2>4 DEF Won, BetOf, Announced
<1>4. /\ ShownAgree /\ ShownAgree'
  BY ShownIsOwed, PTL
<1>5. \A p \in Players : \A t \in Tokens : purse'[p][t] - purse[p][t] <= 0
  BY PurseShrinks
<1>6. config.token_denom \in Tokens
  BY DEF IInv, TypeOK, ConfigType
<1> QED
  BY <1>1, <1>2, <1>3, <1>4, <1>5, <1>6 DEF AnnouncedRewardStep, ShownAgree, Announced, Claim

(* What a query has announced to a player stands until the player claims   *)
(* it, and the claim pays it as announced.                                 *)
THEOREM AnnouncedRewardsArePaid == Spec => AnnouncedRewardsStand
<1>1. Init => PurseTyped
  BY DaoBetsAssumption DEF Init, PurseTyped
<1>2. IInv /\ PurseTyped /\ [Next]_vars => AnnouncedRewardStep
  <2> SUFFICES ASSUME IInv, PurseTyped, [Next]_vars PROVE AnnouncedRewardStep
    OBVIOUS
  <2>1. ASSUME NEW p \in Players, Claim(p) PROVE AnnouncedRewardStep
    BY <2>1, ClaimCharges, ClaimAnnounced
  <2> QED
    BY <2>1, OthersKeepAnnounced
<1>3. IInv /\ PurseTyped /\ [Next]_vars => [AnnouncedRewardStep]_vars
  BY <1>2
<1> QED
  BY <1>1, <1>3, PurseNext, Invariance, PTL DEF Spec, AnnouncedRewardsStand

----------------------------------------------------------------------------
(* Whoever has won or is to be refunded is paid *)

(* A prize is due when its bet is finished and the stake won or is to be   *)
(* refunded.                                                               *)
PrizeDue(b, p) == <<b, p>> \in FinishedKeys /\ Won(<<b, p>>)

Refunded(b) == b \in DOMAIN finished /\ finished[b].cancelled

Paid(b, p) == <<b, p>> \in DOMAIN claims

ChargedOn(key) == IF BetOf(key).cancelled THEN 0 ELSE Owed(key)

(* The provers do not reason about ENABLED.  This says of a claim that it  *)
(* can be taken when its guards hold; it is what is left to TLC of the     *)
(* liveness properties below.                                              *)
ClaimsAreEnabled ==
  \A p \in Players, b \in 1..MaxBets :
    PrizeDue(b, p) /\ CanPay(p, {<<b, p>>}, ChargedOn(<<b, p>>))
      => ENABLED <<CollectWinningsBet(p, b)>>_vars

(* The conditions of WinnersCanClaim: whenever the users contract lists    *)
(* the game it takes the experience, and the fee is below one.             *)
PrizesPayable ==
  registered =>
    \A k \in FinishedKeys : Won(k) =>
      \/ BetOf(k).cancelled
      \/ /\ config.gaming_fee < FeeScale
         /\ CanAward(k[2], Experience(Owed(k), config.exp_per_denom_won))

(* The guards of the claim of one bet, from those of any claim. *)
LEMMA OneClaimIsTaken ==
  ASSUME IInv, ClaimsAreTaken, NEW p \in Players, NEW b, PrizeDue(b, p),
         Refunded(b) \/ (registered /\ PrizesPayable)
  PROVE  CanPay(p, {<<b, p>>}, ChargedOn(<<b, p>>))
<1> DEFINE k == <<b, p>>
<1>1. /\ k \in FinishedKeys /\ Won(k) /\ k[1] = b /\ k[2] = p /\ BetOf(k) = finished[b]
      /\ Owed(k) \in Nat /\ Owed(k) > 0
  BY OwedType DEF PrizeDue, FinishedKeys, BetOf
<1>2. {k} \in SUBSET FinishedBetsOf(p)
  BY <1>1 DEF FinishedBetsOf, FinishedKeys
<1>3. SumOwed({k}) = Owed(k) /\ ChargedOn(k) \in {0, SumOwed({k})}
  BY <1>1, SumOwedSingle DEF ChargedOn
<1>4. ChargedOn(k) > 0 =>
        /\ config.gaming_fee < FeeScale
        /\ CanAward(p, Experience(ChargedOn(k), config.exp_per_denom_won))
  BY <1>1 DEF ChargedOn, Refunded, PrizesPayable
<1> QED
  BY <1>1, <1>2, <1>3, <1>4 DEF ClaimsAreTaken

(* The same of every finished bet, and of all those of a player at once.   *)
GuardsEnableClaims ==
  /\ \A k \in FinishedKeys :
       Won(k) /\ CanPay(k[2], {k}, ChargedOn(k)) => ENABLED CollectWinningsBet(k[2], k[1])
  /\ \A p \in Players :
       LET keys           == FinishedBetsOf(p)
           winnings       == SumOwed(keys)
           commissionable == SumOwed({k \in keys : ~BetOf(k).cancelled})
       IN  /\ winnings > 0
           /\ CanPay(p, keys, IF commissionable > 0 THEN winnings ELSE 0)
           => ENABLED CollectWinnings(p)

(* WinnersCanClaim: nothing any player or owner does leaves a stake that   *)
(* won in a state its claim refuses, on its own or with the player's other *)
(* stakes.                                                                 *)
THEOREM WinnersCanAlwaysClaim ==
  OneToken => ([]GuardsEnableClaims => (Spec => []WinnersCanClaim))
<1> SUFFICES ASSUME OneToken PROVE []GuardsEnableClaims => (Spec => []WinnersCanClaim)
  OBVIOUS
<1>1. Spec => []ClaimsAreTaken
  BY ClaimsStayPossible
<1>2. ASSUME IInv, ClaimsAreTaken, GuardsEnableClaims PROVE PendingIsCollectable
  <2> SUFFICES ASSUME NEW p \in Players, MyPendingReward(p) > 0,
                      config.gaming_fee < FeeScale,
                      CanAward(p, Experience(MyPendingReward(p), config.exp_per_denom_won))
               PROVE  ENABLED CollectWinnings(p)
    BY DEF PendingIsCollectable
  <2> DEFINE keys           == FinishedBetsOf(p)
             winnings       == SumOwed(keys)
             commissionable == SumOwed({k \in keys : ~BetOf(k).cancelled})
             charged        == IF commissionable > 0 THEN winnings ELSE 0
  <2>1. winnings = MyPendingReward(p) /\ winnings > 0 /\ charged \in {0, winnings}
    BY <1>2, PendingIsOwed
  <2>2. CanPay(p, keys, charged)
    BY <1>2, <2>1 DEF ClaimsAreTaken
  <2> QED
    BY <1>2, <2>1, <2>2 DEF GuardsEnableClaims
<1>3. ASSUME IInv, ClaimsAreTaken, GuardsEnableClaims,
             NEW k \in DOMAIN bets, k[1] \in DOMAIN finished, Won(k),
             \/ BetOf(k).cancelled
             \/ /\ config.gaming_fee < FeeScale
                /\ CanAward(k[2], Experience(Owed(k), config.exp_per_denom_won))
      PROVE  ENABLED CollectWinningsBet(k[2], k[1])
  <2>1. k \in FinishedKeys /\ k = <<k[1], k[2]>> /\ k[2] \in Players
    BY <1>3 DEF FinishedKeys, IInv, TypeOK
  <2>2. CanPay(k[2], {k}, ChargedOn(k))
    <3>1. {k} \in SUBSET FinishedBetsOf(k[2])
      BY <2>1, <1>3 DEF FinishedBetsOf
    <3>2. SumOwed({k}) = Owed(k) /\ Owed(k) > 0 /\ ChargedOn(k) \in {0, SumOwed({k})}
      BY <1>3, <2>1, SumOwedSingle, OwedType DEF ChargedOn
    <3> QED
      BY <1>3, <2>1, <3>1, <3>2 DEF ClaimsAreTaken, ChargedOn
  <2> QED
    BY <1>3, <2>1, <2>2 DEF GuardsEnableClaims
<1>4. IInv /\ ClaimsAreTaken /\ GuardsEnableClaims => WinnersCanClaim
  BY <1>2, <1>3 DEF WinnersCanClaim
<1> QED
  BY <1>1, <1>4, Invariance, PTL DEF Spec

(* A prize that is due stays due until it is paid, and the claim of its    *)
(* bet pays it.                                                            *)
LEMMA PrizeStaysDue ==
  ASSUME IInv, [Next]_vars, NEW p \in Players, NEW b, PrizeDue(b, p)
  PROVE  /\ PrizeDue(b, p)' \/ Paid(b, p)'
         /\ CollectWinningsBet(p, b) => Paid(b, p)'
<1> DEFINE k == <<b, p>>
<1>1. k \in FinishedKeys /\ Won(k) /\ k[1] = b /\ b \in DOMAIN finished
  BY DEF PrizeDue, FinishedKeys
<1>2. b \in DOMAIN finished'
  BY <1>1, VerdictKept
<1>3. PrizeKept(k)
  BY <1>1, PrizeStep DEF PrizesKept
<1>4. PrizeDue(b, p)' \/ Paid(b, p)'
  BY <1>1, <1>2, <1>3 DEF PrizeKept, PrizeDue, Paid, FinishedKeys
<1>5. ASSUME CollectWinningsBet(p, b) PROVE Paid(b, p)'
  <2>1. k \in FinishedBetsOf(p) /\ \E charged \in Nat : Pay(p, {k}, charged)
    BY <1>5, CollectBetIsPay
  <2>2. Claims(p, {k})
    BY <2>1, PayFacts
  <2> QED
    BY <1>1, <2>2 DEF Claims, Paid
<1> QED
  BY <1>4, <1>5

(* Fairness, as it is used for one player and one bet *)
LEMMA PlayerAsks ==
  ASSUME NEW p \in Players, NEW b \in 1..MaxBets
  PROVE  FairSpec => Spec /\ KeepsAsking(p, b)
<1>1. FairSpec => Spec /\ \A q \in Players, i \in 1..MaxBets : KeepsAsking(q, i)
  BY DEF FairSpec
<1>2. (\A q \in Players, i \in 1..MaxBets : KeepsAsking(q, i)) => KeepsAsking(p, b)
  OBVIOUS
<1> QED
  BY <1>1, <1>2, PTL

(* A stake on a cancelled bet is refunded to whoever keeps asking for it,  *)
(* whatever the owner does and whether or not the users contract lists the *)
(* game.                                                                   *)
THEOREM RefundsArePaid ==
  OneToken =>
    ([]ClaimsAreEnabled =>
       (FairSpec => \A p \in Players, b \in 1..MaxBets :
                      PrizeDue(b, p) /\ Refunded(b) ~> Paid(b, p)))
<1> SUFFICES ASSUME OneToken
             PROVE  []ClaimsAreEnabled =>
                      (FairSpec => \A p \in Players, b \in 1..MaxBets :
                                     PrizeDue(b, p) /\ Refunded(b) ~> Paid(b, p))
  OBVIOUS
<1>1. Spec => []ClaimsAreTaken
  BY ClaimsStayPossible
<1>2. ASSUME NEW p \in Players, NEW b \in 1..MaxBets
      PROVE  []ClaimsAreEnabled /\ FairSpec
               => (PrizeDue(b, p) /\ Refunded(b) ~> Paid(b, p))
  <2>1. IInv /\ ClaimsAreTaken /\ ClaimsAreEnabled /\ PrizeDue(b, p) /\ Refunded(b)
          => ENABLED <<CollectWinningsBet(p, b)>>_vars
    BY OneClaimIsTaken DEF ClaimsAreEnabled
  <2>2. IInv /\ [Next]_vars /\ PrizeDue(b, p) => PrizeDue(b, p)' \/ Paid(b, p)'
    BY PrizeStaysDue
  <2>3. IInv /\ [Next]_vars /\ Refunded(b) => Refunded(b)'
    BY VerdictKept DEF Refunded
  <2>4. IInv /\ [Next]_vars /\ PrizeDue(b, p) /\ <<CollectWinningsBet(p, b)>>_vars
          => Paid(b, p)'
    BY PrizeStaysDue
  <2> QED
    BY <1>1, <2>1, <2>2, <2>3, <2>4, PlayerAsks, Invariance, PTL DEF Spec, KeepsAsking
<1> QED
  BY <1>2

(* And every stake that won is paid, unless the users contract stops       *)
(* listing the game for ever.                                              *)
THEOREM WinnersGetPaid ==
  OneToken =>
    ([]ClaimsAreEnabled /\ []PrizesPayable => (FairSpec => WinnersArePaid))
<1> SUFFICES ASSUME OneToken
             PROVE  []ClaimsAreEnabled /\ []PrizesPayable => (FairSpec => WinnersArePaid)
  OBVIOUS
<1>1. Spec => []ClaimsAreTaken
  BY ClaimsStayPossible
<1>2. ASSUME NEW p \in Players, NEW b \in 1..MaxBets
      PROVE  []ClaimsAreEnabled /\ []PrizesPayable /\ FairSpec
               => \/ (b \in DOMAIN finished /\ <<b, p>> \in DOMAIN bets /\ Won(<<b, p>>))
                       ~> <<b, p>> \in DOMAIN claims
                  \/ <>[]~registered /\ [](b \in DOMAIN finished => ~finished[b].cancelled)
  <2> DEFINE Decided == b \in DOMAIN finished /\ ~finished[b].cancelled
  <2>1. IInv /\ ClaimsAreTaken /\ ClaimsAreEnabled /\ PrizesPayable
            /\ PrizeDue(b, p) /\ (registered \/ Refunded(b))
          => ENABLED <<CollectWinningsBet(p, b)>>_vars
    BY OneClaimIsTaken DEF ClaimsAreEnabled
  <2>2. IInv /\ [Next]_vars /\ PrizeDue(b, p) => PrizeDue(b, p)' \/ Paid(b, p)'
    BY PrizeStaysDue
  <2>3. IInv /\ [Next]_vars => /\ Refunded(b) => Refunded(b)'
                               /\ Decided => Decided'
    BY VerdictKept DEF Refunded
  <2>4. IInv /\ [Next]_vars /\ PrizeDue(b, p) /\ <<CollectWinningsBet(p, b)>>_vars
          => Paid(b, p)'
    BY PrizeStaysDue
  <2>5. PrizeDue(b, p) => Refunded(b) \/ Decided
    BY DEF PrizeDue, FinishedKeys, Refunded
  <2>6. ~(Refunded(b) /\ Decided)
    BY DEF Refunded
  <2>7. /\ b \in DOMAIN finished /\ <<b, p>> \in DOMAIN bets /\ Won(<<b, p>>)
             => PrizeDue(b, p)
        /\ Paid(b, p) => <<b, p>> \in DOMAIN claims
        /\ ~Refunded(b) => (b \in DOMAIN finished => ~finished[b].cancelled)
    BY DEF PrizeDue, FinishedKeys, Paid, Refunded
  <2> HIDE DEF Decided
  <2> QED
    BY <1>1, <2>1, <2>2, <2>3, <2>4, <2>5, <2>6, <2>7, PlayerAsks, Invariance, PTL
       DEF Spec, KeepsAsking
<1> QED
  BY <1>2 DEF WinnersArePaid

----------------------------------------------------------------------------
(* The escrow a bet is.  EscrowFacts is what is proved about Escrow, for   *)
(* the pots of the bets.                                                   *)
BetIds == 1..MaxBets

EscrowFacts == INSTANCE EscrowProofs WITH Pots <- BetIds, pots <- BetPots

HeldFor(b) == IF b < nextBetId THEN Pool(BetInfoOf(b)) - ClaimedFrom(b) ELSE 0

OwedTo(b, p) == IF <<b, p>> \in DOMAIN bets THEN Due[<<b, p>>] ELSE 0

PotsAre ==
  BetPots = [b \in 1..MaxBets |->
               [stage |-> IF b \in DOMAIN finished THEN "settled" ELSE "open",
                held  |-> HeldFor(b),
                owed  |-> [p \in Players |-> OwedTo(b, p)]]]

(* The refinement mapping, in terms of the dues. *)
LEMMA BetPotsAre == PotsAre
<1>1. \A b \in 1..MaxBets, p \in Players :
        OwedTo(b, p) = IF <<b, p>> \notin DOMAIN bets THEN 0
                       ELSE IF b \in DOMAIN finished THEN Owed(<<b, p>>)
                       ELSE bets[<<b, p>>].amount
  BY DEF OwedTo, Due
<1> QED
  BY <1>1 DEF PotsAre, BetPots, HeldFor

(* What a bet was paid and what it is still owed never exceed its pool. *)
BetsCovered ==
  \A b \in DOMAIN finished :
    ClaimedFrom(b) + SumFunctionOnSet(Due, StakesOnBet(b)) <= Pool(finished[b])

ClaimsOn(b) == {k \in DOMAIN claims : k[1] = b}

(* What was claimed of a bet is a sum over finitely many claims, and       *)
(* nothing while the bet is not finished.                                  *)
LEMMA ClaimedFacts ==
  ASSUME IInv, NEW b
  PROVE  /\ IsFiniteSet(ClaimsOn(b)) /\ \A k \in ClaimsOn(b) : claims[k] \in Nat
         /\ ClaimedFrom(b) = SumFunctionOnSet(claims, ClaimsOn(b))
         /\ ClaimedFrom(b) \in Nat
         /\ b \notin DOMAIN finished => ClaimedFrom(b) = 0
<1>1. /\ ClaimsOn(b) \subseteq DOMAIN claims /\ IsFiniteSet(DOMAIN claims)
      /\ \A k \in DOMAIN claims : claims[k] \in Nat /\ k[1] \in DOMAIN finished
  BY DEF IInv, TypeOK, BooksFinite, ClaimedOnce, ClaimsOn
<1>2. IsFiniteSet(ClaimsOn(b)) /\ \A k \in ClaimsOn(b) : claims[k] \in Nat
  BY <1>1, FS_Subset
<1>3. ClaimedFrom(b) = SumFunctionOnSet(claims, ClaimsOn(b))
  BY DEF ClaimedFrom, ClaimsOn
<1>4. SumFunctionOnSet(claims, ClaimsOn(b)) \in Nat
  BY <1>2, SumType
<1>5. b \notin DOMAIN finished => ClaimsOn(b) = {}
  BY <1>1 DEF ClaimsOn
<1> QED
  BY <1>2, <1>3, <1>4, <1>5, SumEmpty

(* The stakes on one bet are finitely many and their dues have a sum. *)
LEMMA DueOnBet ==
  ASSUME IInv, NEW b
  PROVE  /\ StakesOnBet(b) \in SUBSET DOMAIN bets /\ IsFiniteSet(StakesOnBet(b))
         /\ \A k \in StakesOnBet(b) : Due[k] \in Nat /\ k = <<b, k[2]>> /\ k[2] \in Players
         /\ SumFunctionOnSet(Due, StakesOnBet(b)) \in Nat
<1>1. StakesOnBet(b) \in SUBSET DOMAIN bets
  BY DEF StakesOnBet
<1>2. IsFiniteSet(StakesOnBet(b)) /\ \A k \in StakesOnBet(b) : Due[k] \in Nat
  BY <1>1, DueFacts, FS_Subset
<1> QED
  BY <1>1, <1>2, SumType, StakeFacts DEF StakesOnBet

(* What a pot owes in all is what the stakes on the bet are due. *)
LEMMA TotalOwedIs ==
  IInv => \A b : SumFunctionOnSet([p \in Players |-> OwedTo(b, p)], Players)
                   = SumFunctionOnSet(Due, StakesOnBet(b))
<1> SUFFICES ASSUME IInv, NEW b
             PROVE  SumFunctionOnSet([p \in Players |-> OwedTo(b, p)], Players)
                      = SumFunctionOnSet(Due, StakesOnBet(b))
  OBVIOUS
<1> USE DaoBetsAssumption
<1> DEFINE S == Players
           T == {p \in Players : <<b, p>> \in DOMAIN bets}
           g == [p \in Players |-> OwedTo(b, p)]
           h == [p \in T |-> <<b, p>>]
           f == Due
<1>1. /\ IsFiniteSet(S) /\ T \in SUBSET S
      /\ h \in [T -> DOMAIN f]
      /\ \A p \in T : g[p] = f[h[p]] /\ f[h[p]] \in Nat
      /\ \A p \in S \ T : g[p] = 0
  BY DueFacts DEF OwedTo, Due
<1>2. ASSUME NEW p \in T, NEW q \in T, h[p] = h[q] PROVE p = q
  BY <1>2
<1>3. {h[p] : p \in T} = StakesOnBet(b)
  <2>1. ASSUME NEW k \in StakesOnBet(b) PROVE k[2] \in T /\ h[k[2]] = k
    BY DueOnBet
  <2>2. ASSUME NEW p \in T PROVE h[p] \in StakesOnBet(b)
    BY DEF StakesOnBet
  <2> HIDE DEF h, T
  <2> QED
    BY <2>1, <2>2
<1> HIDE DEF S, T, g, h, f
<1>4. IsFiniteSet(T)
  BY <1>1, FS_Subset
<1>5. SumFunctionOnSet(g, S) = SumFunctionOnSet(g, T)
  <2>1. \A p \in T : g[p] \in Nat
    BY <1>1
  <2> QED
    BY <1>1, <2>1, SumSupport
<1>6. SumFunctionOnSet(g, T) = SumFunctionOnSet(f, {h[p] : p \in T})
  <2>1. \A p \in T : f[h[p]] \in Nat /\ g[p] = f[h[p]]
    BY <1>1
  <2>2. h \in [T -> DOMAIN f] /\ \A p, q \in T : h[p] = h[q] => p = q
    BY <1>1, <1>2
  <2> QED
    BY <1>4, <2>1, <2>2, SumReindex
<1> QED
  BY <1>3, <1>5, <1>6 DEF g, S, f

(* A bet that is not finished has been paid nothing, and a finished one no *)
(* more than its pool.                                                     *)
LEMMA HeldIsNat ==
  ASSUME IInv, BetsCovered, NEW b \in 1..MaxBets
  PROVE  /\ HeldFor(b) \in Nat
         /\ b \in DOMAIN unfinished => HeldFor(b) = Pool(unfinished[b])
         /\ b \in DOMAIN finished => HeldFor(b) = Pool(finished[b]) - ClaimedFrom(b)
<1>1. b < nextBetId => b \in DOMAIN unfinished \cup DOMAIN finished
  <2>1. b < nextBetId => b \in 1..(nextBetId - 1)
    BY DEF IInv, TypeOK
  <2> QED
    BY <2>1 DEF IInv, BetsPartition
<1>2. CASE b \in DOMAIN unfinished
  <2>1. Pool(unfinished[b]) \in Nat
    BY <1>2, BetFacts, SumType DEF Pool, SumFunction
  <2>2. ClaimedFrom(b) = 0 /\ b < nextBetId /\ b \notin DOMAIN finished
    BY <1>2, BetFacts, ClaimedFacts
  <2> QED
    BY <1>2, <2>1, <2>2 DEF HeldFor, BetInfoOf
<1>3. CASE b \in DOMAIN finished
  <2>1. b < nextBetId /\ b \notin DOMAIN unfinished
    BY <1>3, BetFacts
  <2>2. /\ Pool(finished[b]) \in Nat /\ ClaimedFrom(b) \in Nat
        /\ SumFunctionOnSet(Due, StakesOnBet(b)) \in Nat
    BY <1>3, PoolType, ClaimedFacts, DueOnBet
  <2>3. ClaimedFrom(b) + SumFunctionOnSet(Due, StakesOnBet(b)) <= Pool(finished[b])
    BY <1>3 DEF BetsCovered
  <2> QED
    BY <1>3, <2>1, <2>2, <2>3 DEF HeldFor, BetInfoOf
<1> QED
  BY <1>1, <1>2, <1>3 DEF HeldFor

(* The pots of the bets are pots. *)
LEMMA PotsTyped ==
  IInv /\ BetsCovered => BetPots \in [1..MaxBets -> EscrowFacts!PotType]
<1> SUFFICES ASSUME IInv, BetsCovered
             PROVE  BetPots \in [1..MaxBets -> EscrowFacts!PotType]
  OBVIOUS
<1>1. \A b \in 1..MaxBets : HeldFor(b) \in Nat
  BY HeldIsNat
<1>2. \A b \in 1..MaxBets, p \in Players : OwedTo(b, p) \in Nat
  BY DueFacts DEF OwedTo
<1> QED
  BY <1>1, <1>2, BetPotsAre DEF PotsAre, EscrowFacts!PotType, EscrowFacts!Stages

(* One pot; and two books with the same pots. *)
LEMMA PotIs ==
  \A b \in 1..MaxBets :
    /\ BetPots[b].stage = IF b \in DOMAIN finished THEN "settled" ELSE "open"
    /\ BetPots[b].held = HeldFor(b)
    /\ \A p \in Players : BetPots[b].owed[p] = OwedTo(b, p)
BY BetPotsAre DEF PotsAre

(* A pot stays the same if its stage, its coins and its dues do. *)
LEMMA SamePot ==
  ASSUME NEW b \in 1..MaxBets,
         b \in DOMAIN finished' <=> b \in DOMAIN finished,
         HeldFor(b)' = HeldFor(b),
         \A p \in Players : OwedTo(b, p)' = OwedTo(b, p)
  PROVE  BetPots'[b] = BetPots[b]
<1>1. BetPots[b] = [stage |-> IF b \in DOMAIN finished THEN "settled" ELSE "open",
                    held  |-> HeldFor(b),
                    owed  |-> [p \in Players |-> OwedTo(b, p)]]
  BY BetPotsAre DEF PotsAre
<1>2. BetPots'[b] = [stage |-> IF b \in DOMAIN finished' THEN "settled" ELSE "open",
                     held  |-> HeldFor(b)',
                     owed  |-> [p \in Players |-> OwedTo(b, p)']]
  <2>1. PotsAre'
    BY BetPotsAre, PTL
  <2> QED
    BY <2>1 DEF PotsAre
<1>3. [p \in Players |-> OwedTo(b, p)'] = [p \in Players |-> OwedTo(b, p)]
  OBVIOUS
<1> QED
  BY <1>1, <1>2, <1>3

(* The steps of the contract, as its pots see them *)
SamePots ==
  /\ UNCHANGED <<finished, bets, claims>>
  /\ \A b \in 1..MaxBets : HeldFor(b)' = HeldFor(b)

(* What a stake is due only changes when its bet is finished or with it.   *)
LEMMA KeepsDue ==
  ASSUME NEW k \in DOMAIN bets, k \in DOMAIN bets', bets'[k] = bets[k],
         k[1] \in DOMAIN finished' <=> k[1] \in DOMAIN finished,
         k[1] \in DOMAIN finished => finished'[k[1]] = finished[k[1]]
  PROVE  Due'[k] = Due[k]
<1>1. k[1] \in DOMAIN finished => Owed(k)' = Owed(k)
  BY DEF Owed, Won, BetOf
<1> QED
  BY <1>1 DEF Due

(* A step that leaves the claims and the stakes on a bet alone *)
KeepsBet(b) ==
  /\ UNCHANGED claims
  /\ \A k : k[1] = b => /\ k \in DOMAIN bets' <=> k \in DOMAIN bets
                        /\ k \in DOMAIN bets => bets'[k] = bets[k]
  /\ b \in DOMAIN finished' <=> b \in DOMAIN finished
  /\ b \in DOMAIN finished => finished'[b] = finished[b]

(* Then nothing the pot of the bet is made of changes. *)
LEMMA KeepsBetFacts ==
  ASSUME IInv, NEW b, KeepsBet(b)
  PROVE  /\ ClaimedFrom(b)' = ClaimedFrom(b)
         /\ SumFunctionOnSet(Due, StakesOnBet(b))' = SumFunctionOnSet(Due, StakesOnBet(b))
         /\ \A p \in Players : OwedTo(b, p)' = OwedTo(b, p)
<1> DEFINE K == StakesOnBet(b)
<1>1. claims' = claims
  BY DEF KeepsBet
<1>2. ClaimedFrom(b)' = ClaimedFrom(b)
  BY <1>1, Zenon DEF ClaimedFrom
<1>3. StakesOnBet(b)' = K
  BY DEF KeepsBet, StakesOnBet
<1>4. \A k \in K : Due'[k] = Due[k]
  BY KeepsDue DEF KeepsBet, StakesOnBet
<1>5. IsFiniteSet(K) /\ \A k \in K : Due[k] \in Nat
  BY DueOnBet
<1>6. ASSUME NEW p \in Players PROVE OwedTo(b, p)' = OwedTo(b, p)
  <2>1. <<b, p>> \in DOMAIN bets' <=> <<b, p>> \in DOMAIN bets
    BY DEF KeepsBet
  <2>2. <<b, p>> \in DOMAIN bets => Due'[<<b, p>>] = Due[<<b, p>>]
    BY <1>4 DEF StakesOnBet
  <2> QED
    BY <2>1, <2>2 DEF OwedTo
<1> HIDE DEF K
<1>7. SumFunctionOnSet(Due', K) = SumFunctionOnSet(Due, K)
  BY <1>4, <1>5, SumEqual
<1> QED
  BY <1>2, <1>3, <1>6, <1>7 DEF K

(* A claim moves what the claimer's stake on a bet is owed from the dues   *)
(* to what was claimed.                                                    *)
LEMMA ClaimMoves ==
  ASSUME IInv, NEW p \in Players, NEW keys \in SUBSET FinishedKeys, Claims(p, keys),
         NEW b, <<b, p>> \in keys
  PROVE  /\ ClaimedFrom(b)' = ClaimedFrom(b) + OwedTo(b, p)
         /\ SumFunctionOnSet(Due, StakesOnBet(b)) =
              OwedTo(b, p) + SumFunctionOnSet(Due, StakesOnBet(b))'
         /\ OwedTo(b, p) \in Nat
         /\ SumFunctionOnSet(Due, StakesOnBet(b))' \in Nat
         /\ \A q \in Players : OwedTo(b, q)' = IF q = p THEN 0 ELSE OwedTo(b, q)
<1> DEFINE key == <<b, p>>
           K   == StakesOnBet(b)
           C   == ClaimsOn(b)
           owed == OwedTo(b, p)
<1>1. /\ key \in DOMAIN bets /\ b \in DOMAIN finished /\ key \in K
      /\ owed = Due[key] /\ Due[key] = Owed(key) /\ Due[key] \in Nat
  BY DueFacts DEF FinishedKeys, StakesOnBet, OwedTo
<1>2. \A k \in K : k \in keys => k = key
  BY DueOnBet DEF Claims
<1>3. StakesOnBet(b)' = K \ {key}
  BY <1>2 DEF StakesOnBet, Claims
<1>4. \A k \in K \ {key} : Due'[k] = Due[k]
  BY <1>2, KeepsDue DEF StakesOnBet, Claims
<1>5. SumFunctionOnSet(Due, StakesOnBet(b)) = owed + SumFunctionOnSet(Due, StakesOnBet(b))'
  <2>1. IsFiniteSet(K) /\ \A k \in K : Due[k] \in Nat
    BY DueOnBet
  <2> HIDE DEF K, key, owed
  <2>2. SumFunctionOnSet(Due, K) = Due[key] + SumFunctionOnSet(Due, K \ {key})
    BY <1>1, <2>1, SumRemove
  <2>3. SumFunctionOnSet(Due', K \ {key}) = SumFunctionOnSet(Due, K \ {key})
    <3>1. IsFiniteSet(K \ {key}) /\ \A k \in K \ {key} : Due[k] \in Nat
      BY <2>1, FS_Difference
    <3> QED
      BY <1>4, <3>1, SumEqual
  <2> QED
    BY <1>1, <1>3, <2>2, <2>3 DEF K
<1>6. SumFunctionOnSet(Due, StakesOnBet(b))' \in Nat
  <2>1. IsFiniteSet(K \ {key}) /\ \A k \in K \ {key} : Due[k] \in Nat
    BY DueOnBet, FS_Difference
  <2> HIDE DEF K, key
  <2>2. SumFunctionOnSet(Due', K \ {key}) \in Nat
    BY <1>4, <2>1, SumType
  <2> QED
    BY <1>3, <2>2
<1>7. ClaimedFrom(b)' = ClaimedFrom(b) + owed
  <2>1. /\ IsFiniteSet(C) /\ \A k \in C : claims[k] \in Nat
        /\ ClaimedFrom(b) = SumFunctionOnSet(claims, C)
    BY ClaimedFacts
  <2>2. ClaimedFrom(b)' = SumFunctionOnSet(claims', ClaimsOn(b)')
    BY DEF ClaimedFrom, ClaimsOn
  <2>3. key \notin C /\ key \notin DOMAIN claims
    BY <1>1, StakeFacts DEF ClaimsOn
  <2>4. \A k \in keys : k \in DOMAIN bets /\ k = <<k[1], p>> /\ k \notin DOMAIN claims
    BY StakeFacts DEF Claims, FinishedKeys
  <2>5. \A k \in C : claims'[k] = claims[k]
    BY <2>4 DEF ClaimsOn, Claims
  <2>6. CASE Won(key)
    <3>1. ClaimsOn(b)' = C \cup {key} /\ claims'[key] = owed
      <4>1. claims'[key] = owed
        BY <1>1, <2>6 DEF Claims
      <4>2. \A k : k \in ClaimsOn(b)' <=> k \in C \cup {key}
        BY <2>4, <2>6 DEF Claims, ClaimsOn
      <4> QED
        BY <4>1, <4>2
    <3> DEFINE f == claims
               g == claims'
    <3> HIDE DEF C, key, owed
    <3>2. /\ IsFiniteSet(C) /\ key \notin C /\ owed \in Nat /\ g[key] = owed
          /\ \A k \in C : f[k] \in Nat /\ g[k] = f[k]
      BY <1>1, <2>1, <2>3, <2>5, <3>1
    <3> HIDE DEF f, g
    <3>3. SumFunctionOnSet(g, C \cup {key}) = SumFunctionOnSet(f, C) + owed
      <4>1. SumFunctionOnSet(g, C) = SumFunctionOnSet(f, C)
        BY <3>2, SumEqual
      <4>2. SumFunctionOnSet(f, C) \in Nat
        BY <3>2, SumType
      <4>3. SumFunctionOnSet(g, C \cup {key}) = g[key] + SumFunctionOnSet(g, C)
        BY <3>2, SumAdd
      <4> QED
        BY <3>2, <4>1, <4>2, <4>3
    <3> QED
      BY <2>1, <2>2, <3>1, <3>3 DEF f, g
  <2>7. CASE ~Won(key)
    <3>1. owed = 0
      BY <1>1, <2>7, OwedType
    <3>2. \A k : k \in ClaimsOn(b)' <=> k \in C
      BY <2>4, <2>7 DEF Claims, ClaimsOn
    <3>3. ClaimsOn(b)' = C
      BY <3>2
    <3> HIDE DEF C, owed
    <3>4. SumFunctionOnSet(claims', C) = SumFunctionOnSet(claims, C)
      BY <2>1, <2>5, SumEqual
    <3>5. SumFunctionOnSet(claims, C) \in Nat
      BY <2>1, SumType
    <3> QED
      BY <2>1, <2>2, <3>1, <3>3, <3>4, <3>5
  <2> QED
    BY <2>6, <2>7
<1>8. ASSUME NEW q \in Players
      PROVE  OwedTo(b, q)' = IF q = p THEN 0 ELSE OwedTo(b, q)
  <2>1. CASE q = p
    BY <1>1, <2>1 DEF OwedTo, Claims
  <2>2. CASE q # p
    <3>1. <<b, q>> \notin keys
      BY <2>2 DEF Claims
    <3>2. <<b, q>> \in DOMAIN bets' <=> <<b, q>> \in DOMAIN bets
      BY <3>1 DEF Claims
    <3>3. <<b, q>> \in DOMAIN bets => Due'[<<b, q>>] = Due[<<b, q>>]
      BY <1>4, <2>2 DEF StakesOnBet
    <3> QED
      BY <2>2, <3>2, <3>3 DEF OwedTo
  <2> QED
    BY <2>1, <2>2
<1> QED
  BY <1>1, <1>5, <1>6, <1>7, <1>8

(* and leaves a bet alone that is not among those claimed. *)
LEMMA ClaimKeeps ==
  ASSUME IInv, NEW p \in Players, NEW keys \in SUBSET FinishedKeys, Claims(p, keys),
         NEW b, <<b, p>> \notin keys
  PROVE  /\ ClaimedFrom(b)' = ClaimedFrom(b)
         /\ SumFunctionOnSet(Due, StakesOnBet(b))' = SumFunctionOnSet(Due, StakesOnBet(b))
         /\ \A q \in Players : OwedTo(b, q)' = OwedTo(b, q)
<1> DEFINE K == StakesOnBet(b)
           C == ClaimsOn(b)
<1>1. \A k \in keys : k \in DOMAIN bets /\ k = <<k[1], p>> /\ k \notin DOMAIN claims
  BY StakeFacts DEF Claims, FinishedKeys
<1>2. \A k \in keys : k[1] # b
  BY <1>1
<1>3. /\ StakesOnBet(b)' = K /\ ClaimsOn(b)' = C
      /\ \A k \in K : k \in DOMAIN bets' /\ bets'[k] = bets[k]
      /\ \A k \in C : claims'[k] = claims[k]
  BY <1>1, <1>2 DEF StakesOnBet, ClaimsOn, Claims
<1>4. \A k \in K : Due'[k] = Due[k]
  BY <1>3, KeepsDue DEF StakesOnBet, Claims
<1>5. /\ IsFiniteSet(K) /\ \A k \in K : Due[k] \in Nat
      /\ IsFiniteSet(C) /\ \A k \in C : claims[k] \in Nat
      /\ ClaimedFrom(b) = SumFunctionOnSet(claims, C)
  BY DueOnBet, ClaimedFacts
<1>6. ClaimedFrom(b)' = SumFunctionOnSet(claims', ClaimsOn(b)')
  BY DEF ClaimedFrom, ClaimsOn
<1>7. ASSUME NEW q \in Players PROVE OwedTo(b, q)' = OwedTo(b, q)
  <2>1. <<b, q>> \in DOMAIN bets' <=> <<b, q>> \in DOMAIN bets
    BY <1>2 DEF Claims
  <2>2. <<b, q>> \in DOMAIN bets => Due'[<<b, q>>] = Due[<<b, q>>]
    BY <1>4 DEF StakesOnBet
  <2> QED
    BY <2>1, <2>2 DEF OwedTo
<1> HIDE DEF K, C
<1>8. SumFunctionOnSet(claims', C) = SumFunctionOnSet(claims, C)
  BY <1>3, <1>5, SumEqual
<1>9. SumFunctionOnSet(Due', K) = SumFunctionOnSet(Due, K)
  BY <1>4, <1>5, SumEqual
<1> QED
  BY <1>3, <1>5, <1>6, <1>7, <1>8, <1>9 DEF K

(* The steps of the contract, as its pots see them *)
LEMMA KeepsHeld ==
  ASSUME IInv, NEW b \in 1..MaxBets, ClaimedFrom(b)' = ClaimedFrom(b),
         UNCHANGED <<nextBetId, finished>>,
         DOMAIN unfinished' = DOMAIN unfinished,
         b \in DOMAIN unfinished =>
           unfinished'[b].current_bet_amounts = unfinished[b].current_bet_amounts
  PROVE  HeldFor(b)' = HeldFor(b)
<1>1. CASE b \in DOMAIN unfinished
  BY <1>1 DEF HeldFor, BetInfoOf, Pool
<1>2. CASE b \notin DOMAIN unfinished
  BY <1>2 DEF HeldFor, BetInfoOf, Pool
<1> QED
  BY <1>1, <1>2

(* The pot of a bet that is created is still empty. *)
LEMMA CreateBetHeld ==
  ASSUME IInv, NEW sender \in Accounts, NEW options \in OptionSets,
         NEW end \in EndTimes, CreateBet(sender, options, end)
  PROVE  SamePots
<1> USE DaoBetsAssumption
<1>1. /\ UNCHANGED <<finished, bets, claims>> /\ nextBetId' = nextBetId + 1
      /\ nextBetId \in Nat
      /\ DOMAIN unfinished' = DOMAIN unfinished \cup {nextBetId}
      /\ unfinished'[nextBetId].current_bet_amounts = [o \in options |-> 0]
      /\ \A b \in DOMAIN unfinished : b # nextBetId => unfinished'[b] = unfinished[b]
  BY DEF CreateBet, Save, SaveAll, IInv, TypeOK
<1>2. \A b : ClaimedFrom(b)' = ClaimedFrom(b)
  BY <1>1, Zenon DEF ClaimedFrom
<1> SUFFICES ASSUME NEW b \in 1..MaxBets PROVE HeldFor(b)' = HeldFor(b)
  BY <1>1 DEF SamePots
<1>3. CASE b = nextBetId
  <2>1. DOMAIN finished' = DOMAIN finished /\ b \notin DOMAIN finished
    BY <1>1, <1>3, BetFacts
  <2>2. ClaimedFrom(b) = 0
    BY <2>1, ClaimedFacts
  <2> DEFINE none == [o \in options |-> 0]
  <2>3. SumFunctionOnSet(none, DOMAIN none) = 0
    <3>1. IsFiniteSet(DOMAIN none) /\ \A o \in DOMAIN none : none[o] = 0
      OBVIOUS
    <3> HIDE DEF none
    <3> QED
      BY <3>1, SumZero
  <2>4. BetInfoOf(b)'.current_bet_amounts = none
    BY <1>1, <1>3 DEF BetInfoOf
  <2> HIDE DEF none
  <2>5. Pool(BetInfoOf(b)') = 0
    BY <2>3, <2>4 DEF Pool, SumFunction
  <2>6. HeldFor(b) = 0
    BY <1>1, <1>3 DEF HeldFor
  <2>7. HeldFor(b)' = 0
    BY <1>1, <1>2, <1>3, <2>2, <2>5 DEF HeldFor
  <2> QED
    BY <2>6, <2>7
<1>4. CASE b # nextBetId
  <2>1. BetInfoOf(b)' = BetInfoOf(b)
    BY <1>1, <1>4 DEF BetInfoOf
  <2>2. b < nextBetId' <=> b < nextBetId
    BY <1>1, <1>4
  <2> QED
    BY <1>2, <2>1, <2>2 DEF HeldFor
<1> QED
  BY <1>3, <1>4

(* Every step leaves the pots alone, bets, finishes a bet or claims. *)
LEMMA EscrowKinds ==
  ASSUME IInv, [Next]_vars
  PROVE  \/ SamePots
         \/ \E p \in Players, id \in 1..MaxBets, option \in Titles, amount \in Stakes,
               token \in Tokens : BetsOn(p, id, option, amount, token)
         \/ \E id \in Nat : Finishes(id)
         \/ \E p \in Players, keys \in SUBSET FinishedKeys : Claims(p, keys)
<1> USE DaoBetsAssumption
<1>1. ASSUME UNCHANGED bookVars PROVE SamePots
  <2>1. \A b : ClaimedFrom(b)' = ClaimedFrom(b)
    BY <1>1, Zenon DEF ClaimedFrom, bookVars
  <2> QED
    BY <1>1, <2>1, KeepsHeld DEF SamePots, bookVars
<1>2. CASE PlaceBet
  <2>1. PICK p \in Players, id \in 1..MaxBets, option \in Titles, amount \in Stakes,
             token \in Tokens : BetOn(p, id, option, amount, token)
    BY <1>2 DEF PlaceBet
  <2>2. BetsOn(p, id, option, amount, token)
    BY <2>1, BetOnFacts
  <2> QED
    BY <2>2
<1>3. ASSUME NEW sender \in Accounts, ManageBets(sender)
      PROVE  SamePots \/ \E id \in Nat : Finishes(id)
  <2>1. CASE \E options \in OptionSets, end \in EndTimes : CreateBet(sender, options, end)
    BY <2>1, CreateBetHeld
  <2>2. ASSUME NEW id \in 1..MaxBets, NEW end \in EndTimes, ModifyBet(sender, id, end)
        PROVE  SamePots
    <3>1. /\ UNCHANGED <<nextBetId, finished, bets, claims>>
          /\ DOMAIN unfinished' = DOMAIN unfinished
          /\ \A b \in DOMAIN unfinished : b # id => unfinished'[b] = unfinished[b]
          /\ id \in DOMAIN unfinished
          /\ unfinished'[id] = [unfinished[id] EXCEPT !.end_bet_timestamp = end]
      BY <2>2 DEF ModifyBet
    <3>2. PICK options \in SUBSET Titles : unfinished[id] \in BetType(options)
      BY <3>1 DEF IInv, TypeOK
    <3>3. unfinished'[id].current_bet_amounts = unfinished[id].current_bet_amounts
      BY <3>1, <3>2 DEF BetType
    <3>4. \A b : ClaimedFrom(b)' = ClaimedFrom(b)
      BY <3>1, Zenon DEF ClaimedFrom
    <3> QED
      BY <3>1, <3>3, <3>4, KeepsHeld DEF SamePots
  <2>3. CASE \E id \in 1..MaxBets, result \in Titles : CompleteBet(sender, id, result)
    BY <2>3, CompleteFacts
  <2>4. CASE \E id \in 1..MaxBets : CancelBet(sender, id)
    BY <2>4, CancelFacts
  <2> QED
    BY <1>3, <2>1, <2>2, <2>3, <2>4 DEF ManageBets
<1>4. ASSUME NEW sender \in Accounts, ManageContract(sender) PROVE SamePots
  BY <1>1, <1>4 DEF ManageContract, UpdateConfig, TransferOwnership, AcceptOwnership,
       RenounceOwnership
<1>5. ASSUME NEW p \in Players, Claim(p)
      PROVE  \E keys \in SUBSET FinishedKeys : Claims(p, keys)
  <2>1. PICK keys : Claims(p, keys)
    BY <1>5, ClaimIsPay, PayFacts
  <2> QED
    BY <2>1 DEF Claims
<1>6. CASE ChangeRegistry
  BY <1>1, <1>6 DEF ChangeRegistry
<1>7. CASE Tick
  BY <1>1, <1>7 DEF Tick
<1>8. CASE UNCHANGED vars
  BY <1>1, <1>8 DEF vars
<1> QED
  BY <1>2, <1>3, <1>4, <1>5, <1>6, <1>7, <1>8 DEF Next

(* A bet that is finished is settled within its pool, and a claim takes    *)
(* from the dues what it adds to what was claimed.                         *)
LEMMA CoveredNext ==
  ASSUME IInv, IInv', PotsMatch, BetsCovered, [Next]_vars
  PROVE  BetsCovered'
<1> USE DaoBetsAssumption
<1>1. ASSUME NEW b \in DOMAIN finished, KeepsBet(b), finished'[b] = finished[b]
      PROVE  ClaimedFrom(b)' + SumFunctionOnSet(Due, StakesOnBet(b))' <= Pool(finished'[b])
  BY <1>1, KeepsBetFacts DEF BetsCovered
<1>2. CASE SamePots
  BY <1>1, <1>2 DEF SamePots, KeepsBet, BetsCovered
<1>3. ASSUME NEW p \in Players, NEW id \in 1..MaxBets, NEW option \in Titles,
             NEW amount \in Stakes, NEW token \in Tokens,
             BetsOn(p, id, option, amount, token)
      PROVE  BetsCovered'
  <2>1. id \notin DOMAIN finished /\ finished' = finished
    BY <1>3 DEF BetsOn, IInv, BetsPartition
  <2>2. \A b \in DOMAIN finished : KeepsBet(b)
    BY <1>3, <2>1 DEF BetsOn, KeepsBet
  <2> QED
    BY <1>1, <2>1, <2>2 DEF BetsCovered
<1>4. ASSUME NEW id \in Nat, Finishes(id) PROVE BetsCovered'
  <2>1. /\ DOMAIN finished' = DOMAIN finished \cup {id} /\ id \notin DOMAIN finished
        /\ \A b \in DOMAIN finished : finished'[b] = finished[b] /\ KeepsBet(b)
    BY <1>4 DEF Finishes, KeepsBet
  <2>2. /\ Pool(finished'[id]) = Pool(unfinished[id])
        /\ StakesOnBet(id)' = StakesOnBet(id)
    BY <1>4 DEF Finishes, Pool, StakesOnBet
  <2>3. ClaimedFrom(id)' = 0
    <3>1. claims' = claims
      BY <1>4 DEF Finishes
    <3>2. ClaimedFrom(id)' = ClaimedFrom(id)
      BY <3>1, Zenon DEF ClaimedFrom
    <3> QED
      BY <2>1, <3>2, ClaimedFacts
  <2>4. /\ SumFunctionOnSet(Due', StakesOnBet(id)) \in Nat
        /\ SumFunctionOnSet(Due', StakesOnBet(id)) <= Pool(unfinished[id])
    BY <1>4, Settlement
  <2> QED
    BY <1>1, <2>1, <2>2, <2>3, <2>4 DEF BetsCovered
<1>5. ASSUME NEW p \in Players, NEW keys \in SUBSET FinishedKeys, Claims(p, keys)
      PROVE  BetsCovered'
  <2>1. finished' = finished
    BY <1>5 DEF Claims
  <2> SUFFICES ASSUME NEW b \in DOMAIN finished
               PROVE  ClaimedFrom(b)' + SumFunctionOnSet(Due, StakesOnBet(b))'
                        <= Pool(finished[b])
    BY <2>1 DEF BetsCovered
  <2>2. /\ ClaimedFrom(b) + SumFunctionOnSet(Due, StakesOnBet(b)) <= Pool(finished[b])
        /\ ClaimedFrom(b) \in Nat /\ Pool(finished[b]) \in Nat
    BY ClaimedFacts, PoolType DEF BetsCovered
  <2>3. CASE <<b, p>> \in keys
    BY <1>5, <2>2, <2>3, ClaimMoves
  <2>4. CASE <<b, p>> \notin keys
    BY <1>5, <2>2, <2>4, ClaimKeeps
  <2> QED
    BY <2>3, <2>4
<1> QED
  BY <1>2, <1>3, <1>4, <1>5, EscrowKinds

(* There is no finished bet at first. *)
LEMMA CoveredInit == Init => BetsCovered
BY DEF Init, EmptyMap, BetsCovered

(* No bet, no coin, no due. *)
LEMMA EscrowInit == Init => BetEscrow!Init
<1> SUFFICES ASSUME Init PROVE BetEscrow!Init
  OBVIOUS
<1>1. /\ DOMAIN finished = {} /\ DOMAIN bets = {} /\ nextBetId = 1
  BY DEF Init, EmptyMap, FirstBetId
<1>2. \A b \in 1..MaxBets : HeldFor(b) = 0 /\ \A p \in Players : OwedTo(b, p) = 0
  BY <1>1, DaoBetsAssumption DEF HeldFor, OwedTo
<1> QED
  BY <1>1, <1>2, BetPotsAre DEF PotsAre, BetEscrow!Init, BetEscrow!NewPot

(* A bet is a deposit. *)
LEMMA BetDeposits ==
  ASSUME IInv, IInv', BetsCovered, BetsCovered', NEW p \in Players, NEW id \in 1..MaxBets,
         NEW option \in Titles, NEW amount \in Stakes, NEW token \in Tokens,
         BetsOn(p, id, option, amount, token)
  PROVE  BetEscrow!Deposit(id, p)
<1> DEFINE key == <<id, p>>
           P   == BetPots
           Q   == BetPots'
<1>1. /\ P \in [1..MaxBets -> EscrowFacts!PotType] /\ Q \in [1..MaxBets -> EscrowFacts!PotType]
  <2>1. P \in [1..MaxBets -> EscrowFacts!PotType]
    BY PotsTyped
  <2>2. (BetPots \in [1..MaxBets -> EscrowFacts!PotType])'
    BY PotsTyped, PTL
  <2> QED
    BY <2>1, <2>2
<1>2. /\ id \in DOMAIN unfinished /\ id \in DOMAIN unfinished'
      /\ id \notin DOMAIN finished /\ finished' = finished
      /\ amount \in Nat \ {0} /\ nextBetId' = nextBetId /\ claims' = claims
  BY DaoBetsAssumption DEF BetsOn, IInv, BetsPartition
<1>3. \A b : ClaimedFrom(b)' = ClaimedFrom(b)
  BY <1>2, Zenon DEF ClaimedFrom
<1>4. \A b \in 1..MaxBets : b # id => Q[b] = P[b]
  <2> TAKE b \in 1..MaxBets
  <2> SUFFICES ASSUME b # id PROVE Q[b] = P[b]
    OBVIOUS
  <2>1. KeepsBet(b)
    BY <1>2 DEF BetsOn, KeepsBet
  <2>2. HeldFor(b)' = HeldFor(b)
    BY <1>2, <1>3, KeepsHeld DEF BetsOn
  <2> QED
    BY <1>2, <2>1, <2>2, KeepsBetFacts, SamePot
<1>5. HeldFor(id)' = HeldFor(id) + amount
  <2> DEFINE f == unfinished[id].current_bet_amounts
             g == unfinished'[id].current_bet_amounts
             S == DOMAIN f
  <2>1. /\ IsFiniteSet(S) /\ \A o \in S : f[o] \in Nat
        /\ option \in S /\ DOMAIN g = S
        /\ g[option] = f[option] + amount /\ \A o \in S \ {option} : g[o] = f[o]
    BY <1>2, BetFacts DEF BetsOn
  <2>2. /\ Pool(unfinished[id]) = SumFunctionOnSet(f, S)
        /\ Pool(unfinished'[id]) = SumFunctionOnSet(g, S)
    BY <2>1 DEF Pool, SumFunction
  <2>3. S \cup {option} = S
    BY <2>1
  <2> HIDE DEF f, g, S
  <2>4. SumFunctionOnSet(g, S \cup {option}) = SumFunctionOnSet(f, S) + amount
    <3>1. g[option] = IF option \in S THEN f[option] + amount ELSE amount
      BY <2>1
    <3>2. Raises(f, g, S, option, amount)
      BY <1>2, <2>1, <3>1 DEF Raises
    <3> QED
      BY <3>2, SumUpdate
  <2>5. HeldFor(id) = Pool(unfinished[id])
    BY <1>2, HeldIsNat
  <2>6. HeldFor(id)' = Pool(unfinished'[id])
    <3>1. ClaimedFrom(id) = 0 /\ id < nextBetId
      BY <1>2, ClaimedFacts, BetFacts
    <3>2. Pool(unfinished'[id]) \in Nat
      <4>1. Pool(unfinished[id]) \in Nat
        BY <2>5, HeldIsNat
      <4>2. SumFunctionOnSet(g, S) = SumFunctionOnSet(f, S) + amount /\ amount \in Nat
        BY <1>2, <2>3, <2>4
      <4> QED
        BY <2>2, <4>1, <4>2
    <3> QED
      BY <1>2, <1>3, <3>1, <3>2 DEF HeldFor, BetInfoOf
  <2> QED
    BY <2>2, <2>3, <2>4, <2>5, <2>6
<1>6. \A q \in Players : OwedTo(id, q)' = IF q = p THEN OwedTo(id, q) + amount
                                          ELSE OwedTo(id, q)
  <2> TAKE q \in Players
  <2>1. CASE q = p
    BY <1>2, <2>1 DEF BetsOn, OwedTo, Due
  <2>2. CASE q # p
    <3>1. <<id, q>> \in DOMAIN bets' <=> <<id, q>> \in DOMAIN bets
      BY <2>2 DEF BetsOn
    <3>2. <<id, q>> \in DOMAIN bets => bets'[<<id, q>>] = bets[<<id, q>>]
      BY <2>2 DEF BetsOn
    <3> QED
      BY <1>2, <2>2, <3>1, <3>2 DEF OwedTo, Due
  <2> QED
    BY <2>1, <2>2
<1>7. /\ P[id].stage = "open" /\ Q[id].stage = "open"
      /\ P[id].held = HeldFor(id) /\ Q[id].held = HeldFor(id)'
      /\ \A q \in Players : P[id].owed[q] = OwedTo(id, q) /\ Q[id].owed[q] = OwedTo(id, q)'
  <2>1. PotsAre'
    BY BetPotsAre, PTL
  <2> QED
    BY <1>2, <2>1, PotIs DEF PotsAre
<1>8. HeldFor(id) \in Nat
  BY HeldIsNat
<1> HIDE DEF P, Q
<1>9. Q = EscrowFacts!PaidInto(P, id, p, amount)
  <2>1. /\ P \in [BetIds -> EscrowFacts!PotType] /\ Q \in [BetIds -> EscrowFacts!PotType]
        /\ id \in BetIds /\ amount \in Nat
        /\ \A b \in BetIds : b # id => Q[b] = P[b]
    BY <1>1, <1>2, <1>4 DEF BetIds
  <2>2. /\ Q[id].stage = P[id].stage
        /\ Q[id].held = P[id].held + amount
        /\ \A q \in Players :
             Q[id].owed[q] = IF q = p THEN P[id].owed[q] + amount ELSE P[id].owed[q]
    BY <1>5, <1>6, <1>7
  <2> QED
    BY <2>1, <2>2, EscrowFacts!PaidIn
<1>10. Q[id].held - P[id].held = amount
  BY <1>2, <1>5, <1>7, <1>8
<1> QED
  BY <1>2, <1>7, <1>9, <1>10 DEF BetEscrow!Deposit, BetEscrow!PaidInto, EscrowFacts!PaidInto, P, Q

(* A bet that is finished is settled. *)
LEMMA FinishSettles ==
  ASSUME IInv, IInv', PotsMatch, BetsCovered, BetsCovered', NEW id \in Nat, Finishes(id)
  PROVE  BetEscrow!Advance
<1> DEFINE P == BetPots
           Q == BetPots'
<1>1. (BetPots \in [1..MaxBets -> EscrowFacts!PotType])'
  BY PotsTyped, PTL
<1>2. Q \in [1..MaxBets -> BetEscrow!PotType]
  BY <1>1 DEF EscrowFacts!PotType, BetEscrow!PotType, EscrowFacts!Stages, BetEscrow!Stages
<1>3. /\ claims' = claims /\ nextBetId' = nextBetId
      /\ id \in DOMAIN unfinished /\ id \notin DOMAIN finished
      /\ id \in DOMAIN finished' /\ id \notin DOMAIN unfinished'
  BY DEF Finishes
<1>4. \A b : ClaimedFrom(b)' = ClaimedFrom(b)
  BY <1>3, Zenon DEF ClaimedFrom
<1>5. ASSUME NEW b \in 1..MaxBets, b # id PROVE Q[b] = P[b]
  <2>1. KeepsBet(b)
    BY <1>3, <1>5 DEF Finishes, KeepsBet
  <2>2. /\ b \in DOMAIN unfinished' <=> b \in DOMAIN unfinished
        /\ b \in DOMAIN unfinished => unfinished'[b] = unfinished[b]
    BY <1>5 DEF Finishes
  <2>3. b < nextBetId => b \in DOMAIN unfinished \cup DOMAIN finished
    <3>1. b < nextBetId => b \in 1..(nextBetId - 1)
      BY DEF IInv, TypeOK
    <3> QED
      BY <3>1 DEF IInv, BetsPartition
  <2>4. b < nextBetId => BetInfoOf(b)' = BetInfoOf(b)
    BY <2>1, <2>2, <2>3 DEF BetInfoOf, KeepsBet
  <2>5. HeldFor(b)' = HeldFor(b)
    BY <1>3, <1>4, <2>4 DEF HeldFor
  <2> QED
    BY <2>1, <2>5, KeepsBetFacts, SamePot DEF KeepsBet
<1>6. ASSUME id \in 1..MaxBets PROVE BetEscrow!Settles(P[id], Q[id])
  <2>1. HeldFor(id) = Pool(unfinished[id]) /\ id < nextBetId
    BY <1>3, <1>6, HeldIsNat, BetFacts
  <2>2. HeldFor(id)' = Pool(unfinished[id])
    <3>1. ClaimedFrom(id) = 0 /\ Pool(unfinished[id]) \in Nat
      BY <1>3, <1>6, <2>1, ClaimedFacts, HeldIsNat
    <3>2. BetInfoOf(id)' = finished'[id]
      BY <1>3 DEF BetInfoOf
    <3>3. Pool(finished'[id]) = Pool(unfinished[id])
      BY DEF Finishes, Pool
    <3> QED
      BY <1>3, <1>4, <2>1, <3>1, <3>2, <3>3 DEF HeldFor
  <2>3. (\A b : SumFunctionOnSet([p \in Players |-> OwedTo(b, p)], Players)
                  = SumFunctionOnSet(Due, StakesOnBet(b)))'
    BY TotalOwedIs, PTL
  <2>4. SumFunctionOnSet([p \in Players |-> OwedTo(id, p)'], Players)
          = SumFunctionOnSet(Due', StakesOnBet(id))
    <3>1. StakesOnBet(id)' = StakesOnBet(id)
      BY DEF Finishes, StakesOnBet
    <3> QED
      BY <2>3, <3>1
  <2>5. SumFunctionOnSet(Due', StakesOnBet(id)) <= Pool(unfinished[id])
    BY Settlement
  <2>6. /\ P[id].stage = "open" /\ P[id].held = HeldFor(id)
    BY <1>3, <1>6, PotIs
  <2>7. /\ Q[id].stage = "settled" /\ Q[id].held = HeldFor(id)'
        /\ Q[id].owed = [p \in Players |-> OwedTo(id, p)']
    <3>1. PotsAre'
      BY BetPotsAre, PTL
    <3> QED
      BY <1>3, <1>6, <3>1 DEF PotsAre
  <2>8. BetEscrow!TotalOwed(Q[id]) <= Q[id].held
    <3>1. BetEscrow!TotalOwed(Q[id]) = SumFunctionOnSet(Q[id].owed, Players)
      BY Zenon DEF BetEscrow!TotalOwed, SumFunctionOnSet, BetEscrow!SumFunctionOnSet,
           FoldFunctionOnSet, BetEscrow!FoldFunctionOnSet, MapThenFoldSet,
           BetEscrow!MapThenFoldSet
    <3> HIDE DEF Q
    <3>2. BetEscrow!TotalOwed(Q[id]) = SumFunctionOnSet(Due', StakesOnBet(id))
      BY <2>4, <2>7, <3>1, Zenon
    <3> QED
      BY <2>2, <2>5, <2>7, <3>2
  <2> QED
    BY <2>1, <2>2, <2>6, <2>7, <2>8 DEF BetEscrow!Settles
<1> QED
  BY <1>2, <1>5, <1>6 DEF BetEscrow!Advance

(* A claim is a payment of everything the pots of its bets owe the player. *)
LEMMA ClaimPays ==
  ASSUME IInv, IInv', BetsCovered, BetsCovered', NEW p \in Players,
         NEW keys \in SUBSET FinishedKeys, Claims(p, keys)
  PROVE  BetEscrow!Pay(p)
<1> DEFINE P == BetPots
           Q == BetPots'
           X == {b \in 1..MaxBets : <<b, p>> \in keys /\ OwedTo(b, p) > 0}
<1>1. /\ P \in [1..MaxBets -> EscrowFacts!PotType] /\ Q \in [1..MaxBets -> EscrowFacts!PotType]
  <2>1. P \in [1..MaxBets -> EscrowFacts!PotType]
    BY PotsTyped
  <2>2. (BetPots \in [1..MaxBets -> EscrowFacts!PotType])'
    BY PotsTyped, PTL
  <2> QED
    BY <2>1, <2>2
<1>2. /\ finished' = finished /\ unfinished' = unfinished /\ nextBetId' = nextBetId
      /\ \A b : <<b, p>> \in keys => b \in DOMAIN finished
  BY DEF Claims, FinishedKeys
<1>3. \A b : BetInfoOf(b)' = BetInfoOf(b)
  BY <1>2 DEF BetInfoOf
<1>4. \A b \in 1..MaxBets :
        /\ Q[b].stage = IF b \in DOMAIN finished' THEN "settled" ELSE "open"
        /\ Q[b].held = HeldFor(b)'
        /\ \A q \in Players : Q[b].owed[q] = OwedTo(b, q)'
  <2>1. PotsAre'
    BY BetPotsAre, PTL
  <2> QED
    BY <2>1 DEF PotsAre
<1>5. ASSUME NEW b \in 1..MaxBets, b \notin X PROVE Q[b] = P[b]
  <2>1. /\ ClaimedFrom(b)' = ClaimedFrom(b)
        /\ \A q \in Players : OwedTo(b, q)' = OwedTo(b, q)
    <3>1. CASE <<b, p>> \in keys
      <4>1. OwedTo(b, p) = 0
        BY <1>5, <3>1, ClaimMoves
      <4>2. ClaimedFrom(b) \in Nat
        BY ClaimedFacts
      <4> QED
        BY <3>1, <4>1, <4>2, ClaimMoves
    <3>2. CASE <<b, p>> \notin keys
      BY <3>2, ClaimKeeps
    <3> QED
      BY <3>1, <3>2
  <2>2. HeldFor(b)' = HeldFor(b)
    BY <1>2, <1>3, <2>1 DEF HeldFor
  <2> QED
    BY <1>2, <2>1, <2>2, SamePot
<1>6. ASSUME NEW b \in X
      PROVE  Q[b] = EscrowFacts!PaidOutOf(P[b], p)
  <2>1. b \in 1..MaxBets /\ <<b, p>> \in keys /\ b \in DOMAIN finished
    BY <1>2
  <2>2. /\ P[b].held = HeldFor(b) /\ Q[b].held = HeldFor(b)'
        /\ Q[b].stage = P[b].stage
        /\ \A q \in Players : P[b].owed[q] = OwedTo(b, q) /\ Q[b].owed[q] = OwedTo(b, q)'
    BY <1>2, <1>4, <2>1, PotIs
  <2>3. /\ ClaimedFrom(b)' = ClaimedFrom(b) + OwedTo(b, p) /\ OwedTo(b, p) \in Nat
        /\ \A q \in Players : OwedTo(b, q)' = IF q = p THEN 0 ELSE OwedTo(b, q)
    BY <2>1, ClaimMoves
  <2>4. HeldFor(b)' = HeldFor(b) - OwedTo(b, p)
    <3>1. ClaimedFrom(b) \in Nat /\ Pool(finished[b]) \in Nat
      BY <2>1, ClaimedFacts, PoolType
    <3>2. BetInfoOf(b) = finished[b] /\ b < nextBetId
      BY <2>1, BetFacts DEF BetInfoOf
    <3> QED
      BY <1>2, <1>3, <2>3, <3>1, <3>2 DEF HeldFor
  <2>5. P[b] \in EscrowFacts!PotType /\ Q[b] \in EscrowFacts!PotType
    BY <1>1, <2>1
  <2> HIDE DEF P, Q
  <2>6. /\ Q[b].stage = P[b].stage /\ Q[b].held = P[b].held - P[b].owed[p]
        /\ \A q \in Players : Q[b].owed[q] = IF q = p THEN 0 ELSE P[b].owed[q]
    BY <2>2, <2>3, <2>4
  <2> QED
    BY <2>1, <2>5, <2>6, EscrowFacts!PaidOut
<1>7. X \in SUBSET {b \in 1..MaxBets : P[b].stage = "settled" /\ P[b].owed[p] > 0}
  BY <1>2, PotIs
<1>8. DOMAIN Q = 1..MaxBets /\ Q = [b \in 1..MaxBets |-> Q[b]]
  BY <1>1
<1> HIDE DEF P, Q, X
<1>9. Q = [b \in 1..MaxBets |->
             IF b \in X THEN EscrowFacts!PaidOutOf(P[b], p) ELSE P[b]]
  BY <1>5, <1>6, <1>8
<1> QED
  BY <1>7, <1>9 DEF BetEscrow!Pay, BetEscrow!PaidOutOf, EscrowFacts!PaidOutOf, P, Q

(* Every step of the contract is a step of the escrow, or none. *)
LEMMA EscrowStep ==
  IInv /\ IInv' /\ PotsMatch /\ BetsCovered /\ BetsCovered' /\ [Next]_vars
    => [BetEscrow!Next]_BetPots
<1> SUFFICES ASSUME IInv, IInv', PotsMatch, BetsCovered, BetsCovered', [Next]_vars
             PROVE  [BetEscrow!Next]_BetPots
  OBVIOUS
<1>1. CASE SamePots
  <2>1. \A b \in 1..MaxBets : KeepsBet(b) /\ HeldFor(b)' = HeldFor(b)
    BY <1>1 DEF SamePots, KeepsBet
  <2>2. \A b \in 1..MaxBets : BetPots'[b] = BetPots[b]
    BY <2>1, KeepsBetFacts, SamePot DEF KeepsBet
  <2>3. /\ BetPots = [b \in 1..MaxBets |-> BetPots[b]]
        /\ BetPots' = [b \in 1..MaxBets |-> BetPots'[b]]
    BY DEF BetPots
  <2> QED
    BY <2>2, <2>3
<1>2. ASSUME NEW p \in Players, NEW id \in 1..MaxBets, NEW option \in Titles,
             NEW amount \in Stakes, NEW token \in Tokens,
             BetsOn(p, id, option, amount, token)
      PROVE  BetEscrow!Next
  BY <1>2, BetDeposits DEF BetEscrow!Next
<1>3. ASSUME NEW id \in Nat, Finishes(id) PROVE BetEscrow!Next
  BY <1>3, FinishSettles DEF BetEscrow!Next
<1>4. ASSUME NEW p \in Players, NEW keys \in SUBSET FinishedKeys, Claims(p, keys)
      PROVE  BetEscrow!Next
  BY <1>4, ClaimPays DEF BetEscrow!Next
<1> QED
  BY <1>1, <1>2, <1>3, <1>4, EscrowKinds

(* The contract implements the escrow: coins enter a pot only as the stake *)
(* of a player who is then owed as much, a pot is settled for no more than *)
(* it holds, and coins leave it only as a full payment of one player's     *)
(* dues.                                                                   *)
THEOREM EscrowRefinement == Spec => ImplementsEscrow
<1>1. Init => IInv /\ PotsMatch /\ BetsCovered /\ BetEscrow!Init
  BY InitInv, PotsInit, CoveredInit, EscrowInit
<1>2. IInv /\ PotsMatch /\ BetsCovered /\ [Next]_vars
        => /\ IInv' /\ PotsMatch' /\ BetsCovered'
           /\ [BetEscrow!Next]_BetPots
  BY NextInv, PotsNext, CoveredNext, EscrowStep
<1> QED
  BY <1>1, <1>2, PTL DEF Spec, ImplementsEscrow, BetEscrow!Spec

(* So each bet is solvent by itself: what has been paid into it and not    *)
(* out again covers what it still owes, to whoever has a stake on it.      *)
THEOREM BetsNeverShort == Spec => []BetEscrow!NeverShort
<1>1. \A pot : BetEscrow!TotalOwed(pot) = EscrowFacts!TotalOwed(pot)
  BY Zenon DEF BetEscrow!TotalOwed, BetEscrow!SumFunctionOnSet,
       BetEscrow!FoldFunctionOnSet, BetEscrow!MapThenFoldSet, EscrowFacts!TotalOwed,
       EscrowFacts!SumFunctionOnSet, EscrowFacts!FoldFunctionOnSet,
       EscrowFacts!MapThenFoldSet
<1>2. BetEscrow!PotType = EscrowFacts!PotType
  BY DEF BetEscrow!PotType, BetEscrow!Stages, EscrowFacts!PotType, EscrowFacts!Stages
<1>3. BetEscrow!Init => EscrowFacts!Init
  BY DEF BetEscrow!Init, EscrowFacts!Init, BetEscrow!NewPot, EscrowFacts!NewPot, BetIds
<1>4. BetEscrow!Next => EscrowFacts!Next
  <2>1. ASSUME NEW x \in BetIds, NEW p \in Players, BetEscrow!Deposit(x, p)
        PROVE  EscrowFacts!Deposit(x, p)
    BY <2>1 DEF BetEscrow!Deposit, EscrowFacts!Deposit, BetEscrow!PaidInto,
         EscrowFacts!PaidInto
  <2>2. BetEscrow!Advance => EscrowFacts!Advance
    <3>1. \A old, new : BetEscrow!Settles(old, new) <=> EscrowFacts!Settles(old, new)
      BY <1>1, Zenon DEF BetEscrow!Settles, EscrowFacts!Settles
    <3>2. \A old, new : BetEscrow!Locks(old, new) <=> EscrowFacts!Locks(old, new)
      BY Zenon DEF BetEscrow!Locks, EscrowFacts!Locks
    <3> QED
      BY <1>2, <3>1, <3>2, Zenon DEF BetEscrow!Advance, EscrowFacts!Advance, BetIds
  <2>3. ASSUME NEW p \in Players, BetEscrow!Pay(p) PROVE EscrowFacts!Pay(p)
    BY <2>3, Zenon DEF BetEscrow!Pay, EscrowFacts!Pay, BetEscrow!PaidOutOf,
         EscrowFacts!PaidOutOf, BetIds
  <2> QED
    BY <2>1, <2>2, <2>3 DEF BetEscrow!Next, EscrowFacts!Next, BetIds
<1>5. EscrowFacts!NeverShort => BetEscrow!NeverShort
  BY <1>1, <1>2, Zenon DEF BetEscrow!NeverShort, EscrowFacts!NeverShort, BetIds
<1>6. EscrowFacts!Spec => []EscrowFacts!NeverShort
  <2>1. EscrowFacts!IsFiniteSet(Players)
    BY DaoBetsAssumption DEF IsFiniteSet, EscrowFacts!IsFiniteSet
  <2> QED
    BY <2>1, EscrowFacts!EscrowNeverShort, PTL
<1> QED
  BY <1>3, <1>4, <1>5, <1>6, EscrowRefinement, PTL
     DEF ImplementsEscrow, BetEscrow!Spec, EscrowFacts!Spec

=============================================================================
