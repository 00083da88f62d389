-------------------------- MODULE MCPredictionGame --------------------------
(***************************************************************************)
(* Constants of the runs of PredictionGame.  RatioOne is 2, so a ratio of  *)
(* 1 is one half; amounts are tens so that a 10% gaming fee is a whole     *)
(* number of coins.                                                        *)
(***************************************************************************)
EXTENDS PredictionGame, TLC

CONSTANTS p1, p2, p3, admin1, admin2, denomA, denomB, tickerA, tickerB,
          tokenX, tokenY

TwoPlayers   == {p1, p2}
ThreePlayers == {p1, p2, p3}
SymPlayers   == Permutations(Players)
Symmetric    == Permutations(Players) \cup Permutations(Accounts)

BaseConfig ==
  [next_round_seconds |-> 1, minimum_bet |-> 10, gaming_fee |-> 1000,
   token_denom |-> tokenX, exp_per_denom_bet |-> 0, exp_per_denom_won |-> 0,
   dev_wallet_list |-> <<2>>]

OneConfig   == {BaseConfig}
OneDenom    == << <<denomA, tickerA>> >>

NoWallets   == {}
NoBetArrays == {}

Answer(price, decimals, age) ==
  [price |-> price, decimals |-> decimals, age |-> age]

TwoPrices   == {Answer(1, 0, 0), Answer(2, 0, 0)}

(* Two halves: the cut of a fee of one coin rounds down to zero *)
HalvesConfig == {[BaseConfig EXCEPT !.dev_wallet_list = <<1, 1>>,
                                    !.exp_per_denom_bet = 1,
                                    !.exp_per_denom_won = 1]}

(* New wallets: all to one, and three lists whose ratios do not sum to one *)
SomeWallets == {<<2>>, <<1>>, <<2, 2>>, <<>>}

(* Rounds: a second duration; two answers for the price 1, one that is too *)
(* old, one too large when scaled and one with too many decimals to scale; *)
(* a rotation that takes in a second denom                                 *)
RoundConfigs == {BaseConfig, [BaseConfig EXCEPT !.next_round_seconds = 2]}
RoundAnswers == {Answer(1, 1, 0), Answer(19, 2, 1), Answer(1, 1, 2), Answer(30, 0, 0),
                 Answer(1, 4, 0)}
RoundArrays  == {<<denomA>>, <<denomB, denomA>>, <<>>}
============================================================================
