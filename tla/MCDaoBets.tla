------------------------------ MODULE MCDaoBets ------------------------------
(***************************************************************************)
(* Constants of the runs of DaoBets.  RatioOne is 2, so a ratio of 1 is    *)
(* one half; amounts are tens so that a 10% gaming fee is a whole number   *)
(* of coins.                                                               *)
(***************************************************************************)
EXTENDS DaoBets, TLC

CONSTANTS p1, p2, p3, dao1, dao2, yes, no, maybe, tokenX, tokenY

TwoPlayers   == {p1, p2}
ThreePlayers == {p1, p2, p3}
SymPlayers   == Permutations(Players)
Symmetric    == SymPlayers \cup Permutations({yes, no})

BaseConfig ==
  [minimum_bet |-> 10, gaming_fee |-> 1000, token_denom |-> tokenX,
   exp_per_denom_bet |-> 0, exp_per_denom_won |-> 0,
   fee_receiver_wallet_list |-> <<2>>]

OneConfig == {BaseConfig}

(* Two halves: the cut of a fee of one coin rounds down to zero *)
HalvesConfig == {[BaseConfig EXCEPT !.fee_receiver_wallet_list = <<1, 1>>,
                                    !.exp_per_denom_bet = 1,
                                    !.exp_per_denom_won = 1]}

(* Another fee, and a list of wallets UpdateConfig has to refuse *)
HandoverConfigs ==
  {BaseConfig, [BaseConfig EXCEPT !.gaming_fee = 2000],
   [BaseConfig EXCEPT !.fee_receiver_wallet_list = <<2, 1>>]}

(* maybe is a result no bet offers *)
YesNo == {{yes, no}}
============================================================================
