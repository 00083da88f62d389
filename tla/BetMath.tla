------------------------------ MODULE BetMath ------------------------------
(***************************************************************************)
(* The integer arithmetic shared by the two games: shares of a pool, the   *)
(* gaming fee, the developers' cuts, the experience a bet earns, and the   *)
(* normalisation of an oracle price.  Division is integer division, as in  *)
(* Uint128 and Int128.                                                     *)
(***************************************************************************)
EXTENDS Integers, FiniteSets, FiniteSetsExt

CONSTANTS
  FeeScale,       \* FEE_PRECISION * 100: the gaming fee is in 1/10000
  RatioOne,       \* Decimal::one(); 10^18 in the code, small in the runs
  U64,            \* 2^64 in the code: experience is a u64
  PriceDecimals,  \* PRICE_DECIMALS
  I128Max         \* the largest Int128

ASSUME BetMathAssumption ==
  /\ FeeScale \in Nat \ {0}
  /\ RatioOne \in Nat \ {0}
  /\ U64 \in Nat \ {0}
  /\ PriceDecimals \in Nat
  /\ I128Max \in Nat \ {0}

(* Uint128::multiply_ratio: the product is taken in 256 bits, so only the  *)
(* zero denominator is an error; every caller divides by the stakes of the *)
(* winning side.                                                           *)
MultiplyRatio(total, numerator, denominator) ==
  (total * numerator) \div denominator

GamingFee(fee, gross) == MultiplyRatio(fee, gross, FeeScale)

(* Uint128::mul_floor(Decimal): one developer's cut of a fee *)
MulFloor(amount, ratio) == (amount * ratio) \div RatioOne

(* Sum of a sequence of ratios, and of the cuts a fee is divided into *)
TotalRatio(wallets) == SumFunction(wallets)
Cuts(fee, wallets)  == [i \in DOMAIN wallets |-> MulFloor(fee, wallets[i])]
TotalCuts(fee, wallets) == SumFunction(Cuts(fee, wallets))

(* `amount.u128() as u64 * per_denom`: the cast drops the high bits, and   *)
(* the product aborts the message when it does not fit (overflow-checks is *)
(* on in the release profile).                                             *)
Experience(amount, perDenom) == (amount % U64) * perDenom
FitsU64(n) == n < U64

----------------------------------------------------------------------------
(* normalize_price: an answer of the oracle, brought to PriceDecimals      *)
(* digits.  checked_div truncates toward zero; the power of ten aborts and *)
(* checked_mul fails when they are outside Int128.                         *)
TruncDiv(n, d) == IF n >= 0 THEN n \div d ELSE -((-n) \div d)

PowerOfTen(answer) ==
  10 ^ (IF answer.decimals > PriceDecimals THEN answer.decimals - PriceDecimals
        ELSE PriceDecimals - answer.decimals)

Normalizes(answer) ==
  /\ PowerOfTen(answer) <= I128Max
  /\ answer.decimals < PriceDecimals =>
       answer.price * PowerOfTen(answer) \in (-I128Max - 1)..I128Max

NormalizePrice(answer) ==
  IF answer.decimals > PriceDecimals THEN TruncDiv(answer.price, PowerOfTen(answer))
  ELSE answer.price * PowerOfTen(answer)
============================================================================
