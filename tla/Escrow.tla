------------------------------- MODULE Escrow -------------------------------
(***************************************************************************)
(* What both betting contracts promise about the coins they hold.  A pot   *)
(* (a round, a bet) is open while players pay into it, then locked, then   *)
(* settled.  Settling decides what each player is due, never more in all   *)
(* than the pot holds; after that the dues are only paid out.              *)
(*                                                                         *)
(* owed[p] is what the pot owes player p: the stake while the pot is not   *)
(* settled, the due once it is.  held is what the pot holds; what it holds *)
(* beyond the dues (rounding, unclaimed dust) stays in the contract.       *)
(***************************************************************************)
EXTENDS Integers, FiniteSetsExt

CONSTANTS Pots, Players

VARIABLE pots    \* pot -> [stage, held, owed]

Stages == {"open", "locked", "settled"}

PotType == [stage : Stages, held : Nat, owed : [Players -> Nat]]

TotalOwed(pot) == SumFunctionOnSet(pot.owed, Players)

NewPot == [stage |-> "open", held |-> 0, owed |-> [p \in Players |-> 0]]

Init == pots = [x \in Pots |-> NewPot]

(* One player pays into one open pot *)
PaidInto(all, x, p, paid) == [all EXCEPT ![x].held = @ + paid, ![x].owed[p] = @ + paid]

Deposit(x, p) ==
  /\ pots[x].stage = "open"
  /\ LET paid == pots'[x].held - pots[x].held
     IN  paid \in Nat \ {0} /\ pots' = PaidInto(pots, x, p, paid)

Locks(old, new) ==
  old.stage = "open" /\ new = [old EXCEPT !.stage = "locked"]

(* A pot may be settled without having been locked first *)
Settles(old, new) ==
  /\ old.stage # "settled" /\ new.stage = "settled"
  /\ new.held = old.held
  /\ TotalOwed(new) <= new.held

(* Pots are locked and settled by the operator, several at once *)
Advance ==
  /\ pots' \in [Pots -> PotType]
  /\ \A x \in Pots : \/ pots'[x] = pots[x]
                     \/ Locks(pots[x], pots'[x])
                     \/ Settles(pots[x], pots'[x])

(* Player p is paid everything some settled pots owe, and nobody else *)
PaidOutOf(pot, p) == [pot EXCEPT !.held = @ - pot.owed[p], !.owed[p] = 0]

Pay(p) ==
  \E X \in SUBSET {x \in Pots : pots[x].stage = "settled" /\ pots[x].owed[p] > 0} :
    pots' = [x \in Pots |-> IF x \in X THEN PaidOutOf(pots[x], p) ELSE pots[x]]

Next ==
  \/ \E x \in Pots, p \in Players : Deposit(x, p)
  \/ Advance
  \/ \E p \in Players : Pay(p)

Spec == Init /\ [][Next]_pots

----------------------------------------------------------------------------
(* What an escrow is for: whatever has been paid in and out, a pot holds   *)
(* at least what it still owes.                                            *)
NeverShort ==
  /\ pots \in [Pots -> PotType]
  /\ \A x \in Pots : TotalOwed(pots[x]) <= pots[x].held

============================================================================
