------------------------------- MODULE MCUsers -------------------------------
(***************************************************************************)
(* Constants of the runs of Users.  Ann is a username with a capital, ann  *)
(* the same in lower case, bob another one.                                *)
(***************************************************************************)
EXTENDS Users, TLC

CONSTANTS u1, u2, Ann, ann, bob, g1, g2, admin1, admin2, party, league, levels

SymUsers  == Permutations(Addresses)
Symmetric == Permutations(Addresses) \cup Permutations(Accounts)

LowerCase == [n \in Usernames |-> IF n = Ann THEN ann ELSE n]

(* A game always gives a point of elo, or never changes it *)
OnePoint == {[amount |-> 1, add |-> TRUE]}
NoElo    == {NoEloChange}

(* Events closed to every game, and open to all *)
ClosedOrOpen == {{}, {AnyGame}}
============================================================================
