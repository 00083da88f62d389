---------------------------- MODULE EscrowProofs ----------------------------
(***************************************************************************)
(* Proofs about Escrow: what its steps are, field by field, that an escrow *)
(* of finitely many players is never short, and that it keeps what it owes *)
(* until it is paid.                                                       *)
(***************************************************************************)
EXTENDS Escrow, SumTheorems

(* A deposit, field by field. *)
LEMMA PaidIn ==
  ASSUME NEW P \in [Pots -> PotType], NEW Q \in [Pots -> PotType],
         NEW x \in Pots, NEW p \in Players, NEW paid \in Nat
  PROVE  Q = PaidInto(P, x, p, paid)
           <=> /\ \A y \in Pots : y # x => Q[y] = P[y]
               /\ Q[x].stage = P[x].stage
               /\ Q[x].held = P[x].held + paid
               /\ \A q \in Players :
                    Q[x].owed[q] = IF q = p THEN P[x].owed[q] + paid ELSE P[x].owed[q]
<1> DEFINE E == [P EXCEPT ![x].held = @ + paid, ![x].owed[p] = @ + paid]
           w == [P[x].owed EXCEPT ![p] = @ + paid]
<1>1. /\ DOMAIN E = Pots /\ E = [y \in Pots |-> E[y]]
      /\ \A y \in Pots : y # x => E[y] = P[y]
      /\ E[x] = [stage |-> P[x].stage, held |-> P[x].held + paid, owed |-> w]
  BY DEF PotType
<1>2. /\ w \in [Players -> Nat]
      /\ \A q \in Players : w[q] = IF q = p THEN P[x].owed[q] + paid ELSE P[x].owed[q]
  BY DEF PotType
<1> HIDE DEF E, w
<1>3. /\ Q[x] = [stage |-> Q[x].stage, held |-> Q[x].held, owed |-> Q[x].owed]
      /\ Q[x].owed \in [Players -> Nat]
  BY DEF PotType
<1>4. Q = E <=> \A y \in Pots : Q[y] = E[y]
  BY <1>1
<1>5. Q[x] = E[x] <=> /\ Q[x].stage = P[x].stage
                      /\ Q[x].held = P[x].held + paid
                      /\ Q[x].owed = w
  BY <1>1, <1>3
<1>6. Q[x].owed = w <=> \A q \in Players : Q[x].owed[q] = w[q]
  BY <1>2, <1>3
<1> QED
  BY <1>1, <1>2, <1>4, <1>5, <1>6 DEF E, PaidInto

(* A payment, field by field. *)
LEMMA PaidOut ==
  ASSUME NEW old \in PotType, NEW new \in PotType, NEW p \in Players
  PROVE  new = PaidOutOf(old, p)
           <=> /\ new.stage = old.stage
               /\ new.held = old.held - old.owed[p]
               /\ \A q \in Players : new.owed[q] = IF q = p THEN 0 ELSE old.owed[q]
<1> DEFINE E == [old EXCEPT !.held = @ - old.owed[p], !.owed[p] = 0]
           h == old.held - old.owed[p]
           w == [old.owed EXCEPT ![p] = 0]
<1>1. E \in [stage : {old.stage}, held : {h}, owed : {w}]
  BY DEF PotType
<1>2. /\ w \in [Players -> Nat]
      /\ \A q \in Players : w[q] = IF q = p THEN 0 ELSE old.owed[q]
  BY DEF PotType
<1> HIDE DEF E, h, w
<1>3. E = [stage |-> old.stage, held |-> h, owed |-> w]
  BY <1>1
<1>4. /\ new = [stage |-> new.stage, held |-> new.held, owed |-> new.owed]
      /\ new.owed \in [Players -> Nat]
  BY DEF PotType
<1>5. new = E <=> new.stage = old.stage /\ new.held = h /\ new.owed = w
  BY <1>3, <1>4
<1>6. new.owed = w <=> \A q \in Players : new.owed[q] = w[q]
  BY <1>2, <1>4
<1> QED
  BY <1>2, <1>5, <1>6 DEF E, h, PaidOutOf

(* What a pot owes in all is a natural number. *)
LEMMA OwedIsNat ==
  ASSUME IsFiniteSet(Players), NEW pot \in PotType
  PROVE  TotalOwed(pot) \in Nat
<1>1. \A p \in Players : pot.owed[p] \in Nat
  BY DEF PotType
<1> QED
  BY <1>1, SumType DEF TotalOwed

(* A deposit adds as much to what a pot holds as to what it owes. *)
LEMMA DepositKeeps ==
  ASSUME IsFiniteSet(Players), NeverShort, NEW x \in Pots, NEW p \in Players, Deposit(x, p)
  PROVE  NeverShort'
<1> DEFINE paid == pots'[x].held - pots[x].held
           S    == Players
           w    == [pots[x].owed EXCEPT ![p] = @ + paid]
           f    == pots[x].owed
           g    == pots'[x].owed
<1>1. /\ pots \in [Pots -> PotType] /\ pots[x] \in PotType
      /\ f \in [S -> Nat] /\ pots[x].held \in Nat
      /\ TotalOwed(pots[x]) <= pots[x].held
  BY DEF NeverShort, PotType
<1>2. /\ paid \in Nat
      /\ pots' = [pots EXCEPT ![x].held = @ + paid, ![x].owed[p] = @ + paid]
  BY DEF Deposit, PaidInto
<1> HIDE DEF paid
<1>3. /\ pots' = [y \in Pots |-> pots'[y]]
      /\ \A y \in Pots : y # x => pots'[y] = pots[y]
      /\ pots'[x] = [stage |-> pots[x].stage, held |-> pots[x].held + paid, owed |-> w]
  BY <1>1, <1>2 DEF PotType
<1>4. pots'[x] \in PotType /\ g = w /\ pots'[x].held = pots[x].held + paid
  BY <1>1, <1>2, <1>3 DEF PotType
<1>5. TotalOwed(pots'[x]) = TotalOwed(pots[x]) + paid
  <2>1. \A q \in S : f[q] \in Nat
    BY <1>1
  <2>2. \A q \in S \ {p} : g[q] = f[q]
    BY <1>1, <1>4
  <2>3. g[p] = IF p \in S THEN f[p] + paid ELSE paid
    BY <1>1, <1>4
  <2>4. TotalOwed(pots'[x]) = SumFunctionOnSet(g, S) /\ TotalOwed(pots[x]) = SumFunctionOnSet(f, S)
    BY DEF TotalOwed
  <2>5. IsFiniteSet(S) /\ S \cup {p} = S
    OBVIOUS
  <2> HIDE DEF f, g, S, w
  <2>6. SumFunctionOnSet(g, S \cup {p}) = SumFunctionOnSet(f, S) + paid
    <3>1. Raises(f, g, S, p, paid)
      BY <1>2, <2>1, <2>2, <2>3, <2>5 DEF Raises
    <3> QED
      BY <3>1, SumUpdate
  <2> QED
    BY <2>4, <2>5, <2>6
<1>6. TotalOwed(pots[x]) \in Nat
  BY <1>1, OwedIsNat
<1>7. TotalOwed(pots'[x]) <= pots'[x].held
  BY <1>1, <1>2, <1>4, <1>5, <1>6
<1>8. pots' \in [Pots -> PotType]
  BY <1>1, <1>3, <1>4
<1> QED
  BY <1>1, <1>3, <1>7, <1>8 DEF NeverShort

(* Locking changes no coin, and settling checks the dues. *)
LEMMA AdvanceKeeps ==
  ASSUME IsFiniteSet(Players), NeverShort, Advance
  PROVE  NeverShort'
<1>1. ASSUME NEW x \in Pots
      PROVE  pots'[x] \in PotType /\ TotalOwed(pots'[x]) <= pots'[x].held
  <2>1. pots[x] \in PotType /\ TotalOwed(pots[x]) <= pots[x].held
    BY DEF NeverShort
  <2>2. CASE pots'[x] = pots[x]
    BY <2>1, <2>2
  <2>3. CASE Locks(pots[x], pots'[x])
    <3>1. /\ pots'[x] \in PotType
          /\ pots'[x].owed = pots[x].owed /\ pots'[x].held = pots[x].held
      BY <2>1, <2>3 DEF Locks, PotType, Stages
    <3> QED
      BY <2>1, <3>1 DEF TotalOwed
  <2>4. CASE Settles(pots[x], pots'[x])
    BY <2>4 DEF Settles, Advance
  <2> QED
    BY <2>2, <2>3, <2>4 DEF Advance
<1> QED
  BY <1>1 DEF NeverShort, Advance

(* A payment takes from a pot what it no longer owes. *)
LEMMA PayKeeps ==
  ASSUME IsFiniteSet(Players), NeverShort, NEW p \in Players, Pay(p)
  PROVE  NeverShort'
<1>1. PICK X \in SUBSET {x \in Pots : pots[x].stage = "settled" /\ pots[x].owed[p] > 0} :
        pots' = [x \in Pots |->
                   IF x \in X
                   THEN [pots[x] EXCEPT !.held = @ - pots[x].owed[p], !.owed[p] = 0]
                   ELSE pots[x]]
  BY DEF Pay, PaidOutOf
<1>2. ASSUME NEW x \in Pots
      PROVE  pots'[x] \in PotType /\ TotalOwed(pots'[x]) <= pots'[x].held
  <2> DEFINE old == pots[x]
             S   == Players
             f   == old.owed
             w   == [old.owed EXCEPT ![p] = 0]
             h   == old.held - old.owed[p]
  <2>1. /\ old \in PotType /\ TotalOwed(old) <= old.held /\ old.held \in Nat
        /\ f \in [S -> Nat]
    BY DEF NeverShort, PotType
  <2>2. CASE x \notin X
    BY <1>1, <2>1, <2>2
  <2>3. CASE x \in X
    <3>1. TotalOwed(old) = f[p] + SumFunctionOnSet(f, S \ {p})
      BY <2>1, SumRemove DEF TotalOwed
    <3>2. SumFunctionOnSet(f, S \ {p}) \in Nat
      <4>1. IsFiniteSet(S \ {p}) /\ \A q \in S \ {p} : f[q] \in Nat
        BY <2>1, FS_Difference
      <4> QED
        BY <4>1, SumType
    <3>3. h \in Nat /\ SumFunctionOnSet(f, S \ {p}) <= h
      BY <2>1, <3>1, <3>2
    <3>4. w \in [S -> Nat]
      BY <2>1
    <3>5. pots'[x] \in [stage : {old.stage}, held : {h}, owed : {w}]
      BY <1>1, <2>1, <2>3 DEF PotType
    <3>6. SumFunctionOnSet(w, S) = SumFunctionOnSet(w, S \ {p})
      <4>1. \A q \in S : w[q] \in Nat
        BY <3>4
      <4>2. w[p] = 0 /\ SumFunctionOnSet(w, S \ {p}) \in Nat
        <5>1. IsFiniteSet(S \ {p}) /\ \A q \in S \ {p} : w[q] \in Nat
          BY <4>1, FS_Difference
        <5> QED
          BY <2>1, <5>1, SumType
      <4> HIDE DEF w
      <4> QED
        BY <4>1, <4>2, SumRemove
    <3>7. SumFunctionOnSet(w, S \ {p}) = SumFunctionOnSet(f, S \ {p})
      <4>1. IsFiniteSet(S \ {p}) /\ \A q \in S \ {p} : f[q] \in Nat /\ w[q] = f[q]
        BY <2>1, FS_Difference
      <4> HIDE DEF w, f
      <4> QED
        BY <4>1, SumEqual
    <3> HIDE DEF h, w, f
    <3>8. pots'[x].stage = old.stage /\ pots'[x].held = h /\ pots'[x].owed = w
      BY <3>5
    <3>9. TotalOwed(pots'[x]) = SumFunctionOnSet(w, S)
      BY <3>8 DEF TotalOwed
    <3>10. pots'[x] \in PotType
      BY <2>1, <3>3, <3>4, <3>5 DEF PotType
    <3> QED
      BY <3>3, <3>6, <3>7, <3>8, <3>9, <3>10
  <2> QED
    BY <2>2, <2>3
<1> QED
  BY <1>1, <1>2 DEF NeverShort

(* Empty pots owe nothing. *)
LEMMA InitNeverShort == IsFiniteSet(Players) /\ Init => NeverShort
<1> SUFFICES ASSUME IsFiniteSet(Players), Init PROVE NeverShort
  OBVIOUS
<1>1. NewPot \in PotType /\ NewPot.held = 0 /\ \A p \in Players : NewPot.owed[p] = 0
  BY DEF NewPot, PotType, Stages
<1>2. TotalOwed(NewPot) = 0
  BY <1>1, SumZero DEF TotalOwed
<1> QED
  BY <1>1, <1>2 DEF Init, NeverShort

(* The escrow is worth implementing: whatever is paid in and out, no pot   *)
(* ever holds less than it owes.                                           *)
THEOREM EscrowNeverShort == IsFiniteSet(Players) => (Spec => []NeverShort)
<1> SUFFICES ASSUME IsFiniteSet(Players) PROVE Spec => []NeverShort
  OBVIOUS
<1>1. Init => NeverShort
  BY InitNeverShort
<1>2. NeverShort /\ [Next]_pots => NeverShort'
  <2>1. ASSUME NeverShort, UNCHANGED pots PROVE NeverShort'
    BY <2>1 DEF NeverShort
  <2> QED
    BY <2>1, DepositKeeps, AdvanceKeeps, PayKeeps DEF Next
<1> QED
  BY <1>1, <1>2, PTL DEF Spec

(* What becomes of a settled pot: it stays settled, a due is either left   *)
(* alone or paid whole, and the coins go down by what the dues do, so that *)
(* what it holds beyond them is never touched.                             *)
Settled(x) == pots[x].stage = "settled"

Surplus(pot) == pot.held - TotalOwed(pot)

DuesKept(x) ==
  /\ pots'[x].stage = "settled"
  /\ \A p \in Players : pots'[x].owed[p] \in {pots[x].owed[p], 0}
  /\ Surplus(pots'[x]) = Surplus(pots[x])

(* A payment out of a pot pays one due whole. *)
LEMMA PaysOneDue ==
  ASSUME IsFiniteSet(Players), NEW old \in PotType, NEW p \in Players,
         TotalOwed(old) <= old.held
  PROVE  LET new == PaidOutOf(old, p)
         IN  /\ new.stage = old.stage
             /\ \A q \in Players : new.owed[q] = IF q = p THEN 0 ELSE old.owed[q]
             /\ Surplus(new) = Surplus(old)
<1> DEFINE S   == Players
           f   == old.owed
           w   == [f EXCEPT ![p] = 0]
           new == PaidOutOf(old, p)
<1>1. f \in [S -> Nat] /\ old.held \in Nat /\ p \in S
  BY DEF PotType
<1>2. new.stage = old.stage /\ new.held = old.held - f[p] /\ new.owed = w
  BY DEF PaidOutOf, PotType
<1>3. /\ w \in [S -> Nat] /\ w[p] = 0
      /\ \A q \in S \ {p} : w[q] = f[q]
  BY <1>1
<1> HIDE DEF w, f, S, new
<1>4. IsFiniteSet(S)
  BY DEF S
<1>5. /\ SumFunctionOnSet(f, S) = f[p] + SumFunctionOnSet(f, S \ {p})
      /\ SumFunctionOnSet(w, S) = w[p] + SumFunctionOnSet(w, S \ {p})
  BY <1>1, <1>3, <1>4, SumRemove
<1>6. /\ SumFunctionOnSet(w, S \ {p}) = SumFunctionOnSet(f, S \ {p})
      /\ SumFunctionOnSet(f, S \ {p}) \in Nat
  <2>1. IsFiniteSet(S \ {p}) /\ \A q \in S \ {p} : f[q] \in Nat /\ w[q] \in Nat /\ w[q] = f[q]
    BY <1>1, <1>3, <1>4, FS_Difference
  <2> QED
    BY <2>1, SumEqual, SumType
<1>7. TotalOwed(old) = SumFunctionOnSet(f, S) /\ TotalOwed(new) = SumFunctionOnSet(w, S)
  BY <1>2 DEF TotalOwed, f, S
<1>8. f[p] \in Nat
  BY <1>1
<1>9. Surplus(new) = Surplus(old)
  BY <1>1, <1>2, <1>3, <1>5, <1>6, <1>7, <1>8 DEF Surplus
<1>10. \A q \in S : new.owed[q] = IF q = p THEN 0 ELSE f[q]
  BY <1>2, <1>3
<1> QED
  BY <1>2, <1>9, <1>10 DEF new, f, S

(* What a settled pot owes is kept until it is paid: no deposit, no later  *)
(* settlement and no payment to anybody else touches it.                   *)
THEOREM DuesAreKept ==
  IsFiniteSet(Players) => (Spec => [][\A x \in Pots : Settled(x) => DuesKept(x)]_pots)
<1> SUFFICES ASSUME IsFiniteSet(Players)
             PROVE  Spec => [][\A x \in Pots : Settled(x) => DuesKept(x)]_pots
  OBVIOUS
<1>1. ASSUME NeverShort, Next, NEW x \in Pots, Settled(x)
      PROVE  DuesKept(x)
  <2>1. pots[x] \in PotType /\ TotalOwed(pots[x]) <= pots[x].held /\ pots[x].stage = "settled"
    BY <1>1 DEF NeverShort, Settled
  <2>2. CASE pots'[x] = pots[x]
    BY <2>1, <2>2 DEF DuesKept
  <2>3. ASSUME NEW y \in Pots, NEW p \in Players, Deposit(y, p) PROVE pots'[x] = pots[x]
    <3>1. y # x
      BY <2>1, <2>3 DEF Deposit
    <3> QED
      BY <1>1, <2>3, <3>1 DEF Deposit, PaidInto, NeverShort
  <2>4. CASE Advance
    BY <2>1, <2>4 DEF Advance, Locks, Settles, DuesKept
  <2>5. ASSUME NEW p \in Players, Pay(p), pots'[x] # pots[x] PROVE DuesKept(x)
    <3>1. pots'[x] = PaidOutOf(pots[x], p)
      BY <2>5 DEF Pay
    <3> QED
      BY <2>1, <3>1, PaysOneDue DEF DuesKept
  <2> QED
    BY <1>1, <2>2, <2>3, <2>4, <2>5 DEF Next
<1>2. NeverShort /\ [Next]_pots => [\A x \in Pots : Settled(x) => DuesKept(x)]_pots
  BY <1>1
<1> QED
  BY <1>2, EscrowNeverShort, PTL DEF Spec

=============================================================================
