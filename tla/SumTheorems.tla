---------------------------- MODULE SumTheorems ----------------------------
(***************************************************************************)
(* Sums of the values of a function over a finite set, which is what the   *)
(* pools, the pots and the dues of the two games are.                      *)
(*                                                                         *)
(* SumFunctionOnSet of the community modules is a fold: it takes the       *)
(* elements one by one, in an order CHOOSE picks.  SumIsCount ties it to a *)
(* cardinality, which does not depend on any order; the other theorems     *)
(* follow from that one.  The last part is about shares rounded down.      *)
(***************************************************************************)
EXTENDS FiniteSetsExt, FiniteSetTheorems, TLAPS

(* Induction over a finite set, with the property given as the family of   *)
(* the subsets that have it: no operator parameter is needed.              *)
LEMMA SetInduction ==
  ASSUME NEW S, IsFiniteSet(S), NEW Good,
         {} \in Good,
         \A T \in SUBSET S, x \in S : T \in Good /\ x \notin T => T \cup {x} \in Good
  PROVE  S \in Good
<1> SUFFICES ASSUME S \notin Good PROVE FALSE
  OBVIOUS
<1> DEFINE Bad == {T \in SUBSET S : T \notin Good}
<1>1. S \in Bad
  OBVIOUS
<1>2. FiniteSubsetsOf(S) = SUBSET S
  BY FS_FiniteSubsetsOfFinite
<1>3. IsWellFoundedOn(StrictSubsetOrdering(S), SUBSET S)
  BY <1>2, FS_StrictSubsetOrderingWellFounded
<1>4. PICK T \in Bad : \A U \in Bad : <<U, T>> \notin StrictSubsetOrdering(S)
  <2>1. Bad \subseteq SUBSET S /\ Bad # {}
    BY <1>1
  <2> HIDE DEF Bad
  <2> QED
    BY <1>3, <2>1, WFMin, Zenon
<1>5. PICK x : x \in T
  OBVIOUS
<1>6. T \ {x} \notin Bad
  BY <1>4, <1>5 DEF StrictSubsetOrdering
<1>7. T \ {x} \in SUBSET S /\ x \in S /\ x \notin T \ {x} /\ T \notin Good
  BY <1>5
<1>8. T = (T \ {x}) \cup {x}
  BY <1>5
<1>9. T \ {x} \in Good
  BY <1>6, <1>7
<1>10. (T \ {x}) \cup {x} \in Good
  BY <1>7, <1>9
<1> QED
  BY <1>7, <1>8, <1>10

(* f[k] tallies for each element k of S *)
Tallies(f, S) == UNION {{k} \X (1..f[k]) : k \in S}

(* The recursive function the fold is defined by *)
IsIter(it, f, S) ==
  it = [s \in SUBSET S |->
          IF s = {} THEN 0
          ELSE f[CHOOSE x \in s : TRUE] + it[s \ {CHOOSE x \in s : TRUE}]]

(* A new element adds as many tallies as its value. *)
LEMMA CountAdd ==
  ASSUME NEW f, NEW S, NEW x, x \notin S, IsFiniteSet(Tallies(f, S)), f[x] \in Nat
  PROVE  /\ IsFiniteSet(Tallies(f, S \cup {x}))
         /\ Cardinality(Tallies(f, S \cup {x})) = f[x] + Cardinality(Tallies(f, S))
<1> DEFINE new == {x} \X (1..f[x])
<1>1. IsFiniteSet(1..f[x]) /\ Cardinality(1..f[x]) = f[x]
  BY FS_Interval
<1>2. IsFiniteSet({x}) /\ Cardinality({x}) = 1
  BY FS_Singleton
<1>3. IsFiniteSet(new) /\ Cardinality(new) = f[x]
  <2>1. \A A, B : IsFiniteSet(A) /\ IsFiniteSet(B) =>
          IsFiniteSet(A \X B) /\ Cardinality(A \X B) = Cardinality(A) * Cardinality(B)
    BY FS_Product
  <2>2. IsFiniteSet(new) /\ Cardinality(new) = Cardinality({x}) * Cardinality(1..f[x])
    BY <1>1, <1>2, <2>1
  <2> QED
    BY <1>1, <1>2, <2>2
<1>4. Tallies(f, S \cup {x}) = Tallies(f, S) \cup new
  BY DEF Tallies
<1>5. Tallies(f, S) \cap new = {}
  BY DEF Tallies
<1> HIDE DEF new
<1>6. Cardinality(Tallies(f, S)) \in Nat
  BY FS_CardinalityType
<1> QED
  <2>1. /\ IsFiniteSet(Tallies(f, S) \cup new)
        /\ Cardinality(Tallies(f, S) \cup new) =
             Cardinality(Tallies(f, S)) + Cardinality(new) - Cardinality({})
    BY <1>3, <1>5, FS_Union
  <2>2. Cardinality({}) = 0
    BY FS_EmptySet
  <2>3. /\ IsFiniteSet(Tallies(f, S \cup {x}))
        /\ Cardinality(Tallies(f, S \cup {x})) = Cardinality(Tallies(f, S) \cup new)
    BY <1>4, <2>1, Zenon
  <2> QED
    BY <1>3, <1>6, <2>1, <2>2, <2>3

(* There are finitely many tallies. *)
LEMMA TalliesFinite ==
  ASSUME NEW f, NEW S, IsFiniteSet(S), \A k \in S : f[k] \in Nat
  PROVE  IsFiniteSet(Tallies(f, S)) /\ Cardinality(Tallies(f, S)) \in Nat
<1> DEFINE Good == {T \in SUBSET S : IsFiniteSet(Tallies(f, T))}
<1>1. {} \in Good
  <2>1. Tallies(f, {}) = {}
    BY DEF Tallies
  <2> QED
    BY <2>1, FS_EmptySet
<1>2. \A T \in SUBSET S, x \in S : T \in Good /\ x \notin T => T \cup {x} \in Good
  BY CountAdd
<1> HIDE DEF Good
<1>3. S \in Good
  BY <1>1, <1>2, SetInduction
<1> QED
  BY <1>3, FS_CardinalityType DEF Good

(* Counting tallies satisfies the recursion of the fold ... *)
LEMMA CountIter ==
  ASSUME NEW f, NEW S, IsFiniteSet(S), \A k \in S : f[k] \in Nat
  PROVE  IsIter([s \in SUBSET S |-> Cardinality(Tallies(f, s))], f, S)
<1> DEFINE h == [s \in SUBSET S |-> Cardinality(Tallies(f, s))]
<1>1. ASSUME NEW s \in SUBSET S
      PROVE  h[s] = IF s = {} THEN 0
                    ELSE f[CHOOSE x \in s : TRUE] + h[s \ {CHOOSE x \in s : TRUE}]
  <2>1. CASE s = {}
    <3>1. Tallies(f, {}) = {}
      BY DEF Tallies
    <3> QED
      BY <2>1, <3>1, FS_EmptySet
  <2>2. CASE s # {}
    <3> DEFINE x == CHOOSE y \in s : TRUE
               r == s \ {x}
    <3>1. x \in s
      BY <2>2
    <3> HIDE DEF x
    <3>2. s = r \cup {x} /\ x \notin r /\ r \in SUBSET S /\ x \in S
      BY <3>1
    <3>3. IsFiniteSet(r)
      BY <3>2, FS_Subset
    <3> HIDE DEF r
    <3>4. IsFiniteSet(Tallies(f, r))
      BY <3>2, <3>3, TalliesFinite
    <3>5. Cardinality(Tallies(f, s)) = f[x] + Cardinality(Tallies(f, r))
      BY <3>2, <3>4, CountAdd
    <3> QED
      BY <2>2, <3>2, <3>5 DEF x, r
  <2> QED
    BY <2>1, <2>2
<1> HIDE DEF h
<1>2. h = [s \in SUBSET S |-> h[s]]
  BY DEF h
<1>3. IsIter(h, f, S)
  BY <1>1, <1>2 DEF IsIter
<1> QED
  BY <1>3 DEF h

(* ... and nothing else does. *)
LEMMA IterUnique ==
  ASSUME NEW f, NEW S, IsFiniteSet(S), NEW g, NEW h, IsIter(g, f, S), IsIter(h, f, S)
  PROVE  g[S] = h[S]
<1> DEFINE Bad == {T \in SUBSET S : g[T] # h[T]}
<1>1. FiniteSubsetsOf(S) = SUBSET S
  BY FS_FiniteSubsetsOfFinite
<1>2. IsWellFoundedOn(StrictSubsetOrdering(S), SUBSET S)
  BY <1>1, FS_StrictSubsetOrderingWellFounded
<1> SUFFICES ASSUME Bad # {} PROVE FALSE
  OBVIOUS
<1>3. PICK T \in Bad : \A U \in Bad : <<U, T>> \notin StrictSubsetOrdering(S)
  <2> HIDE DEF Bad
  <2> QED
    BY <1>2, WFMin DEF Bad
<1>4. T # {}
  BY <1>3 DEF IsIter
<1> DEFINE x == CHOOSE y \in T : TRUE
<1>5. x \in T
  BY <1>4
<1>6. g[T] = f[x] + g[T \ {x}] /\ h[T] = f[x] + h[T \ {x}]
  BY <1>4 DEF IsIter
<1> HIDE DEF x
<1>7. T \ {x} \in SUBSET S /\ <<T \ {x}, T>> \in StrictSubsetOrdering(S)
  BY <1>5 DEF StrictSubsetOrdering
<1>8. g[T \ {x}] = h[T \ {x}]
  BY <1>3, <1>7
<1> QED
  BY <1>3, <1>6, <1>8

(* So the sum of a function over a finite set is its number of tallies. *)
THEOREM SumIsCount ==
  ASSUME NEW f, NEW S, IsFiniteSet(S), \A k \in S : f[k] \in Nat
  PROVE  SumFunctionOnSet(f, S) = Cardinality(Tallies(f, S))
<1> DEFINE h == [s \in SUBSET S |-> Cardinality(Tallies(f, s))]
<1>1. IsIter(h, f, S)
  BY CountIter
<1> HIDE DEF h
<1>2. \E it : IsIter(it, f, S) /\ SumFunctionOnSet(f, S) = it[S]
  BY <1>1 DEF SumFunctionOnSet, FoldFunctionOnSet, MapThenFoldSet, IsIter
<1>3. SumFunctionOnSet(f, S) = h[S]
  BY <1>1, <1>2, IterUnique
<1> QED
  BY <1>3 DEF h

(* A sum of natural numbers is one. *)
THEOREM SumType ==
  ASSUME NEW f, NEW S, IsFiniteSet(S), \A k \in S : f[k] \in Nat
  PROVE  SumFunctionOnSet(f, S) \in Nat
BY SumIsCount, TalliesFinite

(* The sum over nothing is zero. *)
THEOREM SumEmpty == \A f : SumFunctionOnSet(f, {}) = 0
<1> TAKE f
<1>1. Tallies(f, {}) = {}
  BY DEF Tallies
<1>2. SumFunctionOnSet(f, {}) = Cardinality(Tallies(f, {}))
  BY SumIsCount, FS_EmptySet
<1> QED
  BY <1>1, <1>2, FS_EmptySet

(* A sum grows with a new element by its value, *)
THEOREM SumAdd ==
  ASSUME NEW f, NEW S, NEW x, IsFiniteSet(S), \A k \in S : f[k] \in Nat,
         x \notin S, f[x] \in Nat
  PROVE  SumFunctionOnSet(f, S \cup {x}) = f[x] + SumFunctionOnSet(f, S)
<1>1. IsFiniteSet(S \cup {x})
  BY FS_AddElement
<1>2. SumFunctionOnSet(f, S \cup {x}) = Cardinality(Tallies(f, S \cup {x}))
  BY <1>1, SumIsCount
<1>3. Cardinality(Tallies(f, S \cup {x})) = f[x] + Cardinality(Tallies(f, S))
  BY CountAdd, TalliesFinite
<1>4. SumFunctionOnSet(f, S) = Cardinality(Tallies(f, S))
  BY SumIsCount
<1> QED
  BY <1>2, <1>3, <1>4

(* and shrinks by it when the element goes. *)
THEOREM SumRemove ==
  ASSUME NEW f, NEW S, IsFiniteSet(S), \A k \in S : f[k] \in Nat, NEW x \in S
  PROVE  SumFunctionOnSet(f, S) = f[x] + SumFunctionOnSet(f, S \ {x})
<1>1. S = (S \ {x}) \cup {x}
  OBVIOUS
<1>2. IsFiniteSet(S \ {x})
  BY FS_RemoveElement
<1>3. SumFunctionOnSet(f, (S \ {x}) \cup {x}) = f[x] + SumFunctionOnSet(f, S \ {x})
  BY <1>2, SumAdd
<1> QED
  BY <1>1, <1>3

(* Functions that agree on a set have the same sum over it. *)
THEOREM SumEqual ==
  ASSUME NEW f, NEW g, NEW S, IsFiniteSet(S),
         \A k \in S : f[k] \in Nat /\ g[k] = f[k]
  PROVE  SumFunctionOnSet(g, S) = SumFunctionOnSet(f, S)
<1>1. Tallies(f, S) = Tallies(g, S)
  BY DEF Tallies
<1> QED
  BY <1>1, SumIsCount

(* The sum over disjoint sets is the sum of the sums. *)
THEOREM SumUnion ==
  ASSUME NEW f, NEW S, NEW T, IsFiniteSet(S), IsFiniteSet(T), S \cap T = {},
         \A k \in S \cup T : f[k] \in Nat
  PROVE  SumFunctionOnSet(f, S \cup T) =
           SumFunctionOnSet(f, S) + SumFunctionOnSet(f, T)
<1>1. IsFiniteSet(S \cup T)
  BY FS_Union
<1>2. Tallies(f, S \cup T) = Tallies(f, S) \cup Tallies(f, T)
  BY DEF Tallies
<1>3. Tallies(f, S) \cap Tallies(f, T) = {}
  BY DEF Tallies
<1>4. /\ IsFiniteSet(Tallies(f, S)) /\ Cardinality(Tallies(f, S)) \in Nat
      /\ IsFiniteSet(Tallies(f, T)) /\ Cardinality(Tallies(f, T)) \in Nat
  BY TalliesFinite
<1>5. Cardinality(Tallies(f, S \cup T)) =
        Cardinality(Tallies(f, S)) + Cardinality(Tallies(f, T)) - Cardinality({})
  <2> DEFINE A == Tallies(f, S)
             B == Tallies(f, T)
  <2>1. IsFiniteSet(A) /\ IsFiniteSet(B) /\ A \cap B = {}
    BY <1>3, <1>4
  <2> HIDE DEF A, B
  <2>2. Cardinality(A \cup B) = Cardinality(A) + Cardinality(B) - Cardinality(A \cap B)
    BY <2>1, FS_Union
  <2>3. Cardinality(A \cup B) = Cardinality(A) + Cardinality(B) - Cardinality({})
    BY <2>1, <2>2
  <2> QED
    BY <1>2, <2>3 DEF A, B
<1>6. Cardinality({}) = 0
  BY FS_EmptySet
<1>7. /\ SumFunctionOnSet(f, S \cup T) = Cardinality(Tallies(f, S \cup T))
      /\ SumFunctionOnSet(f, S) = Cardinality(Tallies(f, S))
      /\ SumFunctionOnSet(f, T) = Cardinality(Tallies(f, T))
  BY <1>1, SumIsCount
<1> QED
  BY <1>4, <1>5, <1>6, <1>7

(* A sum over a set splits into a part and the rest. *)
THEOREM SumSubset ==
  ASSUME NEW f, NEW S, NEW T \in SUBSET S, IsFiniteSet(S), \A k \in S : f[k] \in Nat
  PROVE  /\ SumFunctionOnSet(f, S) =
              SumFunctionOnSet(f, T) + SumFunctionOnSet(f, S \ T)
         /\ SumFunctionOnSet(f, T) <= SumFunctionOnSet(f, S)
<1>1. IsFiniteSet(T) /\ IsFiniteSet(S \ T)
  BY FS_Subset, FS_Difference
<1>2. S = T \cup (S \ T) /\ T \cap (S \ T) = {}
  OBVIOUS
<1>3. SumFunctionOnSet(f, T \cup (S \ T)) =
        SumFunctionOnSet(f, T) + SumFunctionOnSet(f, S \ T)
  BY <1>1, <1>2, SumUnion
<1>4. SumFunctionOnSet(f, T) \in Nat /\ SumFunctionOnSet(f, S \ T) \in Nat
  BY <1>1, SumType
<1>5. SumFunctionOnSet(f, S) =
        SumFunctionOnSet(f, T) + SumFunctionOnSet(f, S \ T)
  BY <1>2, <1>3
<1> QED
  BY <1>4, <1>5

(* The same, for a part given by its elements. *)
THEOREM SumSplit ==
  ASSUME NEW f, NEW S, NEW T, IsFiniteSet(S), \A k \in S : f[k] \in Nat,
         \A k \in T : k \in S
  PROVE  SumFunctionOnSet(f, S) = SumFunctionOnSet(f, T) + SumFunctionOnSet(f, S \ T)
<1>1. T \in SUBSET S
  OBVIOUS
<1>2. IsFiniteSet(S) /\ \A k \in S : f[k] \in Nat
  OBVIOUS
<1> QED
  BY <1>1, <1>2, SumSubset

(* No element is worth more than the sum. *)
THEOREM SumMember ==
  ASSUME NEW f, NEW S, IsFiniteSet(S), \A k \in S : f[k] \in Nat, NEW x \in S
  PROVE  f[x] <= SumFunctionOnSet(f, S)
<1>1. SumFunctionOnSet(f, S) = f[x] + SumFunctionOnSet(f, S \ {x})
  BY SumRemove
<1>2. IsFiniteSet(S \ {x})
  BY FS_RemoveElement
<1>3. SumFunctionOnSet(f, S \ {x}) \in Nat
  BY <1>2, SumType
<1> QED
  BY <1>1, <1>3

(* A sum of zeros is zero. *)
THEOREM SumZero ==
  ASSUME NEW f, NEW S, IsFiniteSet(S), \A k \in S : f[k] = 0
  PROVE  SumFunctionOnSet(f, S) = 0
<1>1. Tallies(f, S) = {}
  BY DEF Tallies
<1> QED
  BY <1>1, SumIsCount, FS_EmptySet

(* Elements worth nothing may be left out. *)
THEOREM SumSupport ==
  ASSUME NEW f, NEW S, NEW T \in SUBSET S, IsFiniteSet(S),
         \A k \in T : f[k] \in Nat, \A k \in S \ T : f[k] = 0
  PROVE  SumFunctionOnSet(f, S) = SumFunctionOnSet(f, T)
<1>1. IsFiniteSet(T) /\ IsFiniteSet(S \ T)
  BY FS_Subset, FS_Difference
<1>2. SumFunctionOnSet(f, S \ T) = 0
  BY <1>1, SumZero
<1>3. SumFunctionOnSet(f, T) \in Nat
  BY <1>1, SumType
<1>4. SumFunctionOnSet(f, S) =
        SumFunctionOnSet(f, T) + SumFunctionOnSet(f, S \ T)
  BY SumSubset
<1> QED
  BY <1>2, <1>3, <1>4

(* g has the values of f on S, but for one that grows by d or comes in as d *)
Raises(f, g, S, x, d) ==
  /\ d \in Nat /\ IsFiniteSet(S) /\ \A k \in S : f[k] \in Nat
  /\ \A k \in S \ {x} : g[k] = f[k]
  /\ g[x] = IF x \in S THEN f[x] + d ELSE d

(* Then its sum is more by d. *)
THEOREM SumUpdate ==
  ASSUME NEW f, NEW g, NEW S, NEW x, NEW d, Raises(f, g, S, x, d)
  PROVE  SumFunctionOnSet(g, S \cup {x}) = SumFunctionOnSet(f, S) + d
<1> DEFINE rest == S \ {x}
<1> USE DEF Raises
<1>1. IsFiniteSet(rest)
  BY FS_RemoveElement
<1>2. S \cup {x} = rest \cup {x} /\ x \notin rest
  OBVIOUS
<1>3. \A k \in rest : f[k] \in Nat /\ g[k] = f[k]
  OBVIOUS
<1>4. g[x] \in Nat
  OBVIOUS
<1>5. x \in S => SumFunctionOnSet(f, S) = f[x] + SumFunctionOnSet(f, rest)
  BY SumRemove
<1>6. x \notin S => S = rest
  OBVIOUS
<1> HIDE DEF rest
<1>7. SumFunctionOnSet(g, rest \cup {x}) = g[x] + SumFunctionOnSet(g, rest)
  BY <1>1, <1>2, <1>3, <1>4, SumAdd
<1>8. SumFunctionOnSet(g, rest) = SumFunctionOnSet(f, rest)
  BY <1>1, <1>3, SumEqual
<1>9. SumFunctionOnSet(f, rest) \in Nat
  BY <1>1, <1>3, SumType
<1> QED
  BY <1>2, <1>5, <1>6, <1>7, <1>8, <1>9

(* Adding up class by class gives the same sum. *)
THEOREM SumFibres ==
  ASSUME NEW f, NEW g, NEW K, NEW O, IsFiniteSet(K), IsFiniteSet(O),
         \A k \in K : f[k] \in Nat /\ g[k] \in O
  PROVE  SumFunctionOnSet([o \in O |-> SumFunctionOnSet(f, {k \in K : g[k] = o})], O)
           = SumFunctionOnSet(f, K)
<1> DEFINE on(o)   == {k \in K : g[k] = o}
           h       == [o \in O |-> SumFunctionOnSet(f, on(o))]
           upto(T) == {k \in K : g[k] \in T}
           Good    == {T \in SUBSET O :
                         SumFunctionOnSet(h, T) = SumFunctionOnSet(f, upto(T))}
<1>1. \A o \in O : h[o] \in Nat /\ h[o] = SumFunctionOnSet(f, on(o))
  <2> TAKE o \in O
  <2>1. IsFiniteSet(on(o))
    BY FS_Subset
  <2> QED
    BY <2>1, SumType
<1>2. {} \in Good
  <2>1. upto({}) = {}
    OBVIOUS
  <2> QED
    BY <2>1, SumEmpty
<1>3. ASSUME NEW T \in SUBSET O, NEW x \in O, T \in Good, x \notin T
      PROVE  T \cup {x} \in Good
  <2>1. IsFiniteSet(T) /\ IsFiniteSet(upto(T)) /\ IsFiniteSet(on(x))
    BY FS_Subset
  <2>2. upto(T \cup {x}) = upto(T) \cup on(x) /\ upto(T) \cap on(x) = {}
    BY <1>3
  <2>3. \A k \in upto(T) \cup on(x) : f[k] \in Nat
    OBVIOUS
  <2>4. SumFunctionOnSet(f, upto(T)) = SumFunctionOnSet(h, T)
    BY <1>3
  <2>5. \A o \in T : h[o] \in Nat
    BY <1>1
  <2>6. h[x] = SumFunctionOnSet(f, on(x)) /\ h[x] \in Nat
    BY <1>1
  <2> HIDE DEF h, upto, on
  <2>7. SumFunctionOnSet(f, upto(T) \cup on(x)) =
          SumFunctionOnSet(f, upto(T)) + SumFunctionOnSet(f, on(x))
    BY <2>1, <2>2, <2>3, SumUnion
  <2>8. SumFunctionOnSet(h, T \cup {x}) = h[x] + SumFunctionOnSet(h, T)
    BY <1>3, <2>1, <2>5, <2>6, SumAdd
  <2>9. SumFunctionOnSet(h, T) \in Nat
    BY <2>1, <2>5, SumType
  <2>10. SumFunctionOnSet(f, upto(T \cup {x})) = SumFunctionOnSet(f, upto(T) \cup on(x))
    BY <2>2, Zenon
  <2>11. SumFunctionOnSet(h, T \cup {x}) = SumFunctionOnSet(f, upto(T \cup {x}))
    BY <2>4, <2>6, <2>7, <2>8, <2>9, <2>10
  <2> QED
    BY <2>11
<1>4. upto(O) = K
  OBVIOUS
<1> HIDE DEF Good
<1>5. O \in Good
  BY <1>2, <1>3, SetInduction
<1> QED
  BY <1>4, <1>5 DEF Good

(* Renaming the elements one to one changes nothing. *)
THEOREM SumReindex ==
  ASSUME NEW f, NEW g, NEW S, NEW h \in [S -> DOMAIN f], IsFiniteSet(S),
         \A j, k \in S : h[j] = h[k] => j = k,
         \A k \in S : f[h[k]] \in Nat /\ g[k] = f[h[k]]
  PROVE  SumFunctionOnSet(g, S) = SumFunctionOnSet(f, {h[k] : k \in S})
<1> DEFINE image(T) == {h[k] : k \in T}
           Good     == {T \in SUBSET S :
                          /\ IsFiniteSet(image(T))
                          /\ SumFunctionOnSet(g, T) = SumFunctionOnSet(f, image(T))}
<1>1. {} \in Good
  <2>1. image({}) = {}
    OBVIOUS
  <2> QED
    BY <2>1, SumEmpty, FS_EmptySet
<1>2. ASSUME NEW T \in SUBSET S, NEW x \in S, T \in Good, x \notin T
      PROVE  T \cup {x} \in Good
  <2>1. IsFiniteSet(T)
    BY FS_Subset
  <2>2. image(T \cup {x}) = image(T) \cup {h[x]} /\ h[x] \notin image(T)
    BY <1>2
  <2>3. IsFiniteSet(image(T)) /\ SumFunctionOnSet(g, T) = SumFunctionOnSet(f, image(T))
    BY <1>2
  <2>4. /\ \A j \in image(T) : f[j] \in Nat
        /\ f[h[x]] \in Nat /\ g[x] = f[h[x]]
        /\ \A j \in T : g[j] \in Nat
    OBVIOUS
  <2> HIDE DEF image
  <2>5. SumFunctionOnSet(f, image(T) \cup {h[x]}) = f[h[x]] + SumFunctionOnSet(f, image(T))
    BY <2>2, <2>3, <2>4, SumAdd
  <2>6. SumFunctionOnSet(g, T \cup {x}) = g[x] + SumFunctionOnSet(g, T)
    BY <1>2, <2>1, <2>4, SumAdd
  <2>7. IsFiniteSet(image(T) \cup {h[x]})
    BY <2>3, FS_AddElement
  <2> QED
    BY <2>2, <2>3, <2>4, <2>5, <2>6, <2>7
<1> HIDE DEF Good
<1>3. S \in Good
  BY <1>1, <1>2, SetInduction
<1> QED
  BY <1>3 DEF Good

(* What a floored division is between. *)
LEMMA DivBounds ==
  ASSUME NEW a \in Nat, NEW w \in Nat, w > 0
  PROVE  /\ a \div w \in Nat
         /\ w * (a \div w) <= a
         /\ a + 1 <= w * (a \div w) + w
OBVIOUS

(* Multiplication over a sum. *)
LEMMA Distribute ==
  ASSUME NEW a \in Int, NEW b \in Int, NEW c \in Int
  PROVE  a * (b + c) = a * b + a * c
OBVIOUS

(* A positive factor cancels from an inequality. *)
LEMMA Cancel ==
  ASSUME NEW w \in Nat, w > 0, NEW a \in Int, NEW b \in Int
  PROVE  /\ w * a <= w * b => a <= b
         /\ w * a < w * b => a < b
<1>1. a > b => a >= b + 1
  OBVIOUS
<1>2. a > b => w * a >= w * b + w
  <2> SUFFICES ASSUME a >= b + 1 PROVE w * a >= w * b + w
    BY <1>1
  <2>1. PICK c \in Nat : a = b + 1 + c
    <3>1. a - (b + 1) \in Nat /\ a = b + 1 + (a - (b + 1))
      OBVIOUS
    <3> QED
      BY <3>1
  <2>2. w * a = w * (b + 1) + w * c
    BY <2>1, Distribute
  <2>3. w * (b + 1) = w * b + w
    BY Distribute
  <2>4. w * c \in Nat /\ w * b \in Int
    OBVIOUS
  <2> QED
    BY <2>2, <2>3, <2>4
<1>3. w * a \in Int /\ w * b \in Int
  OBVIOUS
<1> QED
  BY <1>2, <1>3

(* Less than n n-ths of c are less than c. *)
LEMMA PartBelow ==
  ASSUME NEW g \in Nat, NEW n \in Nat, g < n, NEW c \in Nat, c > 0
  PROVE  (g * c) \div n < c
<1> DEFINE a == g * c
           q == a \div n
<1>1. n > 0 /\ a \in Nat
  OBVIOUS
<1>2. PICK e \in Nat : n = g + (e + 1)
  <2>1. n - (g + 1) \in Nat /\ n = g + ((n - (g + 1)) + 1)
    OBVIOUS
  <2> QED
    BY <2>1
<1>3. c * n = c * g + c * (e + 1) /\ c * (e + 1) = c * e + c /\ c * e \in Nat
  <2>1. c * (g + (e + 1)) = c * g + c * (e + 1)
    BY Distribute
  <2>2. c * (e + 1) = c * e + c
    BY Distribute
  <2> QED
    BY <1>2, <2>1, <2>2
<1>4. c * g = a /\ c * n = n * c /\ n * c \in Int
  OBVIOUS
<1> HIDE DEF a
<1>5. q \in Nat /\ n * q <= a
  BY <1>1, DivBounds
<1> HIDE DEF q
<1>6. n * q \in Int
  BY <1>5
<1>7. n * q < n * c
  <2> DEFINE nq == n * q
             nc == n * c
             ce == c * e
  <2>1. /\ nq \in Int /\ nc \in Int /\ ce \in Nat /\ nq <= a /\ nc = a + (ce + c)
    BY <1>3, <1>4, <1>5, <1>6
  <2> HIDE DEF nq, nc, ce
  <2>2. nq < nc
    BY <1>1, <2>1
  <2> QED
    BY <2>2 DEF nq, nc
<1>8. q < c
  BY <1>1, <1>5, <1>7, Cancel
<1> QED
  BY <1>8 DEF q, a

(* A share of a pool in proportion to a part of the pool is no less than   *)
(* what it is the share of.                                                *)
LEMMA ShareAtLeast ==
  ASSUME NEW P \in Nat, NEW c \in Nat, NEW w \in Nat, w > 0, w <= P
  PROVE  (P * c) \div w >= c
<1> DEFINE a == P * c
           q == a \div w
<1>1. PICK e \in Nat : P = w + e
  <2>1. P - w \in Nat /\ P = w + (P - w)
    OBVIOUS
  <2> QED
    BY <2>1
<1>2. c * P = c * w + c * e /\ c * e \in Nat /\ c * P = a /\ c * w = w * c
  <2>1. c * (w + e) = c * w + c * e
    BY Distribute
  <2> QED
    BY <1>1, <2>1
<1>3. a \in Nat
  OBVIOUS
<1> HIDE DEF a
<1>4. q \in Nat /\ a + 1 <= w * q + w
  BY <1>3, DivBounds
<1> HIDE DEF q
<1>5. w * (q + 1) = w * q + w
  BY <1>4, Distribute
<1>6. w * c < w * (q + 1)
  <2> DEFINE wc == w * c
             ce == c * e
             wq == w * q
             wn == w * (q + 1)
  <2>1. wc \in Int /\ ce \in Nat /\ wq \in Int /\ a = wc + ce /\ wn = wq + w /\ a + 1 <= wq + w
    BY <1>2, <1>4, <1>5
  <2> HIDE DEF wc, ce, wq, wn
  <2>2. wc < wn
    BY <1>3, <2>1
  <2> QED
    BY <2>2 DEF wc, wn
<1>7. c < q + 1
  BY <1>4, <1>6, Cancel
<1> QED
  BY <1>4, <1>7 DEF q, a

(* Shares of P in proportion to amounts that sum up to w, each rounded     *)
(* down, come to no more than P, and to less than a coin a share below it. *)
THEOREM SumShares ==
  ASSUME NEW a, NEW s, NEW S, IsFiniteSet(S), NEW P \in Nat, NEW w \in Nat, w > 0,
         \A k \in S : a[k] \in Nat /\ s[k] = (P * a[k]) \div w,
         SumFunctionOnSet(a, S) = w
  PROVE  /\ SumFunctionOnSet(s, S) \in Nat
         /\ SumFunctionOnSet(s, S) <= P
         /\ P < SumFunctionOnSet(s, S) + Cardinality(S)
<1> DEFINE A(T) == SumFunctionOnSet(a, T)
           B(T) == SumFunctionOnSet(s, T)
           Good == {T \in SUBSET S :
                      /\ w * B(T) <= P * A(T)
                      /\ P * A(T) + Cardinality(T) <= w * B(T) + w * Cardinality(T)}
<1>1. \A k \in S : /\ P * a[k] \in Nat /\ s[k] \in Nat
                   /\ w * s[k] <= P * a[k] /\ P * a[k] + 1 <= w * s[k] + w
  <2> TAKE k \in S
  <2>1. P * a[k] \in Nat
    OBVIOUS
  <2> QED
    BY <2>1, DivBounds
<1>2. {} \in Good
  <2>1. A({}) = 0 /\ B({}) = 0 /\ Cardinality({}) = 0
    BY SumEmpty, FS_EmptySet
  <2> HIDE DEF A, B
  <2> QED
    BY <2>1
<1>3. ASSUME NEW T \in SUBSET S, NEW x \in S, T \in Good, x \notin T
      PROVE  T \cup {x} \in Good
  <2>1. IsFiniteSet(T)
    BY FS_Subset
  <2>2. A(T \cup {x}) = a[x] + A(T) /\ A(T) \in Nat
    BY <1>3, <2>1, SumAdd, SumType
  <2>3. B(T \cup {x}) = s[x] + B(T) /\ B(T) \in Nat
    BY <1>1, <1>3, <2>1, SumAdd, SumType
  <2>4. Cardinality(T \cup {x}) = Cardinality(T) + 1 /\ Cardinality(T) \in Nat
    BY <1>3, <2>1, FS_AddElement, FS_CardinalityType
  <2>5. /\ w * B(T) <= P * A(T)
        /\ P * A(T) + Cardinality(T) <= w * B(T) + w * Cardinality(T)
    BY <1>3
  <2> HIDE DEF A, B
  <2>6. P * A(T \cup {x}) = P * a[x] + P * A(T)
    BY <2>2, Distribute
  <2>7. w * B(T \cup {x}) = w * s[x] + w * B(T)
    BY <1>1, <2>3, Distribute
  <2>8. w * Cardinality(T \cup {x}) = w * Cardinality(T) + w
    BY <2>4, Distribute
  <2>9. /\ P * A(T) \in Nat /\ w * B(T) \in Nat /\ w * Cardinality(T) \in Nat
        /\ P * a[x] \in Nat /\ w * s[x] \in Nat
    BY <1>1, <2>2, <2>3, <2>4
  <2>10. w * s[x] <= P * a[x] /\ P * a[x] + 1 <= w * s[x] + w
    BY <1>1
  <2>11. w * B(T \cup {x}) <= P * A(T \cup {x})
    BY <2>5, <2>6, <2>7, <2>9, <2>10
  <2>12. P * A(T \cup {x}) + Cardinality(T \cup {x})
           <= w * B(T \cup {x}) + w * Cardinality(T \cup {x})
    BY <2>4, <2>5, <2>6, <2>7, <2>8, <2>9, <2>10
  <2> QED
    BY <2>11, <2>12
<1> HIDE DEF Good
<1>4. S \in Good
  BY <1>2, <1>3, SetInduction
<1>5. A(S) = w /\ B(S) \in Nat
  BY <1>1, SumType
<1>6. Cardinality(S) \in Nat /\ Cardinality(S) > 0
  <2>1. SumFunctionOnSet(a, {}) = 0
    BY SumEmpty
  <2>2. ASSUME S = {} PROVE FALSE
    <3>1. SumFunctionOnSet(a, S) = SumFunctionOnSet(a, {})
      BY <2>2, Zenon
    <3> QED
      BY <2>1, <3>1
  <2> QED
    BY <2>2, FS_EmptySet, FS_CardinalityType
<1>7. /\ w * B(S) <= P * A(S)
      /\ P * A(S) + Cardinality(S) <= w * B(S) + w * Cardinality(S)
  BY <1>4 DEF Good
<1> HIDE DEF A, B
<1>8. P * A(S) = w * P /\ w * P \in Int
  BY <1>5
<1>9. B(S) <= P
  BY <1>5, <1>7, <1>8, Cancel
<1>10. w * B(S) + w * Cardinality(S) = w * (B(S) + Cardinality(S))
  BY <1>5, <1>6, Distribute
<1>11. w * P < w * (B(S) + Cardinality(S))
  <2>1. w * (B(S) + Cardinality(S)) \in Int
    BY <1>5, <1>6
  <2> QED
    BY <1>6, <1>7, <1>8, <1>10, <2>1
<1>12. P < B(S) + Cardinality(S)
  BY <1>5, <1>6, <1>11, Cancel
<1> QED
  BY <1>5, <1>9, <1>12 DEF A, B

(* A non-empty set of natural numbers below a bound has a largest element, *)
(* and Max chooses it.                                                     *)
THEOREM BoundedMax ==
  ASSUME NEW S \in SUBSET Nat, S # {}, NEW n \in Nat, \A s \in S : s <= n
  PROVE  Max(S) \in S /\ \A s \in S : s <= Max(S)
<1> DEFINE Good == {T \in SUBSET S : T # {} => \E m \in T : \A y \in T : m >= y}
<1>1. IsFiniteSet(S)
  BY FS_BoundedSetOfNaturals
<1>2. {} \in Good
  OBVIOUS
<1>3. \A T \in SUBSET S, x \in S : T \in Good /\ x \notin T => T \cup {x} \in Good
  <2> TAKE T \in SUBSET S, x \in S
  <2> HAVE T \in Good /\ x \notin T
  <2>1. CASE T = {}
    BY <2>1
  <2>2. CASE T # {}
    <3>1. PICK m \in T : \A y \in T : m >= y
      BY <2>2
    <3>2. CASE x >= m
      <4>1. \A y \in T \cup {x} : x >= y
        BY <3>1, <3>2
      <4> QED
        BY <4>1
    <3>3. CASE ~(x >= m)
      <4>1. \A y \in T \cup {x} : m >= y
        BY <3>1, <3>3
      <4> QED
        BY <4>1
    <3> QED
      BY <3>2, <3>3
  <2> QED
    BY <2>1, <2>2
<1> HIDE DEF Good
<1>4. S \in Good
  BY <1>1, <1>2, <1>3, SetInduction
<1>5. \E m \in S : \A y \in S : m >= y
  BY <1>4 DEF Good
<1> QED
  BY <1>5 DEF Max

(* An injection of one set into another, as a function. *)
THEOREM InjectionBound ==
  ASSUME NEW S, NEW T, IsFiniteSet(T), NEW f \in [S -> T],
         \A x, y \in S : f[x] = f[y] => x = y
  PROVE  IsFiniteSet(S) /\ Cardinality(S) <= Cardinality(T)
<1>1. f \in Injection(S, T)
  BY DEF Injection, IsInjective
<1> QED
  BY <1>1, FS_Injection

=============================================================================
