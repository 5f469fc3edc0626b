------------------------ MODULE PoolLibraries_proofs ------------------------
(***************************************************************************)
(* What the libraries under the pool compute, for every scale, price, rate *)
(* model and elapsed time: the fixed-point helpers of WadRayMath, the sums *)
(* of FiniteSums, the reserves of ReserveLogic, the valuations of          *)
(* RiskEngine and the amounts of LiquidationLogic.  The proofs about the   *)
(* pool cite these results and open none of the definitions again.         *)
(***************************************************************************)
EXTENDS LiquidationLogic, FiniteSetTheorems, WellFoundedInduction, TLAPS

-----------------------------------------------------------------------------
(***************************************************************************)
(* WadRayMath: the values are naturals, they round by less than one unit   *)
(* in the direction they name, and the round trips the pool makes (an      *)
(* amount to a scaled balance and back) never burn more than the balance.  *)
(***************************************************************************)

\* The product of naturals is a natural.
LEMMA MulNat ==
    ASSUME NEW a \in Nat, NEW b \in Nat
    PROVE  a * b \in Nat /\ a * b = b * a /\ (a # 0 /\ b # 0 => a * b # 0)
OBVIOUS

\* Multiplication by a natural is monotone.
LEMMA MulMonotone ==
    ASSUME NEW a \in Nat, NEW b \in Nat, NEW c \in Nat, a <= b
    PROVE  a * c <= b * c
<1>1. PICK d \in Nat : b = a + d
  <2>1. b - a \in Nat /\ b = a + (b - a)
    OBVIOUS
  <2> QED BY <2>1
<1>2. b * c = a * c + d * c
  BY <1>1
<1>3. d * c \in Nat /\ a * c \in Nat
  BY MulNat
<1> QED BY <1>2, <1>3

\* A positive factor can be cancelled.
LEMMA Cancel ==
    ASSUME NEW a \in Nat, NEW b \in Nat, NEW c \in Nat \ {0}, a * c < b * c
    PROVE  a < b
<1>1. SUFFICES ASSUME b <= a PROVE FALSE
  OBVIOUS
<1>2. b * c <= a * c
  BY <1>1, MulMonotone
<1>3. a * c \in Nat /\ b * c \in Nat
  BY MulNat
<1> QED BY <1>2, <1>3

\* The same for a bound that may be met.
LEMMA CancelAtMost ==
    ASSUME NEW a \in Nat, NEW b \in Nat, NEW c \in Nat \ {0}, a * c <= b * c
    PROVE  a <= b
<1>1. SUFFICES ASSUME b < a PROVE FALSE
  OBVIOUS
<1>2. (b + 1) * c <= a * c
  BY <1>1, MulMonotone
<1>3. (b + 1) * c = b * c + c /\ b * c \in Nat
  BY MulNat
<1> QED BY <1>2, <1>3

\* The defining inequalities of division rounding down.
LEMMA DivDown ==
    ASSUME NEW a \in Nat, NEW b \in Nat \ {0}
    PROVE  /\ a \div b \in Nat
           /\ (a \div b) * b <= a
           /\ a < (a \div b) * b + b
           /\ a % b \in Nat
           /\ a = (a \div b) * b + (a % b)
OBVIOUS

\* The defining inequalities of division rounding up.
LEMMA DivUpBounds ==
    ASSUME NEW a \in Nat, NEW b \in Nat \ {0}
    PROVE  /\ DivUp(a, b) \in Nat
           /\ a <= DivUp(a, b) * b
           /\ DivUp(a, b) * b < a + b
           /\ a # 0 => DivUp(a, b) # 0
<1> DEFINE q == a \div b
           r == a % b
<1>1. q \in Nat /\ r \in Nat /\ a = q * b + r /\ r < b
  BY DivDown
<1>2. DivUp(a, b) = q + (IF r = 0 THEN 0 ELSE 1)
  BY DEF DivUp
<1> HIDE DEF q, r
<1>3. (q + 1) * b = q * b + b /\ q * b \in Nat
  BY <1>1
<1>4. CASE r = 0
  <2>1. DivUp(a, b) = q /\ a = q * b
    BY <1>1, <1>2, <1>3, <1>4
  <2>2. q = 0 => q * b = 0
    BY <1>1
  <2> QED BY <2>1, <2>2, <1>1, <1>3
<1>5. CASE r # 0
  <2>1. DivUp(a, b) = q + 1
    BY <1>2, <1>5
  <2> QED BY <2>1, <1>1, <1>3, <1>5
<1> QED BY <1>4, <1>5

\* Dividing a number that b * c bounds yields at most c, in either direction.
LEMMA DivUpAtMost ==
    ASSUME NEW a \in Nat, NEW b \in Nat \ {0}, NEW c \in Nat, a <= c * b
    PROVE  DivUp(a, b) <= c
<1>1. DivUp(a, b) \in Nat /\ DivUp(a, b) * b < a + b
  BY DivUpBounds
<1>2. (c + 1) * b = c * b + b /\ c * b \in Nat /\ DivUp(a, b) * b \in Nat
  BY <1>1, MulNat
<1>3. DivUp(a, b) * b < (c + 1) * b
  BY <1>1, <1>2
<1>4. DivUp(a, b) < c + 1
  BY <1>1, <1>3, Cancel
<1> QED BY <1>1, <1>4

\* A quotient is bounded by what the dividend is a multiple of.
LEMMA DivDownBelow ==
    ASSUME NEW a \in Nat, NEW b \in Nat \ {0}, NEW c \in Nat, a < c * b
    PROVE  a \div b < c
<1>1. a \div b \in Nat /\ (a \div b) * b <= a
  BY DivDown
<1>2. c * b \in Nat /\ (a \div b) * b \in Nat
  BY <1>1, MulNat
<1>3. (a \div b) * b < c * b
  BY <1>1, <1>2
<1> QED BY <1>1, <1>3, Cancel

\* Division rounding down is monotone in its dividend.
LEMMA DivDownMonotone ==
    ASSUME NEW a \in Nat, NEW b \in Nat \ {0}, NEW c \in Nat, a <= c
    PROVE  a \div b <= c \div b
<1>1. /\ c \div b \in Nat /\ c < (c \div b) * b + b
      /\ a \div b \in Nat
  BY DivDown
<1>2. (c \div b + 1) * b = (c \div b) * b + b /\ (c \div b) * b \in Nat
  BY <1>1, MulNat
<1>3. a < (c \div b + 1) * b
  BY <1>1, <1>2
<1>4. a \div b < c \div b + 1
  BY <1>1, <1>3, DivDownBelow
<1> QED BY <1>1, <1>4

\* Rounding up and rounding down differ by at most one.
LEMMA DivNear ==
    ASSUME NEW a \in Nat, NEW b \in Nat \ {0}
    PROVE  /\ a \div b \in Nat /\ DivUp(a, b) \in Nat
           /\ a \div b <= DivUp(a, b) /\ DivUp(a, b) <= a \div b + 1
BY DivDown DEF DivUp

\* Division rounding up is monotone in its dividend.
LEMMA DivUpMonotone ==
    ASSUME NEW a \in Nat, NEW b \in Nat \ {0}, NEW c \in Nat, a <= c
    PROVE  DivUp(a, b) <= DivUp(c, b)
<1>1. DivUp(c, b) \in Nat /\ c <= DivUp(c, b) * b
  BY DivUpBounds
<1>2. DivUp(c, b) * b \in Nat
  BY <1>1, MulNat
<1>3. a <= DivUp(c, b) * b
  BY <1>1, <1>2
<1> QED BY <1>1, <1>3, DivUpAtMost

\* A ratio in wad is at least one exactly when the dividend covers the divisor.
LEMMA WadRatio ==
    ASSUME NEW a \in Nat, NEW b \in Nat \ {0}
    PROVE  WadDivDown(a, b) >= WAD <=> b <= a
<1> DEFINE q == (a * WAD) \div b
<1>1. WAD \in Nat \ {0} /\ a * WAD \in Nat /\ b * WAD \in Nat /\ WAD * b = b * WAD
  BY MulNat, ScaleAssumption
<1>2. q \in Nat /\ q * b <= a * WAD /\ a * WAD < q * b + b
  BY <1>1, DivDown
<1> HIDE DEF q
<1>3. q * b \in Nat /\ (q + 1) * b = q * b + b
  BY <1>2, MulNat
<1>4. ASSUME q >= WAD PROVE b <= a
  <2>1. WAD * b <= q * b
    BY <1>1, <1>2, <1>4, MulMonotone
  <2>2. SUFFICES ASSUME a + 1 <= b PROVE FALSE
    OBVIOUS
  <2>3. (a + 1) * WAD <= b * WAD
    BY <1>1, <2>2, MulMonotone
  <2>4. (a + 1) * WAD = a * WAD + WAD
    BY <1>1
  <2> QED BY <1>1, <1>2, <1>3, <2>1, <2>3, <2>4
<1>5. ASSUME b <= a PROVE q >= WAD
  <2>1. b * WAD <= a * WAD
    BY <1>1, <1>5, MulMonotone
  <2>2. SUFFICES ASSUME q + 1 <= WAD PROVE FALSE
    BY <1>1, <1>2
  <2>3. (q + 1) * b <= WAD * b
    BY <1>1, <1>2, <2>2, MulMonotone
  <2> QED BY <1>1, <1>2, <1>3, <2>1, <2>3
<1> QED BY <1>4, <1>5 DEF WadDivDown, q

-----------------------------------------------------------------------------

\* Every helper returns a natural number.
THEOREM RayType ==
    ASSUME NEW a \in Nat, NEW b \in Nat
    PROVE  /\ RayMulDown(a, b) \in Nat
           /\ RayMulUp(a, b) \in Nat
           /\ b # 0 => RayDivDown(a, b) \in Nat /\ RayDivUp(a, b) \in Nat
           /\ PercentMulDown(a, b) \in Nat
<1>1. a * b \in Nat /\ a * RAY \in Nat /\ RAY \in Nat \ {0}
  BY MulNat, ScaleAssumption
<1> QED BY <1>1, DivDown, DivUpBounds, ScaleAssumption
        DEF RayMulDown, RayMulUp, RayDivDown, RayDivUp, PercentMulDown

\* A non-zero amount is a non-zero scaled debt.
THEOREM RayDivUpPositive ==
    ASSUME NEW a \in Nat \ {0}, NEW b \in Nat \ {0}
    PROVE  RayDivUp(a, b) \in Nat \ {0}
<1>1. a * RAY \in Nat \ {0}
  BY MulNat, ScaleAssumption
<1> QED BY <1>1, DivUpBounds DEF RayDivUp

\* Withdrawing or seizing an amount the balance covers burns at most the balance.
THEOREM BurnUpWithinBalance ==
    ASSUME NEW scaled \in Nat, NEW index \in Nat \ {0}, NEW amount \in Nat,
           amount <= RayMulDown(scaled, index)
    PROVE  RayDivUp(amount, index) \in Nat /\ RayDivUp(amount, index) <= scaled
<1>1. scaled * index \in Nat /\ RAY \in Nat \ {0}
  BY MulNat, ScaleAssumption
<1>2. RayMulDown(scaled, index) \in Nat /\ RayMulDown(scaled, index) * RAY <= scaled * index
  BY <1>1, DivDown DEF RayMulDown
<1>3. amount * RAY <= RayMulDown(scaled, index) * RAY
  BY <1>1, <1>2, MulMonotone
<1>4. amount * RAY \in Nat /\ RayMulDown(scaled, index) * RAY \in Nat
  BY <1>1, <1>2, MulNat
<1>5. amount * RAY <= scaled * index
  BY <1>1, <1>2, <1>3, <1>4
<1> QED BY <1>4, <1>5, DivUpAtMost, DivUpBounds DEF RayDivUp

\* Repaying less than the debt burns less than the scaled debt.
THEOREM BurnDownWithinDebt ==
    ASSUME NEW scaled \in Nat, NEW index \in Nat \ {0}, NEW amount \in Nat,
           amount < RayMulUp(scaled, index)
    PROVE  RayDivDown(amount, index) \in Nat /\ RayDivDown(amount, index) < scaled
<1>1. scaled * index \in Nat /\ RAY \in Nat \ {0} /\ amount * RAY \in Nat
  BY MulNat, ScaleAssumption
<1>2. /\ RayMulUp(scaled, index) \in Nat
      /\ RayMulUp(scaled, index) * RAY < scaled * index + RAY
  BY <1>1, DivUpBounds DEF RayMulUp
<1>3. (amount + 1) * RAY <= RayMulUp(scaled, index) * RAY
  BY <1>1, <1>2, MulMonotone
<1>4. (amount + 1) * RAY = amount * RAY + RAY /\ RayMulUp(scaled, index) * RAY \in Nat
  BY <1>1, <1>2, MulNat
<1>5. amount * RAY < scaled * index
  BY <1>1, <1>2, <1>3, <1>4
<1> QED BY <1>1, <1>5, DivDownBelow, DivDown DEF RayDivDown

\* A growth factor of at least one never lowers an index.
THEOREM RayMulGrows ==
    ASSUME NEW factor \in Nat, NEW index \in Nat, RAY <= factor
    PROVE  index <= RayMulDown(factor, index) /\ index <= RayMulUp(factor, index)
<1>1. RAY \in Nat \ {0} /\ factor * index \in Nat /\ RAY * index \in Nat
  BY MulNat, ScaleAssumption
<1>2. index * RAY <= factor * index
  BY <1>1, MulMonotone, MulNat
<1>3. index * RAY \in Nat
  BY <1>1, MulNat
<1>4. index <= RayMulDown(factor, index)
  <2> DEFINE q == RayMulDown(factor, index)
  <2>1. q \in Nat /\ factor * index < q * RAY + RAY
    BY <1>1, DivDown DEF RayMulDown
  <2> HIDE DEF q
  <2>2. (q + 1) * RAY = q * RAY + RAY /\ q * RAY \in Nat
    BY <2>1, <1>1, MulNat
  <2>3. index * RAY < (q + 1) * RAY
    BY <2>1, <2>2, <1>1, <1>2, <1>3
  <2>4. index < q + 1
    BY <2>1, <2>3, <1>1, Cancel
  <2> QED BY <2>1, <2>4 DEF q
<1>5. RayMulDown(factor, index) <= RayMulUp(factor, index)
  BY <1>1, DivDown DEF RayMulDown, RayMulUp, DivUp
<1>6. RayMulDown(factor, index) \in Nat /\ RayMulUp(factor, index) \in Nat
  BY RayType
<1> QED BY <1>4, <1>5, <1>6

-----------------------------------------------------------------------------
(***************************************************************************)
(* FiniteSums: the fold behind SumOver is a recursive function over the    *)
(* subsets of a set, chosen by CHOOSE; the first lemmas show that it       *)
(* exists, by induction on the cardinality, and the others are the laws    *)
(* the invariants of the pool rest on.  Inductions are over a set of good  *)
(* subsets, never over a predicate.                                        *)
(***************************************************************************)

\* The element the fold takes out of a set.
Pick(s) == CHOOSE x \in s : TRUE

\* it follows the recursion of the fold at s.
Adds(it, f, s) == it[s] = IF s = {} THEN 0 ELSE f[Pick(s)] + it[s \ {Pick(s)}]

\* The recursive function of the fold over the subsets of S.
Iter(f, S) ==
    CHOOSE it : it = [s \in SUBSET S |-> IF s = {} THEN 0 ELSE f[Pick(s)] + it[s \ {Pick(s)}]]

\* The fold of the community modules, opened to the recursive function it applies.
LEMMA Unfold ==
    ASSUME NEW f, NEW S
    PROVE  SumOver(f, S) = Iter(f, S)[S]
BY DEF SumOver, MapThenFoldSet, Iter, Pick

\* The element the fold takes next is one of the set's.
LEMMA PickIn ==
    ASSUME NEW s, s # {}
    PROVE  Pick(s) \in s
BY DEF Pick

\* A set of numbers that holds 0 and every successor of a member holds them all.
LEMMA NatInduction_Set ==
    ASSUME NEW T, 0 \in T, \A n \in Nat : n \in T => n + 1 \in T
    PROVE  Nat \subseteq T
<1>1. SUFFICES ASSUME Nat \ T # {} PROVE FALSE
  OBVIOUS
<1>2. PICK m \in Nat \ T : \A y \in Nat \ T : ~(<<y, m>> \in OpToRel(<, Nat))
  BY <1>1, NatLessThanWellFounded, WFMin
<1>3. m \in Nat /\ m \notin T /\ m # 0
  OBVIOUS
<1>4. m - 1 \in Nat
  BY <1>3
<1>5. m - 1 \in T
  <2>1. <<m - 1, m>> \in OpToRel(<, Nat)
    BY <1>3, <1>4 DEF OpToRel
  <2> QED BY <2>1, <1>2, <1>4, Zenon
<1> QED BY <1>3, <1>4, <1>5

\* A set of subsets of a finite S that holds a set whenever it holds its proper
\* subsets holds them all.
LEMMA SubsetInduction ==
    ASSUME NEW S, IsFiniteSet(S), NEW G,
           \A s \in SUBSET S : (\A t \in SUBSET s : t # s => t \in G) => s \in G
    PROVE  \A s \in SUBSET S : s \in G
<1> DEFINE Bad == (SUBSET S) \ G
<1>1. SUFFICES ASSUME Bad # {} PROVE FALSE
  OBVIOUS
<1>2. IsWellFoundedOn(StrictSubsetOrdering(S), SUBSET S)
  BY FS_StrictSubsetOrderingWellFounded, FS_FiniteSubsetsOfFinite, Zenon
<1>3. PICK m \in Bad : \A y \in Bad : ~(<<y, m>> \in StrictSubsetOrdering(S))
  <2>1. Bad \subseteq SUBSET S
    OBVIOUS
  <2> HIDE DEF Bad
  <2> QED BY <1>1, <1>2, <2>1, WFMin
<1>4. \A t \in SUBSET m : t # m => t \in G
  <2> SUFFICES ASSUME NEW t \in SUBSET m, t # m, t \notin G PROVE FALSE
    OBVIOUS
  <2>1. t \in Bad
    OBVIOUS
  <2>2. <<t, m>> \in StrictSubsetOrdering(S)
    BY <2>1 DEF StrictSubsetOrdering
  <2> QED BY <2>1, <2>2, <1>3
<1> QED BY <1>3, <1>4

\* Some element of a finite set that is not empty has the largest value.
LEMMA MaximumExists ==
    ASSUME NEW S, IsFiniteSet(S), S # {}, NEW f, \A x \in S : f[x] \in Int
    PROVE  \E m \in S : \A x \in S : f[x] <= f[m]
<1> DEFINE G == {s \in SUBSET S : s # {} => \E m \in s : \A x \in s : f[x] <= f[m]}
<1>1. ASSUME NEW s \in SUBSET S, \A t \in SUBSET s : t # s => t \in G
      PROVE  s \in G
  <2> SUFFICES ASSUME s # {} PROVE \E m \in s : \A x \in s : f[x] <= f[m]
    OBVIOUS
  <2>1. PICK y \in s : TRUE
    OBVIOUS
  <2> DEFINE t == s \ {y}
  <2>2. t \in G
    BY <1>1, <2>1
  <2>3. CASE t = {}
    <3>1. \A x \in s : x = y
      BY <2>3
    <3>2. f[y] <= f[y]
      BY <2>1
    <3> QED BY <2>1, <3>1, <3>2
  <2>4. CASE t # {}
    <3>1. PICK m \in t : \A x \in t : f[x] <= f[m]
      BY <2>2, <2>4
    <3>2. f[m] \in Int /\ f[y] \in Int /\ \A x \in t : f[x] \in Int
      BY <2>1, <3>1
    <3>3. CASE f[y] <= f[m]
      <4>1. \A x \in s : x = y \/ x \in t
        OBVIOUS
      <4> QED BY <3>1, <3>3, <4>1
    <3>4. CASE f[m] < f[y]
      <4>1. \A x \in t : f[x] <= f[y]
        BY <3>1, <3>2, <3>4
      <4>2. \A x \in s : x = y \/ x \in t
        OBVIOUS
      <4>3. f[y] <= f[y]
        BY <3>2
      <4> QED BY <2>1, <4>1, <4>2, <4>3
    <3> QED BY <3>2, <3>3, <3>4
  <2> QED BY <2>3, <2>4
<1> HIDE DEF G
<1>2. S \in G
  BY <1>1, SubsetInduction
<1> QED BY <1>2 DEF G

\* Taking an element out lowers the cardinality by one.
LEMMA Subsets ==
    ASSUME NEW S, IsFiniteSet(S), NEW s \in SUBSET S
    PROVE  /\ IsFiniteSet(s)
           /\ Cardinality(s) \in Nat
           /\ Cardinality(s) = 0 <=> s = {}
           /\ Cardinality(s) <= Cardinality(S)
           /\ s # {} => /\ Pick(s) \in s
                        /\ Pick(s) \in S
                        /\ s \ {Pick(s)} \in SUBSET S
                        /\ Cardinality(s \ {Pick(s)}) = Cardinality(s) - 1
BY FS_Subset, FS_CardinalityType, FS_EmptySet, FS_RemoveElement, PickIn

\* The recursion has a solution with natural values.
LEMMA IterExists ==
    ASSUME NEW f, NEW S, IsFiniteSet(S), \A x \in S : f[x] \in Nat
    PROVE  \E it \in [SUBSET S -> Nat] : \A s \in SUBSET S : Adds(it, f, s)
<1> DEFINE Dom(n) == {s \in SUBSET S : Cardinality(s) <= n}
           T == {n \in Nat : \E g \in [Dom(n) -> Nat] : \A s \in Dom(n) : Adds(g, f, s)}
<1>1. 0 \in T
  <2> DEFINE g == [s \in Dom(0) |-> 0]
  <2>1. g \in [Dom(0) -> Nat]
    OBVIOUS
  <2>2. \A s \in Dom(0) : s = {}
    <3> TAKE s \in Dom(0)
    <3>1. Cardinality(s) <= 0 /\ s \in SUBSET S
      OBVIOUS
    <3>2. Cardinality(s) \in Nat /\ (Cardinality(s) = 0 <=> s = {})
      BY <3>1, Subsets
    <3> QED BY <3>1, <3>2
  <2>3. \A s \in Dom(0) : Adds(g, f, s)
    BY <2>2 DEF Adds
  <2> HIDE DEF g
  <2> QED BY <2>1, <2>3
<1>2. \A n \in Nat : n \in T => n + 1 \in T
  <2> SUFFICES ASSUME NEW n \in Nat, n \in T PROVE n + 1 \in T
    OBVIOUS
  <2>1. PICK g \in [Dom(n) -> Nat] : \A s \in Dom(n) : Adds(g, f, s)
    OBVIOUS
  <2> DEFINE h == [s \in Dom(n + 1) |-> IF Cardinality(s) <= n
                                        THEN g[s]
                                        ELSE f[Pick(s)] + g[s \ {Pick(s)}]]
  <2>2. \A s \in Dom(n + 1) : s # {} => /\ s \ {Pick(s)} \in Dom(n)
                                        /\ f[Pick(s)] \in Nat
    BY Subsets
  <2>3. \A s \in Dom(n + 1) : s \notin Dom(n) => s # {}
    <3> SUFFICES ASSUME {} \in SUBSET S, {} \notin Dom(n) PROVE FALSE
      OBVIOUS
    <3> QED BY FS_EmptySet
  <2>4. \A s \in Dom(n) : s \in Dom(n + 1) /\ h[s] = g[s]
    <3> TAKE s \in Dom(n)
    <3>1. s \in SUBSET S /\ Cardinality(s) <= n
      OBVIOUS
    <3>2. Cardinality(s) \in Nat
      BY <3>1, Subsets
    <3>3. Cardinality(s) <= n + 1
      BY <3>1, <3>2
    <3> QED BY <3>1, <3>3
  <2>5. h \in [Dom(n + 1) -> Nat]
    BY <2>1, <2>2, <2>3
  <2>6. \A s \in Dom(n + 1) : Adds(h, f, s)
    <3> TAKE s \in Dom(n + 1)
    <3>1. s # {} => h[s \ {Pick(s)}] = g[s \ {Pick(s)}]
      BY <2>2, <2>4
    <3>2. CASE s \in Dom(n)
      <4>1. h[s] = g[s]
        BY <2>4, <3>2
      <4>2. Adds(g, f, s)
        BY <2>1, <3>2
      <4> HIDE DEF h, Dom
      <4> QED BY <4>1, <4>2, <3>1 DEF Adds
    <3>3. CASE s \notin Dom(n)
      <4>1. s # {}
        BY <2>3, <3>3
      <4>2. h[s] = f[Pick(s)] + g[s \ {Pick(s)}]
        BY <3>3
      <4> HIDE DEF h, Dom
      <4> QED BY <4>1, <4>2, <3>1 DEF Adds
    <3> QED BY <3>2, <3>3
  <2> HIDE DEF h
  <2>7. \E k \in [Dom(n + 1) -> Nat] : \A s \in Dom(n + 1) : Adds(k, f, s)
    BY <2>5, <2>6, Zenon
  <2> HIDE DEF Dom
  <2> QED BY <2>7
<1>3. Cardinality(S) \in Nat /\ Cardinality(S) \in T
  BY <1>1, <1>2, NatInduction_Set, FS_CardinalityType
<1>4. Dom(Cardinality(S)) = SUBSET S
  BY Subsets
<1> QED BY <1>3, <1>4

\* A solution is the fold's own function, and gives the sum.
LEMMA SumIs ==
    ASSUME NEW f, NEW S, IsFiniteSet(S), \A x \in S : f[x] \in Nat,
           NEW it \in [SUBSET S -> Nat], \A s \in SUBSET S : Adds(it, f, s)
    PROVE  SumOver(f, S) = it[S]
<1> DEFINE F(g) == [s \in SUBSET S |-> IF s = {} THEN 0 ELSE f[Pick(s)] + g[s \ {Pick(s)}]]
           jt == Iter(f, S)
           G == {s \in SUBSET S : jt[s] = it[s]}
<1>1. it = F(it)
  BY DEF Adds
<1>2. jt = F(jt)
  BY <1>1 DEF Iter
<1>3. \A s \in SUBSET S : (\A t \in SUBSET s : t # s => t \in G) => s \in G
  <2> TAKE s \in SUBSET S
  <2> HAVE \A t \in SUBSET s : t # s => t \in G
  <2>1. jt[s] = IF s = {} THEN 0 ELSE f[Pick(s)] + jt[s \ {Pick(s)}]
    BY <1>2
  <2>2. it[s] = IF s = {} THEN 0 ELSE f[Pick(s)] + it[s \ {Pick(s)}]
    BY DEF Adds
  <2>3. s # {} => jt[s \ {Pick(s)}] = it[s \ {Pick(s)}]
    BY PickIn
  <2> HIDE DEF jt
  <2> QED BY <2>1, <2>2, <2>3
<1>4. S \in G
  <2> HIDE DEF G
  <2> QED BY <1>3, SubsetInduction
<1> QED BY <1>4, Unfold

\* The sum over no element is 0.
THEOREM SumEmpty ==
    ASSUME NEW f
    PROVE  SumOver(f, {}) = 0
<1>1. PICK it \in [SUBSET {} -> Nat] : \A s \in SUBSET {} : Adds(it, f, s)
  BY IterExists, FS_EmptySet
<1>2. SumOver(f, {}) = it[{}]
  BY <1>1, SumIs, FS_EmptySet
<1> QED BY <1>1, <1>2 DEF Adds

\* The recursion of the fold, for the sum itself.
LEMMA SumStep ==
    ASSUME NEW f, NEW S, IsFiniteSet(S), \A x \in S : f[x] \in Nat
    PROVE  /\ SumOver(f, S) \in Nat
           /\ S # {} => SumOver(f, S) = f[Pick(S)] + SumOver(f, S \ {Pick(S)})
<1>1. PICK it \in [SUBSET S -> Nat] : \A s \in SUBSET S : Adds(it, f, s)
  BY IterExists
<1>2. SumOver(f, S) = it[S]
  BY <1>1, SumIs
<1>3. ASSUME S # {}
      PROVE  SumOver(f, S \ {Pick(S)}) = it[S \ {Pick(S)}]
  <2> DEFINE T == S \ {Pick(S)}
             jt == [s \in SUBSET T |-> it[s]]
  <2>1. T \in SUBSET S /\ IsFiniteSet(T)
    BY FS_Subset
  <2>2. jt \in [SUBSET T -> Nat]
    BY <1>1, <2>1
  <2>3. \A s \in SUBSET T : Adds(jt, f, s)
    <3> TAKE s \in SUBSET T
    <3>1. s \in SUBSET S /\ s \ {Pick(s)} \in SUBSET T
      BY <2>1
    <3>2. Adds(it, f, s)
      BY <3>1, <1>1
    <3>3. jt[s] = it[s] /\ jt[s \ {Pick(s)}] = it[s \ {Pick(s)}]
      BY <3>1
    <3> HIDE DEF jt
    <3> QED BY <3>2, <3>3 DEF Adds
  <2>4. \A x \in T : f[x] \in Nat
    OBVIOUS
  <2>5. jt[T] = it[T]
    OBVIOUS
  <2> HIDE DEF jt, T
  <2>6. SumOver(f, T) = jt[T]
    BY <2>1, <2>2, <2>3, <2>4, SumIs
  <2> QED BY <2>5, <2>6 DEF T
<1>4. Adds(it, f, S)
  BY <1>1
<1> QED BY <1>1, <1>2, <1>3, <1>4 DEF Adds

\* A finite sum of naturals is a natural.
THEOREM SumType ==
    ASSUME NEW f, NEW S, IsFiniteSet(S), \A x \in S : f[x] \in Nat
    PROVE  SumOver(f, S) \in Nat
BY SumStep

\* Any element can be taken out of a sum.
THEOREM SumElement ==
    ASSUME NEW f, NEW S, IsFiniteSet(S), \A x \in S : f[x] \in Nat
    PROVE  \A x \in S : SumOver(f, S) = f[x] + SumOver(f, S \ {x})
<1> DEFINE G == {s \in SUBSET S : \A x \in s : SumOver(f, s) = f[x] + SumOver(f, s \ {x})}
<1>1. ASSUME NEW s \in SUBSET S, \A t \in SUBSET s : t # s => t \in G
      PROVE  s \in G
  <2> SUFFICES ASSUME NEW x \in s
               PROVE  SumOver(f, s) = f[x] + SumOver(f, s \ {x})
    OBVIOUS
  <2> DEFINE p == Pick(s)
  <2>1. p \in s
    BY PickIn
  <2> HIDE DEF p
  <2>2. SumOver(f, s) = f[p] + SumOver(f, s \ {p})
    BY SumStep, FS_Subset DEF p
  <2>3. CASE x = p
    BY <2>2, <2>3
  <2>4. CASE x # p
    <3>1. s \ {p} \in G /\ x \in s \ {p} /\ s \ {x} \in G /\ p \in s \ {x}
      BY <1>1, <2>1, <2>4
    <3>2. SumOver(f, s \ {p}) = f[x] + SumOver(f, (s \ {p}) \ {x})
      BY <3>1
    <3>3. SumOver(f, s \ {x}) = f[p] + SumOver(f, (s \ {x}) \ {p})
      BY <3>1
    <3>4. (s \ {p}) \ {x} = (s \ {x}) \ {p}
      OBVIOUS
    <3>5. SumOver(f, (s \ {x}) \ {p}) \in Nat /\ f[x] \in Nat /\ f[p] \in Nat
      BY <2>1, SumType, FS_Subset
    <3> QED BY <2>2, <3>2, <3>3, <3>4, <3>5
  <2> QED BY <2>3, <2>4
<1>2. S \in G
  <2> HIDE DEF G
  <2> QED BY <1>1, SubsetInduction
<1> QED BY <1>2

\* Functions that agree on a set have the same sum over it.
THEOREM SumEqual ==
    ASSUME NEW f, NEW g, NEW S, IsFiniteSet(S),
           \A x \in S : f[x] \in Nat /\ g[x] = f[x]
    PROVE  SumOver(g, S) = SumOver(f, S)
<1> DEFINE G == {s \in SUBSET S : SumOver(g, s) = SumOver(f, s)}
<1>1. ASSUME NEW s \in SUBSET S, \A t \in SUBSET s : t # s => t \in G
      PROVE  s \in G
  <2>1. CASE s = {}
    BY <2>1, SumEmpty
  <2>2. CASE s # {}
    <3> DEFINE p == Pick(s)
    <3>1. p \in s
      BY <2>2, PickIn
    <3>2. s \ {p} \in G
      BY <1>1, <3>1
    <3>3. IsFiniteSet(s)
      BY FS_Subset
    <3>4. SumOver(f, s) = f[p] + SumOver(f, s \ {p})
      BY <2>2, <3>3, SumStep
    <3>5. SumOver(g, s) = g[p] + SumOver(g, s \ {p})
      BY <2>2, <3>3, SumStep
    <3> HIDE DEF p
    <3> QED BY <3>1, <3>2, <3>4, <3>5
  <2> QED BY <2>1, <2>2
<1>2. S \in G
  <2> HIDE DEF G
  <2> QED BY <1>1, SubsetInduction
<1> QED BY <1>2

\* Changing the value at one element changes the sum by as much.
THEOREM SumUpdate ==
    ASSUME NEW f, NEW g, NEW S, IsFiniteSet(S), NEW x \in S,
           \A y \in S : f[y] \in Nat /\ g[y] \in Nat,
           \A y \in S \ {x} : g[y] = f[y]
    PROVE  SumOver(g, S) = SumOver(f, S) - f[x] + g[x]
<1>1. SumOver(f, S) = f[x] + SumOver(f, S \ {x})
  BY SumElement
<1>2. SumOver(g, S) = g[x] + SumOver(g, S \ {x})
  BY SumElement
<1>3. IsFiniteSet(S \ {x})
  BY FS_Subset
<1>4. SumOver(f, S \ {x}) \in Nat
  BY <1>3, SumType
<1>5. SumOver(g, S \ {x}) = SumOver(f, S \ {x})
  BY <1>3, SumEqual
<1> QED BY <1>1, <1>2, <1>4, <1>5

\* No value exceeds the sum it is part of.
THEOREM SumBound ==
    ASSUME NEW f, NEW S, IsFiniteSet(S), \A x \in S : f[x] \in Nat, NEW x \in S
    PROVE  f[x] <= SumOver(f, S)
<1>1. SumOver(f, S) = f[x] + SumOver(f, S \ {x})
  BY SumElement
<1>2. SumOver(f, S \ {x}) \in Nat
  BY SumType, FS_Subset
<1> QED BY <1>1, <1>2

\* A sum of zeros is 0: the totals of a reserve nobody uses yet.
THEOREM SumOfZeros ==
    ASSUME NEW f, NEW S, IsFiniteSet(S), \A x \in S : f[x] = 0
    PROVE  SumOver(f, S) = 0
<1> DEFINE G == {s \in SUBSET S : SumOver(f, s) = 0}
<1>1. ASSUME NEW s \in SUBSET S, \A t \in SUBSET s : t # s => t \in G
      PROVE  s \in G
  <2>1. CASE s = {}
    BY <2>1, SumEmpty
  <2>2. CASE s # {}
    <3> DEFINE p == Pick(s)
    <3>1. p \in s
      BY <2>2, PickIn
    <3>2. s \ {p} \in G
      BY <1>1, <3>1
    <3>3. IsFiniteSet(s)
      BY FS_Subset
    <3>4. SumOver(f, s) = f[p] + SumOver(f, s \ {p})
      BY <2>2, <3>3, SumStep
    <3> HIDE DEF p
    <3> QED BY <3>1, <3>2, <3>4
  <2> QED BY <2>1, <2>2
<1>2. S \in G
  <2> HIDE DEF G
  <2> QED BY <1>1, SubsetInduction
<1> QED BY <1>2

\* A sum grows with its summands and with its set.
THEOREM SumMonotone ==
    ASSUME NEW f, NEW g, NEW T, IsFiniteSet(T), NEW S \in SUBSET T,
           \A x \in T : g[x] \in Nat, \A x \in S : f[x] \in Nat /\ f[x] <= g[x]
    PROVE  SumOver(f, S) <= SumOver(g, T)
<1> DEFINE G == {t \in SUBSET T : SumOver(f, t \cap S) <= SumOver(g, t)}
<1>1. ASSUME NEW t \in SUBSET T, \A s \in SUBSET t : s # t => s \in G
      PROVE  t \in G
  <2>1. CASE t = {}
    <3>1. t \cap S = {} /\ SumOver(f, {}) = 0 /\ SumOver(g, {}) = 0
      BY <2>1, SumEmpty
    <3> QED BY <2>1, <3>1
  <2>2. CASE t # {}
    <3> DEFINE p == Pick(t)
               rest == t \ {p}
    <3>1. p \in t /\ rest \in SUBSET t /\ rest # t
      BY <2>2, PickIn
    <3>2. rest \in G
      BY <1>1, <3>1
    <3>3. IsFiniteSet(t) /\ IsFiniteSet(t \cap S) /\ IsFiniteSet(rest) /\ IsFiniteSet(rest \cap S)
      BY FS_Subset
    <3>4. SumOver(g, t) = g[p] + SumOver(g, rest)
      BY <2>2, <3>3, SumStep
    <3>5. /\ SumOver(g, rest) \in Nat /\ SumOver(f, rest \cap S) \in Nat
          /\ g[p] \in Nat
      BY <3>1, <3>3, SumType
    <3> HIDE DEF p
    <3>6. SumOver(f, rest \cap S) <= SumOver(g, rest)
      BY <3>2
    <3>7. CASE p \in S
      <4>1. p \in t \cap S /\ (t \cap S) \ {p} = rest \cap S
        BY <3>1, <3>7
      <4>2. SumOver(f, t \cap S) = f[p] + SumOver(f, (t \cap S) \ {p})
        BY <3>3, <4>1, SumElement
      <4> HIDE DEF rest
      <4>3. SumOver(f, t \cap S) <= SumOver(g, t)
        BY <3>4, <3>5, <3>6, <3>7, <4>1, <4>2
      <4> QED BY <4>3
    <3>8. CASE p \notin S
      <4>1. t \cap S = rest \cap S
        BY <3>8
      <4> HIDE DEF rest
      <4>2. SumOver(f, t \cap S) = SumOver(f, rest \cap S)
        BY <4>1, Zenon
      <4>3. SumOver(f, t \cap S) <= SumOver(g, t)
        BY <3>4, <3>5, <3>6, <4>2
      <4> QED BY <4>3
    <3> QED BY <3>7, <3>8
  <2> QED BY <2>1, <2>2
<1>2. T \in G
  <2> HIDE DEF G
  <2> QED BY <1>1, SubsetInduction
<1>3. T \cap S = S
  OBVIOUS
<1> QED BY <1>2, <1>3

\* Sums whose summands differ by at most one differ by at most one for each.
THEOREM SumNear ==
    ASSUME NEW f, NEW g, NEW S, IsFiniteSet(S),
           \A x \in S : f[x] \in Nat /\ g[x] \in Nat /\ f[x] <= g[x] /\ g[x] <= f[x] + 1
    PROVE  /\ SumOver(f, S) <= SumOver(g, S)
           /\ SumOver(g, S) <= SumOver(f, S) + Cardinality(S)
<1> DEFINE G == {s \in SUBSET S : SumOver(g, s) <= SumOver(f, s) + Cardinality(s)}
<1>1. ASSUME NEW s \in SUBSET S, \A t \in SUBSET s : t # s => t \in G
      PROVE  s \in G
  <2>1. CASE s = {}
    BY <2>1, SumEmpty, FS_EmptySet
  <2>2. CASE s # {}
    <3> DEFINE p == Pick(s)
               rest == s \ {p}
    <3>1. p \in s /\ rest \in SUBSET s /\ rest # s
      BY <2>2, PickIn
    <3>2. rest \in G
      BY <1>1, <3>1
    <3>3. IsFiniteSet(s) /\ IsFiniteSet(rest)
      BY FS_Subset
    <3>4. /\ SumOver(f, s) = f[p] + SumOver(f, rest)
          /\ SumOver(g, s) = g[p] + SumOver(g, rest)
      BY <2>2, <3>3, SumStep
    <3>5. SumOver(f, rest) \in Nat /\ SumOver(g, rest) \in Nat
      BY <3>3, SumType
    <3>6. Cardinality(s) \in Nat /\ Cardinality(rest) = Cardinality(s) - 1
      BY <3>1, <3>3, FS_RemoveElement, FS_CardinalityType
    <3>7. f[p] \in Nat /\ g[p] \in Nat /\ g[p] <= f[p] + 1
      BY <3>1
    <3>8. SumOver(g, rest) <= SumOver(f, rest) + Cardinality(rest)
      BY <3>2
    <3> HIDE DEF p, rest
    <3>9. SumOver(g, s) <= SumOver(f, s) + Cardinality(s)
      BY <3>4, <3>5, <3>6, <3>7, <3>8
    <3> QED BY <3>9
  <2> QED BY <2>1, <2>2
<1>2. S \in G
  <2> HIDE DEF G
  <2> QED BY <1>1, SubsetInduction
<1>3. SumOver(f, S) <= SumOver(g, S)
  BY SumMonotone
<1> QED BY <1>2, <1>3

-----------------------------------------------------------------------------
(***************************************************************************)
(* ReserveLogic: what accruing a reserve and updating its rates keep and   *)
(* change.                                                                 *)
(***************************************************************************)

\* A listed reserve has non-zero indexes and is never ahead of the clock.
Current(r, t) ==
    /\ r.lastUpdateTimestamp <= t
    /\ r.liquidityIndex # 0
    /\ r.borrowIndex # 0

\* s is r with other rates.
SameButRates(r, s) ==
    \E x \in Nat, y \in Nat : s = [r EXCEPT !.liquidityRate = x, !.borrowRate = y]

\* s is r with interest accrued up to t.
Grown(r, s, t) ==
    \E li \in Nat, bi \in Nat, tr \in Nat :
        /\ r.liquidityIndex <= li
        /\ r.borrowIndex <= bi
        /\ r.accruedToTreasury <= tr
        /\ s = [r EXCEPT !.liquidityIndex = li, !.borrowIndex = bi,
                         !.accruedToTreasury = tr, !.lastUpdateTimestamp = t]

\* The growth factors of both indexes are at least one.
LEMMA GrowthFactors ==
    ASSUME NEW rate \in Nat, NEW dt \in Nat
    PROVE  /\ LinearInterest(rate, dt) \in Nat /\ RAY <= LinearInterest(rate, dt)
           /\ CompoundedInterest(rate, dt) \in Nat /\ RAY <= CompoundedInterest(rate, dt)
<1> DEFINE x == (rate * dt) \div SECONDS_PER_YEAR
           xx == RayMulDown(x, x)
           xxx == RayMulDown(xx, x)
<1>1. RAY \in Nat /\ x \in Nat
  BY MulNat, DivDown, YearAssumption, ScaleAssumption
<1>2. xx \in Nat
  BY <1>1, RayType
<1>3. xxx \in Nat
  BY <1>1, <1>2, RayType
<1>4. xx \div 2 \in Nat /\ xxx \div 6 \in Nat
  BY <1>2, <1>3, DivDown
<1>5. LinearInterest(rate, dt) = RAY + x
  BY DEF LinearInterest
<1>6. CompoundedInterest(rate, dt) = RAY + x + xx \div 2 + xxx \div 6
  BY DEF CompoundedInterest
<1> HIDE DEF x, xx, xxx
<1> QED BY <1>1, <1>4, <1>5, <1>6

\* The scaled claim the treasury accrues is never negative.
LEMMA TreasuryAccrualType ==
    ASSUME NEW r \in ReserveData, NEW bi \in Nat, r.borrowIndex <= bi, NEW li \in Nat \ {0}
    PROVE  TreasuryAccrualScaled(r, bi, li) \in Nat
<1> DEFINE D == r.totalScaledDebt
           interest == RayMulDown(D, bi) - RayMulDown(D, r.borrowIndex)
           share == PercentMulDown(interest, r.config.reserveFactor)
<1>1. D \in Nat /\ r.borrowIndex \in Nat /\ r.config.reserveFactor \in Nat /\ RAY \in Nat \ {0}
  BY ScaleAssumption DEF ReserveData, ReserveConfig, Bps
<1> HIDE DEF D
<1>2. r.borrowIndex * D <= bi * D
  BY <1>1, MulMonotone
<1>3. RayMulDown(D, r.borrowIndex) <= RayMulDown(D, bi)
  <2>1. D * r.borrowIndex \in Nat /\ D * bi \in Nat /\ D * r.borrowIndex <= D * bi
    BY <1>1, <1>2, MulNat
  <2> QED BY <2>1, <1>1, DivDownMonotone DEF RayMulDown
<1>4. interest \in Nat
  <2>1. RayMulDown(D, bi) \in Nat
    BY <1>1, RayType
  <2>2. RayMulDown(D, r.borrowIndex) \in Nat
    BY <1>1, RayType
  <2> QED BY <2>1, <2>2, <1>3
<1>5. share \in Nat
  BY <1>1, <1>4, RayType
<1>6. RayDivDown(share, li) \in Nat
  BY <1>5, RayType
<1> QED BY <1>6 DEF TreasuryAccrualScaled, D

\* Folding the definition of Grown.
LEMMA GrownIntro ==
    ASSUME NEW r, NEW s, NEW t, NEW li \in Nat, NEW bi \in Nat, NEW tr \in Nat,
           r.liquidityIndex <= li, r.borrowIndex <= bi, r.accruedToTreasury <= tr,
           s = [r EXCEPT !.liquidityIndex = li, !.borrowIndex = bi,
                         !.accruedToTreasury = tr, !.lastUpdateTimestamp = t]
    PROVE  Grown(r, s, t)
BY Zenon DEF Grown

\* Accruing never lowers an index or the treasury's claim, and touches no balance.
THEOREM AccrueGrows ==
    ASSUME NEW r \in ReserveData, NEW t \in Nat, Current(r, t)
    PROVE  Grown(r, Accrue(r, t), t)
<1> DEFINE dt == t - r.lastUpdateTimestamp
           li == IF r.liquidityRate = 0
                 THEN r.liquidityIndex
                 ELSE RayMulDown(LinearInterest(r.liquidityRate, dt), r.liquidityIndex)
           bi == RayMulUp(CompoundedInterest(r.borrowRate, dt), r.borrowIndex)
           tr == r.accruedToTreasury + TreasuryAccrualScaled(r, bi, li)
<1>1. /\ dt \in Nat /\ r.liquidityRate \in Nat /\ r.borrowRate \in Nat
      /\ r.liquidityIndex \in Nat \ {0} /\ r.borrowIndex \in Nat \ {0}
      /\ r.accruedToTreasury \in Nat
  BY DEF ReserveData, Current
<1>a. /\ LinearInterest(r.liquidityRate, dt) \in Nat
      /\ RAY <= LinearInterest(r.liquidityRate, dt)
      /\ CompoundedInterest(r.borrowRate, dt) \in Nat
      /\ RAY <= CompoundedInterest(r.borrowRate, dt)
  BY <1>1, GrowthFactors
<1>2. li \in Nat \ {0} /\ r.liquidityIndex <= li
  <2>1. /\ RayMulDown(LinearInterest(r.liquidityRate, dt), r.liquidityIndex) \in Nat
        /\ r.liquidityIndex <= RayMulDown(LinearInterest(r.liquidityRate, dt), r.liquidityIndex)
    BY <1>1, <1>a, RayMulGrows, RayType
  <2> QED BY <2>1, <1>1
<1>3. bi \in Nat /\ r.borrowIndex <= bi
  BY <1>1, <1>a, RayMulGrows, RayType
<1>4. tr \in Nat /\ r.accruedToTreasury <= tr
  BY <1>1, <1>2, <1>3, TreasuryAccrualType
<1>b. /\ r.liquidityIndex \in Nat /\ r.liquidityIndex <= r.liquidityIndex
      /\ r.borrowIndex \in Nat /\ r.borrowIndex <= r.borrowIndex
      /\ r.accruedToTreasury \in Nat /\ r.accruedToTreasury <= r.accruedToTreasury
  BY <1>1
<1> HIDE DEF li, bi, tr
<1>5. CASE r.lastUpdateTimestamp = t
  <2>1. Accrue(r, t) = r
    BY <1>5 DEF Accrue
  <2>2. r = [r EXCEPT !.liquidityIndex = r.liquidityIndex, !.borrowIndex = r.borrowIndex,
                      !.accruedToTreasury = r.accruedToTreasury, !.lastUpdateTimestamp = t]
    BY <1>5 DEF ReserveData
  <2>3. Accrue(r, t) = [r EXCEPT !.liquidityIndex = r.liquidityIndex,
                                 !.borrowIndex = r.borrowIndex,
                                 !.accruedToTreasury = r.accruedToTreasury,
                                 !.lastUpdateTimestamp = t]
    BY <2>1, <2>2, Zenon
  <2> QED BY <2>3, <1>b, GrownIntro
<1>6. CASE r.lastUpdateTimestamp # t /\ r.totalScaledDebt = 0
  <2>1. Accrue(r, t) = [r EXCEPT !.liquidityIndex = li, !.lastUpdateTimestamp = t]
    BY <1>6 DEF Accrue, li
  <2>2. Accrue(r, t) = [r EXCEPT !.liquidityIndex = li, !.borrowIndex = r.borrowIndex,
                                 !.accruedToTreasury = r.accruedToTreasury,
                                 !.lastUpdateTimestamp = t]
    BY <2>1 DEF ReserveData
  <2> QED BY <2>2, <1>b, <1>2, GrownIntro
<1>7. CASE r.lastUpdateTimestamp # t /\ r.totalScaledDebt # 0
  <2>1. Accrue(r, t) = [r EXCEPT !.liquidityIndex = li, !.borrowIndex = bi,
                                 !.accruedToTreasury = tr, !.lastUpdateTimestamp = t]
    BY <1>7 DEF Accrue, li, bi, tr
  <2> QED BY <2>1, <1>2, <1>3, <1>4, GrownIntro
<1> QED BY <1>5, <1>6, <1>7

\* The rate curve yields a natural rate.
LEMMA BorrowRateType ==
    ASSUME NEW m \in InterestRateModel, NEW cash \in Nat, NEW totalDebt \in Nat
    PROVE  GetBorrowRate(m, cash, totalDebt) \in Nat
<1> DEFINE u == Utilization(cash, totalDebt)
           kink == m.optimalUtilization
<1>1. /\ kink \in Nat \ {0} /\ RAY - kink \in Nat \ {0}
      /\ m.baseRate \in Nat /\ m.slope1 \in Nat /\ m.slope2 \in Nat
  BY ScaleAssumption DEF InterestRateModel
<1>2. u \in Nat
  <2>1. cash + totalDebt \in Nat /\ (totalDebt # 0 => cash + totalDebt # 0)
    OBVIOUS
  <2>2. totalDebt # 0 => RayDivDown(totalDebt, cash + totalDebt) \in Nat
    BY <2>1, RayType
  <2> QED BY <2>2 DEF Utilization
<1> HIDE DEF u, kink
<1>3. CASE u <= kink
  <2>1. RayDivDown(u, kink) \in Nat
    BY <1>1, <1>2, RayType
  <2>2. RayMulDown(m.slope1, RayDivDown(u, kink)) \in Nat
    BY <2>1, <1>1, RayType
  <2> QED BY <2>2, <1>1, <1>3 DEF GetBorrowRate, u, kink
<1>4. CASE ~(u <= kink)
  <2>1. u - kink \in Nat
    BY <1>1, <1>2, <1>4
  <2>2. RayDivDown(u - kink, RAY - kink) \in Nat
    BY <2>1, <1>1, RayType
  <2>3. RayMulDown(m.slope2, RayDivDown(u - kink, RAY - kink)) \in Nat
    BY <2>2, <1>1, RayType
  <2> QED BY <2>3, <1>1, <1>4 DEF GetBorrowRate, u, kink
<1> QED BY <1>3, <1>4

\* The supply rate is a natural: no subtraction in it underflows.
LEMMA LiquidityRateType ==
    ASSUME NEW r \in ReserveData, NEW rate \in Nat
    PROVE  LiquidityRate(r, rate) \in Nat
<1> DEFINE totalDebt == RayMulUp(r.totalScaledDebt, r.borrowIndex)
           liabilities == RayMulUp(r.totalScaledSupply + r.accruedToTreasury, r.liquidityIndex)
           ratio == RayDivDown(totalDebt, liabilities)
           debtRatio == IF ratio > RAY THEN RAY ELSE ratio
           keep == PERCENTAGE_FACTOR - r.config.reserveFactor
<1>1. /\ r.totalScaledDebt \in Nat /\ r.borrowIndex \in Nat /\ r.liquidityIndex \in Nat
      /\ r.totalScaledSupply + r.accruedToTreasury \in Nat
      /\ keep \in Nat /\ RAY \in Nat
  BY ScaleAssumption DEF ReserveData, ReserveConfig, Bps
<1>2. totalDebt \in Nat /\ liabilities \in Nat
  BY <1>1, RayType
<1> HIDE DEF totalDebt, liabilities, keep
<1>3. CASE totalDebt = 0 \/ liabilities = 0
  BY <1>3 DEF LiquidityRate, totalDebt, liabilities
<1>4. CASE ~(totalDebt = 0 \/ liabilities = 0)
  <2>1. ratio \in Nat
    BY <1>2, <1>4, RayType
  <2>2. debtRatio \in Nat
    BY <2>1, <1>1
  <2> HIDE DEF ratio
  <2>3. RayMulDown(rate, debtRatio) \in Nat
    BY <2>2, RayType
  <2>4. PercentMulDown(RayMulDown(rate, debtRatio), keep) \in Nat
    BY <2>3, <1>1, RayType
  <2> HIDE DEF debtRatio
  <2> QED BY <2>4, <1>4 DEF LiquidityRate, totalDebt, liabilities, ratio, debtRatio, keep
<1> QED BY <1>3, <1>4

\* Updating the rates keeps the reserve well formed and changes nothing else.
THEOREM UpdateRatesKeeps ==
    ASSUME NEW r \in ReserveData
    PROVE  SameButRates(r, UpdateRates(r))
<1> DEFINE b == GetBorrowRate(r.interestRateModel, r.cash,
                              RayMulUp(r.totalScaledDebt, r.borrowIndex))
<1>1. b \in Nat
  BY BorrowRateType, RayType DEF ReserveData
<1>2. LiquidityRate(r, b) \in Nat
  BY <1>1, LiquidityRateType
<1>3. UpdateRates(r) = [r EXCEPT !.liquidityRate = LiquidityRate(r, b), !.borrowRate = b]
  BY DEF UpdateRates
<1> HIDE DEF b
<1> QED BY <1>1, <1>2, <1>3 DEF SameButRates

\* Over an interval without a rate the supply index stands still, which is why accrue
\* may skip the product that the view computes.
LEMMA NoRateNoGrowth ==
    ASSUME NEW dt \in Nat, NEW index \in Nat
    PROVE  RayMulDown(LinearInterest(0, dt), index) = index
<1>1. SECONDS_PER_YEAR \in Nat \ {0} /\ RAY \in Nat \ {0}
  BY YearAssumption, ScaleAssumption
<1>2. LinearInterest(0, dt) = RAY
  <2>1. 0 \div SECONDS_PER_YEAR = 0
    BY <1>1
  <2>2. 0 * dt = 0
    OBVIOUS
  <2> QED BY <1>1, <2>1, <2>2 DEF LinearInterest
<1> DEFINE q == (RAY * index) \div RAY
<1>3. RAY * index \in Nat /\ RAY * index = index * RAY
  BY <1>1, MulNat
<1>4. q \in Nat /\ q * RAY <= RAY * index /\ RAY * index < q * RAY + RAY
  BY <1>1, <1>3, DivDown
<1> HIDE DEF q
<1>5. q * RAY <= index * RAY /\ index * RAY < (q + 1) * RAY
  BY <1>1, <1>3, <1>4
<1>6. index < q + 1
  BY <1>1, <1>4, <1>5, Cancel
<1>7. ~(index < q)
  <2>1. SUFFICES ASSUME index + 1 <= q PROVE FALSE
    BY <1>4
  <2>2. (index + 1) * RAY <= q * RAY
    BY <1>1, <1>4, <2>1, MulMonotone
  <2>3. (index + 1) * RAY = index * RAY + RAY /\ index * RAY \in Nat
    BY <1>1, <1>3
  <2>4. q * RAY \in Nat
    BY <1>1, <1>4, MulNat
  <2> QED BY <1>1, <1>5, <2>2, <2>3, <2>4
<1>8. q = index
  BY <1>4, <1>6, <1>7
<1> QED BY <1>2, <1>8 DEF RayMulDown, q

\* The views of a reserve written at or before t compute what accruing at t would store:
\* a user prices positions through them, the next call through accrue.
THEOREM ViewsAreAccrue ==
    ASSUME NEW r \in ReserveData, NEW t \in Nat, r.lastUpdateTimestamp <= t
    PROVE  LET s == Accrue(r, t)
           IN  /\ NormalizedIncome(r, t) = s.liquidityIndex
               /\ NormalizedDebt(r, t) = s.borrowIndex
               /\ TreasuryScaledNow(r, t) = s.accruedToTreasury
<1> DEFINE dt == t - r.lastUpdateTimestamp
           li == IF r.liquidityRate = 0
                 THEN r.liquidityIndex
                 ELSE RayMulDown(LinearInterest(r.liquidityRate, dt), r.liquidityIndex)
           bi == RayMulUp(CompoundedInterest(r.borrowRate, dt), r.borrowIndex)
           tr == r.accruedToTreasury + TreasuryAccrualScaled(r, bi, li)
           s == Accrue(r, t)
<1>1. dt \in Nat /\ r.liquidityIndex \in Nat
  BY DEF ReserveData
<1>2. CASE r.lastUpdateTimestamp = t
  BY <1>2 DEF Accrue, NormalizedIncome, NormalizedDebt, TreasuryScaledNow
<1>3. CASE r.lastUpdateTimestamp # t
  <2>1. NormalizedIncome(r, t) = li
    <3>1. CASE r.liquidityRate = 0
      BY <1>1, <1>3, <3>1, NoRateNoGrowth DEF NormalizedIncome
    <3>2. CASE r.liquidityRate # 0
      BY <1>3, <3>2 DEF NormalizedIncome
    <3> QED BY <3>1, <3>2
  <2>2. CASE r.totalScaledDebt = 0
    <3>1. s = [r EXCEPT !.liquidityIndex = li, !.lastUpdateTimestamp = t]
      BY <1>3, <2>2 DEF Accrue
    <3> HIDE DEF s, li
    <3>2. /\ s.liquidityIndex = li /\ s.borrowIndex = r.borrowIndex
          /\ s.accruedToTreasury = r.accruedToTreasury
      BY <3>1 DEF ReserveData
    <3>3. NormalizedDebt(r, t) = r.borrowIndex /\ TreasuryScaledNow(r, t) = r.accruedToTreasury
      BY <2>2 DEF NormalizedDebt, TreasuryScaledNow
    <3> QED BY <2>1, <3>2, <3>3 DEF s
  <2>3. CASE r.totalScaledDebt # 0
    <3>1. s = [r EXCEPT !.liquidityIndex = li, !.borrowIndex = bi,
                        !.accruedToTreasury = tr, !.lastUpdateTimestamp = t]
      BY <1>3, <2>3 DEF Accrue
    <3>2. NormalizedDebt(r, t) = bi
      BY <1>3, <2>3 DEF NormalizedDebt
    <3>3. TreasuryScaledNow(r, t) = tr
      <4>1. TreasuryScaledNow(r, t)
              = r.accruedToTreasury
                  + TreasuryAccrualScaled(r, NormalizedDebt(r, t), NormalizedIncome(r, t))
        BY <1>3, <2>3 DEF TreasuryScaledNow
      <4> QED BY <2>1, <3>2, <4>1
    <3> HIDE DEF s, li, bi, tr
    <3>4. s.liquidityIndex = li /\ s.borrowIndex = bi /\ s.accruedToTreasury = tr
      BY <3>1 DEF ReserveData
    <3> QED BY <2>1, <3>2, <3>3, <3>4 DEF s
  <2> QED BY <2>2, <2>3
<1> QED BY <1>2, <1>3

-----------------------------------------------------------------------------
(***************************************************************************)
(* What interest costs.  Suppliers and treasury are credited at a rate     *)
(* derived from what borrowers pay, but the debt it is derived from is     *)
(* rounded up and so are the borrowers' years; what an interval may credit *)
(* beyond its charges is bounded by the debt, its growth factor and one    *)
(* unit, all in ray.                                                       *)
(***************************************************************************)

\* The suppliers' share K of P of the interest: Q scaled units of index li grow by gl
\* at the factor xl, the liquidity rate lr over dt; the debt Dh grows at the factor xb.
LEMMA SuppliersShare ==
    ASSUME NEW R \in Nat \ {0}, NEW P \in Nat \ {0}, NEW Y \in Nat \ {0}, NEW K \in Nat,
           NEW Q \in Nat, NEW li \in Nat, NEW gl \in Nat, NEW xl \in Nat, NEW Lh \in Nat,
           NEW u \in Nat, NEW Dh \in Nat, NEW lr \in Nat, NEW b \in Nat, NEW dt \in Nat,
           NEW xb \in Nat,
           gl * R <= xl * li, Q * li <= Lh * R, u * Lh <= Dh * R,
           (lr * R) * P <= (b * u) * K, xl * Y <= lr * dt, b * dt <= (xb + 1) * Y
    PROVE  (Q * gl) * P <= (Dh * (xb + 1)) * K
<1>1. Q * gl <= Lh * xl
  <2>1. (gl * R) * Q <= (xl * li) * Q
    BY MulMonotone, MulNat
  <2>2. (Q * li) * xl <= (Lh * R) * xl
    BY MulMonotone, MulNat
  <2>3. (gl * R) * Q = (Q * gl) * R /\ (xl * li) * Q = (Q * li) * xl /\ (Lh * R) * xl = (Lh * xl) * R
    OBVIOUS
  <2>4. /\ (gl * R) * Q \in Nat /\ (xl * li) * Q \in Nat /\ (Lh * R) * xl \in Nat
        /\ Q * gl \in Nat /\ Lh * xl \in Nat
    BY MulNat
  <2>5. (Q * gl) * R <= (Lh * xl) * R
    BY <2>1, <2>2, <2>3, <2>4
  <2> QED BY <2>4, <2>5, CancelAtMost
<1>2. (xl * R) * P <= (xb + 1) * (u * K)
  <2>1. (xl * Y) * (R * P) <= (lr * dt) * (R * P)
    BY MulMonotone, MulNat
  <2>2. ((lr * R) * P) * dt <= ((b * u) * K) * dt
    BY MulMonotone, MulNat
  <2>3. (b * dt) * (u * K) <= ((xb + 1) * Y) * (u * K)
    BY MulMonotone, MulNat
  <2>4. /\ (xl * Y) * (R * P) = ((xl * R) * P) * Y
        /\ (lr * dt) * (R * P) = ((lr * R) * P) * dt
        /\ ((b * u) * K) * dt = (b * dt) * (u * K)
        /\ ((xb + 1) * Y) * (u * K) = ((xb + 1) * (u * K)) * Y
    OBVIOUS
  <2>5. /\ (xl * Y) * (R * P) \in Nat /\ (lr * dt) * (R * P) \in Nat
        /\ ((b * u) * K) * dt \in Nat /\ ((xb + 1) * Y) * (u * K) \in Nat
        /\ (xl * R) * P \in Nat /\ (xb + 1) * (u * K) \in Nat
    BY MulNat
  <2>6. ((xl * R) * P) * Y <= ((xb + 1) * (u * K)) * Y
    BY <2>1, <2>2, <2>3, <2>4, <2>5
  <2> QED BY <2>5, <2>6, CancelAtMost
<1>3. (Lh * xl) * P <= (Dh * (xb + 1)) * K
  <2>1. ((xl * R) * P) * Lh <= ((xb + 1) * (u * K)) * Lh
    BY <1>2, MulMonotone, MulNat
  <2>2. (u * Lh) * ((xb + 1) * K) <= (Dh * R) * ((xb + 1) * K)
    BY MulMonotone, MulNat
  <2>3. /\ ((xl * R) * P) * Lh = ((Lh * xl) * P) * R
        /\ ((xb + 1) * (u * K)) * Lh = (u * Lh) * ((xb + 1) * K)
        /\ (Dh * R) * ((xb + 1) * K) = ((Dh * (xb + 1)) * K) * R
    OBVIOUS
  <2>4. /\ ((xl * R) * P) * Lh \in Nat /\ ((xb + 1) * (u * K)) * Lh \in Nat
        /\ (Dh * R) * ((xb + 1) * K) \in Nat
        /\ (Lh * xl) * P \in Nat /\ (Dh * (xb + 1)) * K \in Nat
    BY MulNat
  <2>5. ((Lh * xl) * P) * R <= ((Dh * (xb + 1)) * K) * R
    BY <2>1, <2>2, <2>3, <2>4
  <2> QED BY <2>4, <2>5, CancelAtMost
<1>4. (Q * gl) * P <= (Lh * xl) * P
  BY <1>1, MulMonotone, MulNat
<1>5. (Q * gl) * P \in Nat /\ (Lh * xl) * P \in Nat /\ (Dh * (xb + 1)) * K \in Nat
  BY MulNat
<1> QED BY <1>3, <1>4, <1>5

\* The debt Dh, rounded up, grows at the factor xb by what the borrowers are charged,
\* up to xb.
LEMMA BorrowersCharge ==
    ASSUME NEW R \in Nat \ {0}, NEW D \in Nat, NEW bi \in Nat, NEW gb \in Nat, NEW xb \in Nat,
           NEW Dh \in Nat, xb * bi <= gb * R, Dh * R <= D * bi + R
    PROVE  Dh * (xb + 1) <= D * gb + xb + Dh
<1>1. (Dh * R) * xb <= (D * bi + R) * xb
  BY MulMonotone, MulNat
<1>2. (xb * bi) * D <= (gb * R) * D
  BY MulMonotone, MulNat
<1>3. /\ (Dh * R) * xb = (Dh * xb) * R
      /\ (D * bi + R) * xb = (xb * bi) * D + R * xb
      /\ (gb * R) * D + R * xb = (D * gb + xb) * R
      /\ Dh * (xb + 1) = Dh * xb + Dh
  OBVIOUS
<1>4. /\ (Dh * R) * xb \in Nat /\ (xb * bi) * D \in Nat /\ (gb * R) * D \in Nat /\ R * xb \in Nat
      /\ Dh * xb \in Nat /\ D * gb \in Nat
  BY MulNat
<1>5. (Dh * xb) * R <= (D * gb + xb) * R
  BY <1>1, <1>2, <1>3, <1>4
<1>6. Dh * xb <= D * gb + xb
  BY <1>4, <1>5, CancelAtMost
<1> QED BY <1>3, <1>4, <1>6

\* The treasury's share rf of P of the same interest I, in dT scaled units of index ni.
LEMMA TreasuryShare ==
    ASSUME NEW R \in Nat \ {0}, NEW P \in Nat \ {0}, NEW rf \in Nat, NEW G \in Nat,
           NEW I \in Nat, NEW share \in Nat, NEW dT \in Nat, NEW ni \in Nat,
           I * R <= G + R, share * P <= I * rf, dT * ni <= share * R
    PROVE  (dT * ni) * P <= (G + R) * rf
<1>1. (dT * ni) * P <= (share * R) * P
  BY MulMonotone, MulNat
<1>2. (share * P) * R <= (I * rf) * R
  BY MulMonotone, MulNat
<1>3. (I * R) * rf <= (G + R) * rf
  BY MulMonotone, MulNat
<1>4. (share * R) * P = (share * P) * R /\ (I * rf) * R = (I * R) * rf
  OBVIOUS
<1>5. /\ (dT * ni) * P \in Nat /\ (share * R) * P \in Nat /\ (I * rf) * R \in Nat
      /\ (G + R) * rf \in Nat
  BY MulNat
<1> QED BY <1>1, <1>2, <1>3, <1>4, <1>5

\* Together the shares cost at most the charge G and the dust.
LEMMA SharesAtMost ==
    ASSUME NEW P \in Nat \ {0}, NEW K \in Nat, NEW rf \in Nat, K + rf = P,
           NEW C \in Nat, NEW W \in Nat, NEW G \in Nat, NEW Dh \in Nat, NEW xb \in Nat, NEW R \in Nat,
           C * P <= (G + xb + Dh) * K, W * P <= (G + R) * rf
    PROVE  /\ DivUp((Dh + xb) * K + R * rf, P) \in Nat
           /\ C + W <= G + DivUp((Dh + xb) * K + R * rf, P)
<1> DEFINE M == (Dh + xb) * K + R * rf
           d == DivUp(M, P)
<1>1. M \in Nat
  BY MulNat
<1>2. (G + xb + Dh) * K + (G + R) * rf = G * (K + rf) + M
  OBVIOUS
<1> HIDE DEF M
<1>3. d \in Nat /\ M <= d * P
  BY <1>1, DivUpBounds
<1> HIDE DEF d
<1>4. (C + W) * P = C * P + W * P /\ (G + d) * P = G * P + d * P
  BY <1>3
<1>5. /\ C * P \in Nat /\ W * P \in Nat /\ G * P \in Nat /\ d * P \in Nat
      /\ (G + xb + Dh) * K \in Nat /\ (G + R) * rf \in Nat
  BY <1>3, MulNat
<1>6. (G + xb + Dh) * K + (G + R) * rf = G * P + M
  BY <1>2
<1>7. (C + W) * P <= (G + d) * P
  BY <1>1, <1>3, <1>4, <1>5, <1>6
<1>8. C + W <= G + d
  BY <1>3, <1>7, CancelAtMost
<1> QED BY <1>3, <1>8 DEF d, M

\* The liquidity rate passes on the borrow rate on the borrowed part of the liabilities,
\* less the reserve factor's share.
LEMMA LiquidityRateBound ==
    ASSUME NEW r \in ReserveData, NEW b \in Nat, LiquidityRate(r, b) # 0
    PROVE  LET lr == LiquidityRate(r, b)
               Dh == RayMulUp(r.totalScaledDebt, r.borrowIndex)
               Q  == r.totalScaledSupply + r.accruedToTreasury
           IN  \E u \in Nat, Lh \in Nat :
                  /\ Q * r.liquidityIndex <= Lh * RAY
                  /\ u * Lh <= Dh * RAY
                  /\ (lr * RAY) * PERCENTAGE_FACTOR
                       <= (b * u) * (PERCENTAGE_FACTOR - r.config.reserveFactor)
<1> DEFINE lr == LiquidityRate(r, b)
           Dh == RayMulUp(r.totalScaledDebt, r.borrowIndex)
           Q  == r.totalScaledSupply + r.accruedToTreasury
           Lh == RayMulUp(Q, r.liquidityIndex)
           ratio == RayDivDown(Dh, Lh)
           u == IF ratio > RAY THEN RAY ELSE ratio
           m == RayMulDown(b, u)
           K == PERCENTAGE_FACTOR - r.config.reserveFactor
<1>1. /\ r.totalScaledDebt \in Nat /\ r.borrowIndex \in Nat /\ r.liquidityIndex \in Nat
      /\ Q \in Nat /\ K \in Nat /\ RAY \in Nat \ {0} /\ PERCENTAGE_FACTOR \in Nat \ {0}
  BY ScaleAssumption DEF ReserveData, ReserveConfig, Bps
<1>2. /\ lr = IF Dh = 0 \/ Lh = 0 THEN 0 ELSE PercentMulDown(m, K)
      /\ lr # 0
  BY DEF LiquidityRate
<1> HIDE DEF Q, K, lr
<1>3. Dh \in Nat /\ Lh \in Nat /\ Q * r.liquidityIndex <= Lh * RAY
  BY <1>1, RayType, MulNat, DivUpBounds DEF RayMulUp
<1>4. Lh # 0 /\ lr = PercentMulDown(m, K)
  BY <1>2
<1> HIDE DEF Dh, Lh
<1>5. Dh * RAY \in Nat
  BY <1>1, <1>3, MulNat
<1>6. ratio \in Nat /\ ratio * Lh <= Dh * RAY
  BY <1>3, <1>4, <1>5, DivDown DEF RayDivDown
<1> HIDE DEF ratio
<1>7. u \in Nat /\ u <= ratio
  BY <1>1, <1>6
<1> HIDE DEF u
<1>8. u * Lh <= Dh * RAY
  <2>1. u * Lh <= ratio * Lh
    BY <1>3, <1>6, <1>7, MulMonotone
  <2>2. u * Lh \in Nat /\ ratio * Lh \in Nat
    BY <1>3, <1>6, <1>7, MulNat
  <2> QED BY <1>5, <1>6, <2>1, <2>2
<1>9. m \in Nat /\ m * RAY <= b * u
  <2>1. b * u \in Nat
    BY <1>7, MulNat
  <2> QED BY <1>1, <2>1, DivDown DEF RayMulDown
<1> HIDE DEF m
<1>10. lr \in Nat /\ lr * PERCENTAGE_FACTOR <= m * K
  <2>1. m * K \in Nat
    BY <1>1, <1>9, MulNat
  <2> QED BY <1>1, <1>4, <2>1, DivDown DEF PercentMulDown
<1>11. (lr * RAY) * PERCENTAGE_FACTOR <= (b * u) * K
  <2>1. (lr * PERCENTAGE_FACTOR) * RAY <= (m * K) * RAY
    BY <1>1, <1>9, <1>10, MulMonotone, MulNat
  <2>2. (m * RAY) * K <= (b * u) * K
    BY <1>1, <1>7, <1>9, MulMonotone, MulNat
  <2>3. (lr * RAY) * PERCENTAGE_FACTOR = (lr * PERCENTAGE_FACTOR) * RAY /\ (m * K) * RAY = (m * RAY) * K
    BY <1>1, <1>9, <1>10
  <2>4. /\ (lr * PERCENTAGE_FACTOR) * RAY \in Nat /\ (m * K) * RAY \in Nat
        /\ (m * RAY) * K \in Nat /\ (b * u) * K \in Nat
    BY <1>1, <1>7, <1>9, <1>10, MulNat
  <2> QED BY <2>1, <2>2, <2>3, <2>4
<1> QED BY <1>3, <1>7, <1>8, <1>11 DEF lr, K, Q, Dh

\* What an index gains when it is multiplied by a growth factor.
LEMMA IndexGains ==
    ASSUME NEW index \in Nat, NEW x \in Nat, NEW factor \in Nat
    PROVE  /\ factor <= RAY + x => (RayMulDown(factor, index) - index) * RAY <= x * index
           /\ RAY + x <= factor => x * index <= (RayMulUp(factor, index) - index) * RAY
<1> DEFINE down == RayMulDown(factor, index)
           up == RayMulUp(factor, index)
<1>1. RAY \in Nat \ {0} /\ factor * index \in Nat
  BY ScaleAssumption, MulNat
<1>2. /\ down \in Nat /\ down * RAY <= factor * index
      /\ up \in Nat /\ factor * index <= up * RAY
  BY <1>1, DivDown, DivUpBounds DEF RayMulDown, RayMulUp
<1> HIDE DEF down, up
<1>3. /\ (down - index) * RAY = down * RAY - index * RAY
      /\ (up - index) * RAY = up * RAY - index * RAY
      /\ (RAY + x) * index = index * RAY + x * index
  BY <1>1, <1>2
<1>4. /\ down * RAY \in Nat /\ up * RAY \in Nat /\ index * RAY \in Nat /\ x * index \in Nat
  BY <1>1, <1>2, MulNat
<1>5. /\ factor <= RAY + x => factor * index <= (RAY + x) * index
      /\ RAY + x <= factor => (RAY + x) * index <= factor * index
  BY <1>1, MulMonotone
<1> QED BY <1>1, <1>2, <1>3, <1>4, <1>5 DEF down, up

-----------------------------------------------------------------------------
(***************************************************************************)
(* RiskEngine: what the health factor and the capacity check compare, and  *)
(* how they move with an account's balances.                               *)
(***************************************************************************)

\* What a valuation reads is well formed.
Valuable(res, prices, t) ==
    /\ prices \in [Asset -> Nat]
    /\ \A a \in Asset : /\ NormalizedIncome(res[a], t) \in Nat
                        /\ NormalizedDebt(res[a], t) \in Nat
                        /\ res[a].config.ltv \in Nat
                        /\ res[a].config.liquidationThreshold \in Nat

\* The reserves an account counts in are listed assets, finitely many.
LEMMA ExposureFinite ==
    ASSUME NEW acct \in AccountType
    PROVE  /\ CollateralAssets(acct) \subseteq Asset /\ IsFiniteSet(CollateralAssets(acct))
           /\ DebtAssets(acct) \subseteq Asset /\ IsFiniteSet(DebtAssets(acct))
<1>1. CollateralAssets(acct) \subseteq Asset /\ DebtAssets(acct) \subseteq Asset
  BY DEF CollateralAssets, DebtAssets, AccountType
<1> QED BY <1>1, AssetAssumption, FS_Subset

\* The value of each balance is a natural.
LEMMA ValueTypes ==
    ASSUME NEW acct \in AccountType, NEW res, NEW prices, NEW t, Valuable(res, prices, t),
           NEW a \in Asset
    PROVE  /\ CollateralValue(acct, res, prices, t, a) \in Nat
           /\ DebtValue(acct, res, prices, t, a) \in Nat
<1> DEFINE s == RayMulDown(acct.supply[a], NormalizedIncome(res[a], t))
           d == RayMulUp(acct.debt[a], NormalizedDebt(res[a], t))
<1>1. /\ prices[a] \in Nat /\ Unit[a] \in Nat \ {0}
      /\ acct.supply[a] \in Nat /\ acct.debt[a] \in Nat
  BY AssetAssumption DEF Valuable, AccountType
<1>2. s \in Nat /\ d \in Nat
  BY <1>1, RayType DEF Valuable
<1> HIDE DEF s, d
<1>3. s * prices[a] \in Nat /\ d * prices[a] \in Nat
  BY <1>1, <1>2, MulNat
<1>4. (s * prices[a]) \div Unit[a] \in Nat
  BY <1>1, <1>3, DivDown
<1>5. DivUp(d * prices[a], Unit[a]) \in Nat
  BY <1>1, <1>3, DivUpBounds
<1> QED BY <1>4, <1>5, Zenon DEF CollateralValue, DebtValue, s, d

\* What a valuation adds up are naturals.
LEMMA TotalsType ==
    ASSUME NEW acct \in AccountType, NEW res, NEW prices, NEW t, Valuable(res, prices, t),
           NEW weight, \A a \in Asset : weight[a] \in Nat
    PROVE  /\ TotalDebtValue(acct, res, prices, t) \in Nat
           /\ WeightedCollateral(acct, res, prices, t, weight) \in Nat
<1> DEFINE C == CollateralAssets(acct)
           D == DebtAssets(acct)
           f == [a \in C |-> CollateralValue(acct, res, prices, t, a) * weight[a]]
           g == [a \in D |-> DebtValue(acct, res, prices, t, a)]
<1>1. C \subseteq Asset /\ IsFiniteSet(C) /\ D \subseteq Asset /\ IsFiniteSet(D)
  BY ExposureFinite
<1> HIDE DEF C, D
<1>2. \A a \in C : f[a] \in Nat
  BY <1>1, ValueTypes, MulNat
<1>3. \A a \in D : g[a] \in Nat
  BY <1>1, ValueTypes
<1> HIDE DEF f, g
<1>4. SumOver(f, C) \in Nat /\ SumOver(g, D) \in Nat
  BY <1>1, <1>2, <1>3, SumType
<1>5. SumOver(f, C) \div PERCENTAGE_FACTOR \in Nat
  BY <1>4, DivDown, ScaleAssumption
<1> QED BY <1>4, <1>5, Zenon DEF TotalDebtValue, WeightedCollateral, C, D, f, g

\* The health factor is at least one exactly when the collateral, weighted by its
\* thresholds, covers the debt.
THEOREM HealthIsCover ==
    ASSUME NEW acct \in AccountType, NEW res, NEW prices, NEW t, Valuable(res, prices, t)
    PROVE  IsHealthy(acct, res, prices, t) <=>
             TotalDebtValue(acct, res, prices, t) <= LiquidationValue(acct, res, prices, t)
<1> DEFINE d == TotalDebtValue(acct, res, prices, t)
           w == [a \in Asset |-> res[a].config.liquidationThreshold]
           l == WeightedCollateral(acct, res, prices, t, w)
<1>1. \A a \in Asset : w[a] \in Nat
  BY DEF Valuable
<1> HIDE DEF w
<1>2. d \in Nat /\ l \in Nat
  BY <1>1, TotalsType
<1>3. LiquidationValue(acct, res, prices, t) = l
  BY DEF LiquidationValue, l, w
<1> HIDE DEF d, l
<1>4. CASE d = 0
  <2>1. d <= l
    BY <1>2, <1>4
  <2> QED BY <1>3, <1>4, <2>1, Zenon DEF IsHealthy, d
<1>5. CASE d # 0
  <2>1. WadDivDown(l, d) >= WAD <=> d <= l
    BY <1>2, <1>5, WadRatio
  <2> QED BY <1>3, <1>5, <2>1, Zenon DEF IsHealthy, HealthFactor, d
<1> QED BY <1>4, <1>5

\* A larger balance at the same index is worth no less, as collateral or as debt.
LEMMA ValueMonotone ==
    ASSUME NEW acct \in AccountType, NEW more \in AccountType,
           NEW res, NEW res2, NEW prices, NEW t, Valuable(res, prices, t), NEW a \in Asset
    PROVE  /\ /\ acct.supply[a] <= more.supply[a]
              /\ NormalizedIncome(res2[a], t) = NormalizedIncome(res[a], t)
              => CollateralValue(acct, res, prices, t, a) <= CollateralValue(more, res2, prices, t, a)
           /\ /\ acct.debt[a] <= more.debt[a]
              /\ NormalizedDebt(res2[a], t) = NormalizedDebt(res[a], t)
              => DebtValue(acct, res, prices, t, a) <= DebtValue(more, res2, prices, t, a)
<1> DEFINE li == NormalizedIncome(res[a], t)
           bi == NormalizedDebt(res[a], t)
           p == prices[a]
           u == Unit[a]
<1>1. /\ p \in Nat /\ u \in Nat \ {0} /\ li \in Nat /\ bi \in Nat /\ RAY \in Nat \ {0}
      /\ acct.supply[a] \in Nat /\ acct.debt[a] \in Nat
      /\ more.supply[a] \in Nat /\ more.debt[a] \in Nat
  BY AssetAssumption, ScaleAssumption DEF Valuable, AccountType
<1> HIDE DEF li, bi, p, u
<1>2. ASSUME NEW x \in Nat, NEW y \in Nat, x <= y
      PROVE  (RayMulDown(x, li) * p) \div u <= (RayMulDown(y, li) * p) \div u
  <2>1. x * li \in Nat /\ y * li \in Nat /\ x * li <= y * li
    BY <1>1, <1>2, MulNat, MulMonotone
  <2>2. RayMulDown(x, li) <= RayMulDown(y, li)
    BY <1>1, <2>1, DivDownMonotone DEF RayMulDown
  <2>3. RayMulDown(x, li) \in Nat /\ RayMulDown(y, li) \in Nat
    BY <1>1, RayType
  <2>4. /\ RayMulDown(x, li) * p \in Nat /\ RayMulDown(y, li) * p \in Nat
        /\ RayMulDown(x, li) * p <= RayMulDown(y, li) * p
    BY <1>1, <2>2, <2>3, MulNat, MulMonotone
  <2> QED BY <1>1, <2>4, DivDownMonotone
<1>3. ASSUME NEW x \in Nat, NEW y \in Nat, x <= y
      PROVE  DivUp(RayMulUp(x, bi) * p, u) <= DivUp(RayMulUp(y, bi) * p, u)
  <2>1. x * bi \in Nat /\ y * bi \in Nat /\ x * bi <= y * bi
    BY <1>1, <1>3, MulNat, MulMonotone
  <2>2. RayMulUp(x, bi) <= RayMulUp(y, bi)
    BY <1>1, <2>1, DivUpMonotone DEF RayMulUp
  <2>3. RayMulUp(x, bi) \in Nat /\ RayMulUp(y, bi) \in Nat
    BY <1>1, RayType
  <2>4. /\ RayMulUp(x, bi) * p \in Nat /\ RayMulUp(y, bi) * p \in Nat
        /\ RayMulUp(x, bi) * p <= RayMulUp(y, bi) * p
    BY <1>1, <2>2, <2>3, MulNat, MulMonotone
  <2> QED BY <1>1, <2>4, DivUpMonotone
<1>4. ASSUME acct.supply[a] <= more.supply[a], NormalizedIncome(res2[a], t) = li
      PROVE  CollateralValue(acct, res, prices, t, a) <= CollateralValue(more, res2, prices, t, a)
  BY <1>1, <1>2, <1>4 DEF CollateralValue, li, p, u
<1>5. ASSUME acct.debt[a] <= more.debt[a], NormalizedDebt(res2[a], t) = bi
      PROVE  DebtValue(acct, res, prices, t, a) <= DebtValue(more, res2, prices, t, a)
  BY <1>1, <1>3, <1>5 DEF DebtValue, bi, p, u
<1> QED BY <1>4, <1>5 DEF li, bi

\* Weighted collateral grows with the reserves, their values and their weights.
LEMMA WeightedMonotone ==
    ASSUME NEW acct \in AccountType, NEW more \in AccountType, NEW res, NEW res2,
           NEW prices, NEW t, Valuable(res, prices, t), Valuable(res2, prices, t),
           NEW w, NEW w2, \A a \in Asset : w[a] \in Nat /\ w2[a] \in Nat,
           \A a \in CollateralAssets(acct) :
               /\ a \in CollateralAssets(more)
               /\ CollateralValue(acct, res, prices, t, a)
                    <= CollateralValue(more, res2, prices, t, a)
               /\ w[a] <= w2[a]
    PROVE  WeightedCollateral(acct, res, prices, t, w)
             <= WeightedCollateral(more, res2, prices, t, w2)
<1> DEFINE S == CollateralAssets(acct)
           T == CollateralAssets(more)
           f == [a \in S |-> CollateralValue(acct, res, prices, t, a) * w[a]]
           g == [a \in T |-> CollateralValue(more, res2, prices, t, a) * w2[a]]
<1>1. S \subseteq Asset /\ T \subseteq Asset /\ IsFiniteSet(S) /\ IsFiniteSet(T) /\ S \subseteq T
  BY ExposureFinite
<1>2. \A a \in T : g[a] \in Nat
  BY <1>1, ValueTypes, MulNat
<1>3. \A a \in S : f[a] \in Nat /\ f[a] <= g[a]
  <2> TAKE a \in S
  <2> DEFINE x == CollateralValue(acct, res, prices, t, a)
             y == CollateralValue(more, res2, prices, t, a)
  <2>1. /\ a \in Asset /\ a \in T /\ x \in Nat /\ y \in Nat /\ x <= y
        /\ w[a] \in Nat /\ w2[a] \in Nat /\ w[a] <= w2[a]
    BY <1>1, ValueTypes
  <2>2. f[a] = x * w[a] /\ g[a] = y * w2[a]
    BY <2>1
  <2> HIDE DEF f, g, x, y, S, T
  <2>3. x * w[a] <= y * w[a]
    BY <2>1, MulMonotone
  <2>4. w[a] * y <= w2[a] * y
    BY <2>1, MulMonotone
  <2>5. /\ x * w[a] \in Nat /\ y * w[a] \in Nat /\ y * w2[a] \in Nat
        /\ y * w[a] = w[a] * y /\ y * w2[a] = w2[a] * y
    BY <2>1, MulNat
  <2> QED BY <2>2, <2>3, <2>4, <2>5
<1> HIDE DEF f, g, S, T
<1>4. /\ SumOver(f, S) \in Nat /\ SumOver(g, T) \in Nat
      /\ SumOver(f, S) <= SumOver(g, T)
  BY <1>1, <1>2, <1>3, SumType, SumMonotone
<1>5. SumOver(f, S) \div PERCENTAGE_FACTOR <= SumOver(g, T) \div PERCENTAGE_FACTOR
  BY <1>4, DivDownMonotone, ScaleAssumption
<1> QED BY <1>5, Zenon DEF WeightedCollateral, f, g, S, T

\* The account eased has no debt that acct has not, and all of its collateral, at the
\* same indexes and thresholds.
Eases(acct, res, eased, res2, t) ==
    /\ \A a \in DebtAssets(eased) :
         /\ a \in DebtAssets(acct)
         /\ eased.debt[a] <= acct.debt[a]
         /\ NormalizedDebt(res2[a], t) = NormalizedDebt(res[a], t)
    /\ \A a \in CollateralAssets(acct) :
         /\ a \in CollateralAssets(eased)
         /\ acct.supply[a] <= eased.supply[a]
         /\ NormalizedIncome(res2[a], t) = NormalizedIncome(res[a], t)
         /\ res2[a].config.liquidationThreshold = res[a].config.liquidationThreshold

\* Taking debt off an account or adding collateral to it never makes it liquidatable.
THEOREM EasedStaysHealthy ==
    ASSUME NEW acct \in AccountType, NEW eased \in AccountType, NEW res, NEW res2,
           NEW prices, NEW t, Valuable(res, prices, t), Valuable(res2, prices, t),
           Eases(acct, res, eased, res2, t), IsHealthy(acct, res, prices, t)
    PROVE  IsHealthy(eased, res2, prices, t)
<1> DEFINE S == DebtAssets(eased)
           T == DebtAssets(acct)
           f == [a \in S |-> DebtValue(eased, res2, prices, t, a)]
           g == [a \in T |-> DebtValue(acct, res, prices, t, a)]
           w == [a \in Asset |-> res[a].config.liquidationThreshold]
           w2 == [a \in Asset |-> res2[a].config.liquidationThreshold]
<1>1. S \subseteq Asset /\ T \subseteq Asset /\ IsFiniteSet(T) /\ S \subseteq T
  BY ExposureFinite DEF Eases
<1>2. \A a \in T : g[a] \in Nat
  BY <1>1, ValueTypes
<1>3. \A a \in S : f[a] \in Nat /\ f[a] <= g[a]
  <2> TAKE a \in S
  <2>1. /\ a \in Asset /\ a \in T /\ eased.debt[a] <= acct.debt[a]
        /\ NormalizedDebt(res[a], t) = NormalizedDebt(res2[a], t)
    BY <1>1 DEF Eases
  <2>2. /\ DebtValue(eased, res2, prices, t, a) \in Nat
        /\ DebtValue(eased, res2, prices, t, a) <= DebtValue(acct, res, prices, t, a)
    BY <2>1, ValueTypes, ValueMonotone
  <2> QED BY <2>1, <2>2
<1> HIDE DEF f, g, S, T
<1>4. SumOver(f, S) <= SumOver(g, T)
  BY <1>1, <1>2, <1>3, SumMonotone
<1>5. TotalDebtValue(eased, res2, prices, t) <= TotalDebtValue(acct, res, prices, t)
  BY <1>4, Zenon DEF TotalDebtValue, f, g, S, T
<1>6. \A a \in Asset : w[a] \in Nat /\ w2[a] \in Nat
  BY DEF Valuable
<1>7. \A a \in CollateralAssets(acct) :
          /\ a \in CollateralAssets(eased)
          /\ CollateralValue(acct, res, prices, t, a) <= CollateralValue(eased, res2, prices, t, a)
          /\ w[a] <= w2[a]
  <2> TAKE a \in CollateralAssets(acct)
  <2>1. /\ a \in Asset /\ a \in CollateralAssets(eased) /\ acct.supply[a] <= eased.supply[a]
        /\ NormalizedIncome(res2[a], t) = NormalizedIncome(res[a], t)
        /\ w[a] = w2[a]
    BY ExposureFinite DEF Eases
  <2>2. w[a] <= w2[a]
    BY <1>6, <2>1
  <2> HIDE DEF w, w2
  <2> QED BY <2>1, <2>2, ValueMonotone
<1> HIDE DEF w, w2
<1>8. WeightedCollateral(acct, res, prices, t, w) <= WeightedCollateral(eased, res2, prices, t, w2)
  BY <1>6, <1>7, WeightedMonotone
<1>9. LiquidationValue(acct, res, prices, t) <= LiquidationValue(eased, res2, prices, t)
  BY <1>8 DEF LiquidationValue, w, w2
<1>10. TotalDebtValue(acct, res, prices, t) <= LiquidationValue(acct, res, prices, t)
  BY HealthIsCover
<1>11. /\ TotalDebtValue(eased, res2, prices, t) \in Nat
       /\ TotalDebtValue(acct, res, prices, t) \in Nat
       /\ LiquidationValue(acct, res, prices, t) \in Nat
       /\ LiquidationValue(eased, res2, prices, t) \in Nat
  BY <1>6, TotalsType DEF LiquidationValue, w, w2
<1>12. TotalDebtValue(eased, res2, prices, t) <= LiquidationValue(eased, res2, prices, t)
  BY <1>5, <1>9, <1>10, <1>11
<1> QED BY <1>12, HealthIsCover

\* The capacity check leaves a margin: what it lets through is not liquidatable,
\* because no loan-to-value exceeds its liquidation threshold.
THEOREM CapacityIsHealthy ==
    ASSUME NEW acct \in AccountType, NEW res, NEW prices, NEW t, Valuable(res, prices, t),
           \A a \in Asset : res[a].config.ltv <= res[a].config.liquidationThreshold,
           WithinBorrowCapacity(acct, res, prices, t)
    PROVE  IsHealthy(acct, res, prices, t)
<1> DEFINE w == [a \in Asset |-> res[a].config.ltv]
           w2 == [a \in Asset |-> res[a].config.liquidationThreshold]
<1>1. \A a \in Asset : w[a] \in Nat /\ w2[a] \in Nat /\ w[a] <= w2[a]
  BY DEF Valuable
<1> HIDE DEF w, w2
<1>2. \A a \in CollateralAssets(acct) :
          /\ CollateralValue(acct, res, prices, t, a) <= CollateralValue(acct, res, prices, t, a)
          /\ w[a] <= w2[a]
  BY <1>1, ExposureFinite, ValueTypes
<1>3. WeightedCollateral(acct, res, prices, t, w) <= WeightedCollateral(acct, res, prices, t, w2)
  BY <1>1, <1>2, WeightedMonotone
<1>4. TotalDebtValue(acct, res, prices, t) <= WeightedCollateral(acct, res, prices, t, w)
  BY DEF WithinBorrowCapacity, BorrowCapacityValue, w
<1>5. /\ TotalDebtValue(acct, res, prices, t) \in Nat
      /\ WeightedCollateral(acct, res, prices, t, w) \in Nat
      /\ WeightedCollateral(acct, res, prices, t, w2) \in Nat
  BY <1>1, TotalsType
<1>6. TotalDebtValue(acct, res, prices, t) <= LiquidationValue(acct, res, prices, t)
  BY <1>3, <1>4, <1>5 DEF LiquidationValue, w2
<1> QED BY <1>6, HealthIsCover

-----------------------------------------------------------------------------
(***************************************************************************)
(* LiquidationLogic: the amounts of a liquidation stay within the          *)
(* borrower's two balances, and a write-off never takes more than the      *)
(* reserve's debt and treasury hold.                                       *)
(***************************************************************************)

\* Usable inputs of calculateAmounts: the prices and units it divides by are not 0.
AmountsInput(i) ==
    /\ i.borrowerDebt \in Nat
    /\ i.borrowerCollateral \in Nat
    /\ i.debtPrice \in Nat \ {0}
    /\ i.collateralPrice \in Nat \ {0}
    /\ i.debtUnit \in Nat \ {0}
    /\ i.collateralUnit \in Nat \ {0}
    /\ i.bonus \in Nat
    /\ i.debtToCover \in Nat

\* Products of naturals are naturals, and of non-zero ones non-zero.
LEMMA Product ==
    ASSUME NEW a \in Nat \ {0}, NEW b \in Nat \ {0}
    PROVE  a * b \in Nat \ {0}
BY MulNat

\* A percentage of at most 100% of a debt is at most the debt.
LEMMA PercentOfDebt ==
    ASSUME NEW d \in Nat, NEW bps \in Nat, bps <= PERCENTAGE_FACTOR
    PROVE  PercentMulDown(d, bps) \in Nat /\ PercentMulDown(d, bps) <= d
<1>1. bps * d <= PERCENTAGE_FACTOR * d /\ PERCENTAGE_FACTOR \in Nat \ {0}
  BY MulMonotone, ScaleAssumption
<1>2. d * bps \in Nat /\ d * PERCENTAGE_FACTOR \in Nat /\ d * bps <= d * PERCENTAGE_FACTOR
  BY <1>1, MulNat
<1>3. (d + 1) * PERCENTAGE_FACTOR = d * PERCENTAGE_FACTOR + PERCENTAGE_FACTOR
  BY <1>1
<1>4. d * bps < (d + 1) * PERCENTAGE_FACTOR
  BY <1>1, <1>2, <1>3
<1>5. (d * bps) \div PERCENTAGE_FACTOR < d + 1
  BY <1>1, <1>2, <1>4, DivDownBelow
<1>6. (d * bps) \div PERCENTAGE_FACTOR \in Nat
  BY <1>1, <1>2, DivDown
<1> QED BY <1>5, <1>6 DEF PercentMulDown

\* What a unit of collateral and a unit of debt weigh against each other in a
\* liquidation: prices at the scale of the other's unit, the debt with the bonus.
SeizedWorth(i) == i.debtUnit * i.collateralPrice * PERCENTAGE_FACTOR
RepaidWorth(i) == i.collateralUnit * i.debtPrice * (PERCENTAGE_FACTOR + i.bonus)

\* The factors of a quotient of calculateAmounts, regrouped.
LEMMA Regroup ==
    ASSUME NEW a \in Nat, NEW b \in Nat, NEW c \in Nat, NEW d \in Nat
    PROVE  a * b * (c * d) = a * (c * b * d)
<1>1. a * b * (c * d) = a * (b * (c * d))
  OBVIOUS
<1>2. b * (c * d) = c * b * d
  OBVIOUS
<1> QED BY <1>1, <1>2

\* What is seized and repaid for weigh something.
LEMMA Worths ==
    ASSUME NEW i, AmountsInput(i)
    PROVE  SeizedWorth(i) \in Nat \ {0} /\ RepaidWorth(i) \in Nat \ {0}
<1>1. PERCENTAGE_FACTOR + i.bonus \in Nat \ {0} /\ PERCENTAGE_FACTOR \in Nat \ {0}
  BY ScaleAssumption DEF AmountsInput
<1>2. i.debtUnit * i.collateralPrice \in Nat \ {0} /\ i.collateralUnit * i.debtPrice \in Nat \ {0}
  BY Product DEF AmountsInput
<1> QED BY <1>1, <1>2, Product DEF SeizedWorth, RepaidWorth

\* RepaidAndSeized, with the factors of its quotients regrouped.
LEMMA QuoteForm ==
    ASSUME NEW i, AmountsInput(i), NEW cf \in Nat, cf <= PERCENTAGE_FACTOR
    PROVE  LET maxDebt == PercentMulDown(i.borrowerDebt, cf)
               repaid == IF i.debtToCover < maxDebt THEN i.debtToCover ELSE maxDebt
               seized == (repaid * RepaidWorth(i)) \div SeizedWorth(i)
               covered == DivUp(i.borrowerCollateral * SeizedWorth(i), RepaidWorth(i))
           IN  RepaidAndSeized(i, cf) =
                 IF seized > i.borrowerCollateral
                 THEN [debtRepaid |-> IF covered > i.borrowerDebt THEN i.borrowerDebt ELSE covered,
                       collateralSeized |-> i.borrowerCollateral]
                 ELSE [debtRepaid |-> repaid, collateralSeized |-> seized]
<1> DEFINE maxDebt == PercentMulDown(i.borrowerDebt, cf)
           repaid == IF i.debtToCover < maxDebt THEN i.debtToCover ELSE maxDebt
           withBonus == PERCENTAGE_FACTOR + i.bonus
<1>1. maxDebt \in Nat
  BY PercentOfDebt DEF AmountsInput
<1> HIDE DEF maxDebt
<1>2. repaid \in Nat
  BY <1>1 DEF AmountsInput
<1> HIDE DEF repaid
<1>3. withBonus \in Nat \ {0} /\ PERCENTAGE_FACTOR \in Nat \ {0}
  BY ScaleAssumption DEF AmountsInput
<1>4. repaid * i.debtPrice * (i.collateralUnit * withBonus) = repaid * RepaidWorth(i)
  <2>1. i.debtPrice \in Nat /\ i.collateralUnit \in Nat
    BY DEF AmountsInput
  <2> QED BY <2>1, <1>2, <1>3, Regroup DEF RepaidWorth
<1>5. i.borrowerCollateral * i.collateralPrice * (i.debtUnit * PERCENTAGE_FACTOR)
        = i.borrowerCollateral * SeizedWorth(i)
  <2>1. i.collateralPrice \in Nat /\ i.debtUnit \in Nat /\ i.borrowerCollateral \in Nat
    BY DEF AmountsInput
  <2> QED BY <2>1, <1>3, Regroup DEF SeizedWorth
<1> QED BY <1>4, <1>5 DEF RepaidAndSeized, repaid, maxDebt, SeizedWorth, RepaidWorth

\* Dividing a multiple gives the factor back.
LEMMA Quotient ==
    ASSUME NEW n \in Nat, NEW b \in Nat \ {0}
    PROVE  (n * b) \div b = n
<1> DEFINE q == (n * b) \div b
<1>1. n * b \in Nat
  BY MulNat
<1>2. q \in Nat /\ q * b <= n * b /\ n * b < q * b + b
  BY <1>1, DivDown
<1> HIDE DEF q
<1>3. (q + 1) * b = q * b + b /\ q + 1 \in Nat
  BY <1>2, MulNat
<1>4. n < q + 1 /\ q <= n
  BY <1>2, <1>3, Cancel, CancelAtMost
<1>5. q = n
  BY <1>2, <1>4
<1> QED BY <1>5 DEF q

\* Neither leg of a liquidation exceeds the balance it is taken from, the repayment
\* not what was offered, and what is seized is worth at most the repayment and its bonus.
LEMMA RepaidAndSeizedBounds ==
    ASSUME NEW i, AmountsInput(i), NEW cf \in Nat, cf <= PERCENTAGE_FACTOR
    PROVE  LET r == RepaidAndSeized(i, cf)
           IN  /\ r.debtRepaid \in Nat /\ r.debtRepaid <= i.borrowerDebt
               /\ r.debtRepaid <= i.debtToCover
               /\ r.collateralSeized \in Nat /\ r.collateralSeized <= i.borrowerCollateral
               /\ r.collateralSeized * SeizedWorth(i) <= r.debtRepaid * RepaidWorth(i)
<1> DEFINE maxDebt == PercentMulDown(i.borrowerDebt, cf)
           repaid == IF i.debtToCover < maxDebt THEN i.debtToCover ELSE maxDebt
           den == SeizedWorth(i)
           denC == RepaidWorth(i)
           seized == (repaid * denC) \div den
           covered == DivUp(i.borrowerCollateral * den, denC)
<1>1. maxDebt \in Nat /\ maxDebt <= i.borrowerDebt
  BY PercentOfDebt DEF AmountsInput
<1> HIDE DEF maxDebt
<1>2. repaid \in Nat /\ repaid <= i.borrowerDebt /\ repaid <= i.debtToCover
  BY <1>1 DEF AmountsInput
<1> HIDE DEF repaid
<1>3. i.borrowerDebt \in Nat /\ i.borrowerCollateral \in Nat
  BY DEF AmountsInput
<1>4. den \in Nat \ {0} /\ denC \in Nat \ {0}
  BY Worths
<1>5. RepaidAndSeized(i, cf) =
        IF seized > i.borrowerCollateral
        THEN [debtRepaid |-> IF covered > i.borrowerDebt THEN i.borrowerDebt ELSE covered,
              collateralSeized |-> i.borrowerCollateral]
        ELSE [debtRepaid |-> repaid, collateralSeized |-> seized]
  BY QuoteForm DEF repaid, maxDebt
<1> HIDE DEF den, denC
<1>6. /\ repaid * denC \in Nat /\ i.borrowerCollateral * den \in Nat
      /\ seized \in Nat /\ seized * den <= repaid * denC
  BY <1>2, <1>3, <1>4, MulNat, DivDown
<1>7. covered \in Nat /\ i.borrowerCollateral * den <= covered * denC
  BY <1>4, <1>6, DivUpBounds
<1>8. seized > i.borrowerCollateral => covered <= repaid
  <2>1. SUFFICES ASSUME seized > i.borrowerCollateral PROVE covered <= repaid
    OBVIOUS
  <2>2. i.borrowerCollateral * den <= seized * den /\ seized * den \in Nat
    BY <2>1, <1>3, <1>4, <1>6, MulMonotone, MulNat
  <2>3. i.borrowerCollateral * den <= repaid * denC
    BY <2>2, <1>6
  <2> QED BY <2>3, <1>2, <1>4, <1>6, DivUpAtMost
<1> HIDE DEF seized, covered
<1>9. CASE seized > i.borrowerCollateral
  <2>1. RepaidAndSeized(i, cf) = [debtRepaid |-> covered, collateralSeized |-> i.borrowerCollateral]
    BY <1>2, <1>3, <1>5, <1>7, <1>8, <1>9
  <2> QED BY <2>1, <1>2, <1>3, <1>7, <1>8, <1>9 DEF den, denC, AmountsInput
<1>10. CASE ~(seized > i.borrowerCollateral)
  <2>1. RepaidAndSeized(i, cf) = [debtRepaid |-> repaid, collateralSeized |-> seized]
    BY <1>5, <1>10
  <2> QED BY <2>1, <1>2, <1>3, <1>6, <1>10 DEF den, denC
<1> QED BY <1>9, <1>10

\* The close factor is a share.
LEMMA CloseFactorType ==
    ASSUME NEW hf, NEW dv, NEW cv
    PROVE  CloseFactor(hf, dv, cv) \in Nat /\ CloseFactor(hf, dv, cv) <= PERCENTAGE_FACTOR
<1>1. /\ MAX_CLOSE_FACTOR \in Nat /\ MAX_CLOSE_FACTOR <= PERCENTAGE_FACTOR
      /\ DEFAULT_CLOSE_FACTOR \in Nat /\ DEFAULT_CLOSE_FACTOR <= PERCENTAGE_FACTOR
  BY ScaleAssumption, DivDown DEF MAX_CLOSE_FACTOR, DEFAULT_CLOSE_FACTOR
<1> QED BY <1>1 DEF CloseFactor

\* No liquidation repays more than the debt or seizes more than the collateral
\* (calculateAmounts, whatever its status).
THEOREM AmountsWithinBalances ==
    ASSUME NEW i, AmountsInput(i)
    PROVE  LET r == CalculateAmounts(i)
           IN  /\ r.debtRepaid \in Nat /\ r.debtRepaid <= i.borrowerDebt
               /\ r.collateralSeized \in Nat /\ r.collateralSeized <= i.borrowerCollateral
<1> DEFINE cf == CloseFactor(i.healthFactor,
                             (i.borrowerDebt * i.debtPrice) \div i.debtUnit,
                             (i.borrowerCollateral * i.collateralPrice) \div i.collateralUnit)
<1>1. cf \in Nat /\ cf <= PERCENTAGE_FACTOR
  BY CloseFactorType
<1>2. /\ CalculateAmounts(i).debtRepaid = RepaidAndSeized(i, cf).debtRepaid
      /\ CalculateAmounts(i).collateralSeized = RepaidAndSeized(i, cf).collateralSeized
  BY DEF CalculateAmounts
<1> HIDE DEF cf
<1> QED BY <1>1, <1>2, RepaidAndSeizedBounds

\* A liquidator takes no more than it pays for: the repayment is at most what it
\* offered, also where the seizure is cut to the collateral there is and the
\* repayment recomputed and rounded up, and the seized collateral is worth at most
\* the repayment plus the bonus.
THEOREM SeizureWithinBonus ==
    ASSUME NEW i, AmountsInput(i)
    PROVE  LET r == CalculateAmounts(i)
           IN  /\ r.debtRepaid <= i.debtToCover
               /\ r.collateralSeized * SeizedWorth(i) <= r.debtRepaid * RepaidWorth(i)
<1> DEFINE cf == CloseFactor(i.healthFactor,
                             (i.borrowerDebt * i.debtPrice) \div i.debtUnit,
                             (i.borrowerCollateral * i.collateralPrice) \div i.collateralUnit)
<1>1. cf \in Nat /\ cf <= PERCENTAGE_FACTOR
  BY CloseFactorType
<1>2. /\ CalculateAmounts(i).debtRepaid = RepaidAndSeized(i, cf).debtRepaid
      /\ CalculateAmounts(i).collateralSeized = RepaidAndSeized(i, cf).collateralSeized
  BY DEF CalculateAmounts
<1> HIDE DEF cf
<1> QED BY <1>1, <1>2, RepaidAndSeizedBounds

\* Offering what a quote said would be repaid is quoted the same, whether the offer, the
\* close factor or the collateral had bounded the quote.
LEMMA RepaidAndSeizedStable ==
    ASSUME NEW i, AmountsInput(i), NEW cf \in Nat, cf <= PERCENTAGE_FACTOR,
           NEW j, AmountsInput(j),
           j.borrowerDebt = i.borrowerDebt, j.borrowerCollateral = i.borrowerCollateral,
           j.debtPrice = i.debtPrice, j.collateralPrice = i.collateralPrice,
           j.debtUnit = i.debtUnit, j.collateralUnit = i.collateralUnit, j.bonus = i.bonus,
           j.debtToCover = RepaidAndSeized(i, cf).debtRepaid
    PROVE  RepaidAndSeized(j, cf) = RepaidAndSeized(i, cf)
<1> DEFINE debt == i.borrowerDebt
           coll == i.borrowerCollateral
           maxDebt == PercentMulDown(debt, cf)
           den == SeizedWorth(i)
           denC == RepaidWorth(i)
           Repay(n) == IF n < maxDebt THEN n ELSE maxDebt
           Seized(n) == (n * denC) \div den
           covered == DivUp(coll * den, denC)
           Result(n) == IF Seized(Repay(n)) > coll
                        THEN [debtRepaid |-> IF covered > debt THEN debt ELSE covered,
                              collateralSeized |-> coll]
                        ELSE [debtRepaid |-> Repay(n), collateralSeized |-> Seized(Repay(n))]
<1>1. maxDebt \in Nat /\ maxDebt <= debt /\ debt \in Nat /\ coll \in Nat
  BY PercentOfDebt DEF AmountsInput
<1>2. den \in Nat \ {0} /\ denC \in Nat \ {0}
  BY Worths
<1>3. ASSUME NEW k \in {i, j} PROVE RepaidAndSeized(k, cf) = Result(k.debtToCover)
  <2>1. AmountsInput(k)
    OBVIOUS
  <2>2. /\ PercentMulDown(k.borrowerDebt, cf) = maxDebt
        /\ SeizedWorth(k) = den /\ RepaidWorth(k) = denC
    BY DEF SeizedWorth, RepaidWorth
  <2>3. /\ k.borrowerDebt = debt /\ k.borrowerCollateral = coll
    OBVIOUS
  <2> HIDE DEF maxDebt, den, denC, debt, coll
  <2> QED BY <2>1, <2>2, <2>3, QuoteForm DEF Result, Repay, Seized, covered
<1> HIDE DEF maxDebt, den, denC, debt, coll
<1> DEFINE n == i.debtToCover
           repaid == Repay(n)
<1>4. n \in Nat /\ repaid \in Nat /\ repaid <= maxDebt
  BY <1>1 DEF AmountsInput
<1>5. coll * den \in Nat /\ repaid * denC \in Nat
  BY <1>1, <1>2, <1>4, MulNat
<1>6. covered \in Nat /\ coll * den <= covered * denC /\ covered * denC \in Nat
  BY <1>1, <1>2, <1>5, DivUpBounds, MulNat
<1>7. CASE Seized(repaid) > coll
  <2>1. covered <= repaid
    <3>1. Seized(repaid) \in Nat /\ Seized(repaid) * den <= repaid * denC
      BY <1>2, <1>5, DivDown
    <3> HIDE DEF Seized, repaid
    <3>2. coll * den <= Seized(repaid) * den /\ Seized(repaid) * den \in Nat
      BY <1>1, <1>2, <1>7, <3>1, MulMonotone, MulNat
    <3>3. coll * den <= repaid * denC
      BY <1>5, <3>1, <3>2
    <3> QED BY <1>2, <1>4, <1>5, <3>3, DivUpAtMost DEF covered
  <2> HIDE DEF covered, repaid
  <2>2. Result(n) = [debtRepaid |-> covered, collateralSeized |-> coll]
    <3>1. ~(covered > debt)
      BY <1>1, <1>4, <1>6, <2>1
    <3> QED BY <1>7, <3>1 DEF repaid
  <2>3. j.debtToCover = covered
    BY <1>3, <2>2
  <2>4. Repay(covered) = covered
    BY <1>1, <1>4, <1>6, <2>1
  <2>5. coll <= Seized(covered) /\ Seized(covered) \in Nat
    <3>1. (coll * den) \div den <= (covered * denC) \div den
      BY <1>2, <1>5, <1>6, DivDownMonotone
    <3>2. (coll * den) \div den = coll
      BY <1>1, <1>2, Quotient
    <3>3. (covered * denC) \div den \in Nat
      BY <1>2, <1>6, DivDown
    <3> QED BY <3>1, <3>2, <3>3
  <2> HIDE DEF Seized
  <2>6. Result(covered) = [debtRepaid |-> covered, collateralSeized |-> coll]
    <3>1. CASE Seized(covered) > coll
      <4>1. ~(covered > debt)
        BY <1>1, <1>4, <1>6, <2>1
      <4> QED BY <2>4, <3>1, <4>1
    <3>2. CASE ~(Seized(covered) > coll)
      <4>1. Seized(covered) = coll
        BY <1>1, <2>5, <3>2
      <4> QED BY <2>4, <3>2, <4>1
    <3> QED BY <3>1, <3>2
  <2> HIDE DEF Result
  <2> QED BY <1>3, <2>2, <2>3, <2>6
<1>8. CASE ~(Seized(repaid) > coll)
  <2>1. Result(n) = [debtRepaid |-> repaid, collateralSeized |-> Seized(repaid)]
    BY <1>8
  <2>2. j.debtToCover = repaid
    <3> HIDE DEF repaid, Seized
    <3> QED BY <1>3, <2>1
  <2>3. Repay(repaid) = repaid
    BY <1>1, <1>4
  <2>4. Result(repaid) = Result(n)
    BY <2>3
  <2> HIDE DEF Result, repaid
  <2> QED BY <1>3, <2>2, <2>4
<1> QED BY <1>7, <1>8

\* A quote is stable: the preview of a liquidation for the most there is to cover and the
\* liquidation for what that preview said would be repaid have the same amounts and status.
THEOREM QuoteStable ==
    ASSUME NEW i, AmountsInput(i),
           NEW j, AmountsInput(j), j.healthFactor = i.healthFactor,
           j.borrowerDebt = i.borrowerDebt, j.borrowerCollateral = i.borrowerCollateral,
           j.debtPrice = i.debtPrice, j.collateralPrice = i.collateralPrice,
           j.debtUnit = i.debtUnit, j.collateralUnit = i.collateralUnit, j.bonus = i.bonus,
           j.debtToCover = CalculateAmounts(i).debtRepaid
    PROVE  CalculateAmounts(j) = CalculateAmounts(i)
<1> DEFINE cf(k) == CloseFactor(k.healthFactor,
                                (k.borrowerDebt * k.debtPrice) \div k.debtUnit,
                                (k.borrowerCollateral * k.collateralPrice) \div k.collateralUnit)
<1>1. cf(i) \in Nat /\ cf(i) <= PERCENTAGE_FACTOR /\ cf(j) = cf(i)
  BY CloseFactorType
<1>2. CalculateAmounts(i).debtRepaid = RepaidAndSeized(i, cf(i)).debtRepaid
  BY DEF CalculateAmounts
<1> DEFINE f == cf(i)
<1>3. f \in Nat /\ f <= PERCENTAGE_FACTOR /\ j.debtToCover = RepaidAndSeized(i, f).debtRepaid
  BY <1>1, <1>2
<1> HIDE DEF f
<1>4. RepaidAndSeized(j, f) = RepaidAndSeized(i, f)
  BY <1>3, RepaidAndSeizedStable
<1>5. RepaidAndSeized(j, cf(j)) = RepaidAndSeized(i, cf(i))
  BY <1>1, <1>4 DEF f
<1> DEFINE a == RepaidAndSeized(i, cf(i))
<1>6. LeavesDust(j, a) = LeavesDust(i, a)
  BY DEF LeavesDust
<1> HIDE DEF a
<1> QED BY <1>5, <1>6 DEF CalculateAmounts, a

\* The treasury never covers more than the loss nor ends below zero.
LEMMA AbsorbType ==
    ASSUME NEW r \in ReserveData, r.liquidityIndex # 0, NEW loss \in Nat
    PROVE  LET a == AbsorbWithTreasury(r, loss)
           IN  /\ a.covered \in Nat /\ a.covered <= loss
               /\ a.accruedToTreasury \in Nat
<1> DEFINE value == RayMulDown(r.accruedToTreasury, r.liquidityIndex)
           burn == RayDivUp(loss, r.liquidityIndex)
<1>1. r.accruedToTreasury \in Nat /\ r.liquidityIndex \in Nat \ {0}
  BY DEF ReserveData
<1>2. value \in Nat
  BY <1>1, RayType
<1>3. loss <= value => burn \in Nat /\ burn <= r.accruedToTreasury
  BY <1>1, BurnUpWithinBalance
<1>4. AbsorbWithTreasury(r, loss) =
        IF value <= loss
        THEN [covered |-> value, accruedToTreasury |-> 0]
        ELSE [covered |-> loss, accruedToTreasury |-> r.accruedToTreasury - burn]
  BY DEF AbsorbWithTreasury
<1> HIDE DEF value, burn
<1>5. CASE value <= loss
  BY <1>2, <1>4, <1>5
<1>6. CASE ~(value <= loss)
  BY <1>1, <1>2, <1>3, <1>4, <1>6
<1> QED BY <1>5, <1>6

\* s is r with a scaled debt written off.
WrittenDown(r, s, scaled) ==
    \E tr \in Nat, df \in Nat :
        s = [r EXCEPT !.totalScaledDebt = @ - scaled, !.accruedToTreasury = tr, !.deficit = df]

\* Writing off a debt leaves a well-formed reserve whose total falls by the debt.
THEOREM WriteOffKeeps ==
    ASSUME NEW r \in ReserveData, r.liquidityIndex # 0, NEW scaled \in Nat
    PROVE  WrittenDown(r, WriteOffDebt(r, scaled), scaled)
<1> DEFINE debt == RayMulUp(scaled, r.borrowIndex)
           a == AbsorbWithTreasury(r, debt)
           df == r.deficit + (debt - a.covered)
<1>1. debt \in Nat /\ r.deficit \in Nat /\ r.accruedToTreasury \in Nat
  BY RayType DEF ReserveData
<1> HIDE DEF debt
<1>2. a.covered \in Nat /\ a.covered <= debt /\ a.accruedToTreasury \in Nat
  BY <1>1, AbsorbType
<1> HIDE DEF a
<1>3. df \in Nat
  BY <1>1, <1>2
<1>4. CASE scaled = 0
  <2>1. WriteOffDebt(r, scaled) = r
    BY <1>4 DEF WriteOffDebt
  <2>a. r.totalScaledDebt - scaled = r.totalScaledDebt
    BY <1>4 DEF ReserveData
  <2>b. r = [r EXCEPT !.totalScaledDebt = r.totalScaledDebt,
                      !.accruedToTreasury = r.accruedToTreasury, !.deficit = r.deficit]
    BY DEF ReserveData
  <2>2. r = [r EXCEPT !.totalScaledDebt = @ - scaled, !.accruedToTreasury = r.accruedToTreasury,
                      !.deficit = r.deficit]
    BY <2>a, <2>b, Zenon
  <2>3. WriteOffDebt(r, scaled) = [r EXCEPT !.totalScaledDebt = @ - scaled,
                                            !.accruedToTreasury = r.accruedToTreasury,
                                            !.deficit = r.deficit]
    BY <2>1, <2>2, Zenon
  <2> QED BY <2>3, <1>1, Zenon DEF WrittenDown
<1>5. CASE scaled # 0
  <2>1. WriteOffDebt(r, scaled) = [r EXCEPT !.totalScaledDebt = @ - scaled,
                                            !.accruedToTreasury = a.accruedToTreasury,
                                            !.deficit = df]
    BY <1>5 DEF WriteOffDebt, debt, a
  <2> HIDE DEF df
  <2> QED BY <2>1, <1>2, <1>3, Zenon DEF WrittenDown
<1> QED BY <1>4, <1>5
=============================================================================
