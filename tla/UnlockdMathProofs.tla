-------------------------- MODULE UnlockdMathProofs --------------------------
(***************************************************************************)
(* What the rounding of WadRayMath guarantees, for every unit and every    *)
(* index, and how a sum changes with one of its summands.                  *)
(***************************************************************************)
EXTENDS UnlockdMath, FiniteSetTheorems, TLAPS

\* A quotient is the largest number of times the divisor fits.
LEMMA DivBounds ==
  ASSUME NEW a \in Nat, NEW b \in Nat, b > 0
  PROVE  /\ a \div b \in Nat
         /\ b * (a \div b) <= a
         /\ a < b * (a \div b) + b
  OBVIOUS

\* Multiplication by a positive number can be cancelled from an inequality.
LEMMA CancelMul ==
  ASSUME NEW a \in Int, NEW b \in Int, NEW c \in Nat, c > 0, c * a < c * b
  PROVE  a < b
  OBVIOUS

-----------------------------------------------------------------------------
(* Rounding.                                                               *)

\* A product of natural numbers of a positive unit is one.
LEMMA UnitMulNat ==
  ASSUME NEW a \in Nat, NEW b \in Nat, NEW unit \in Nat \ {0}
  PROVE  UnitMul(a, b, unit) \in Nat
<1>1. a * b \in Nat /\ unit \div 2 \in Nat OBVIOUS
<1> DEFINE n == a * b + (unit \div 2)
<1>2. n \in Nat BY <1>1
<1> HIDE DEF n
<1>3. n \div unit \in Nat BY <1>2
<1> QED BY <1>3 DEF UnitMul, n

\* A quotient of natural numbers by a positive one is one.
LEMMA UnitDivNat ==
  ASSUME NEW a \in Nat, NEW b \in Nat \ {0}, NEW unit \in Nat
  PROVE  UnitDiv(a, b, unit) \in Nat
<1>1. a * unit \in Nat /\ b \div 2 \in Nat OBVIOUS
<1> DEFINE n == a * unit + (b \div 2)
<1>2. n \in Nat BY <1>1
<1> HIDE DEF n
<1>3. n \div b \in Nat BY <1>2
<1> QED BY <1>3 DEF UnitDiv, n

\* There is one quotient: the number of times the divisor fits.
LEMMA DivUnique ==
  ASSUME NEW n \in Nat, NEW b \in Nat, b > 0, NEW q \in Nat,
         b * q <= n, n < b * q + b
  PROVE  n \div b = q
<1> DEFINE r == n \div b
<1>1. r \in Nat /\ b * r <= n /\ n < b * r + b BY DivBounds
<1> HIDE DEF r
<1>2. b * r < b * (q + 1) BY <1>1
<1>3. b * q < b * (r + 1) BY <1>1
<1>4. r < q + 1 BY <1>1, <1>2, CancelMul
<1>5. q < r + 1 BY <1>1, <1>3, CancelMul
<1> QED BY <1>1, <1>4, <1>5 DEF r

\* A scaled amount survives the way to the amount that is owed and back, for
\* every index of at least one ray: what burns the debt of a loan burns all of
\* it and no more.
LEMMA ScaleRoundTrip ==
  ASSUME NEW scaled \in Nat, NEW index \in Nat, index >= RAY
  PROVE  RayDiv(RayMul(scaled, index), index) = scaled
<1> DEFINE half == RAY \div 2
           n == scaled * index + half
           owed == n \div RAY
           p == owed * RAY
           halfIndex == index \div 2
<1>1. RAY \in Nat /\ RAY > 0 BY UnitsAssumption
<1>2. half \in Nat /\ 2 * half <= RAY /\ RAY <= 2 * half + 1 BY <1>1
<1>3. halfIndex \in Nat /\ 2 * halfIndex <= index /\ index <= 2 * halfIndex + 1
  OBVIOUS
<1>4. scaled * index \in Nat BY <1>1
<1> DEFINE m == scaled * index
<1>5. n \in Nat BY <1>2, <1>4
<1>6. owed \in Nat /\ RAY * owed <= n /\ n < RAY * owed + RAY
  <2> HIDE DEF n
  <2> QED BY <1>1, <1>5, DivBounds
<1>7. p = RAY * owed /\ p \in Nat
  <2> HIDE DEF owed
  <2> QED BY <1>1, <1>6
<1>8. m = index * scaled /\ m \in Nat /\ n = m + half BY <1>1, <1>4
<1> HIDE DEF m, n, owed, half, halfIndex, p
<1>9. p <= m + half /\ m + half < p + RAY BY <1>6, <1>7, <1>8
<1>10. m <= p + halfIndex BY <1>1, <1>2, <1>3, <1>7, <1>8, <1>9
<1>11. p + halfIndex < m + index
  <2>1. CASE index > RAY BY <2>1, <1>1, <1>2, <1>3, <1>7, <1>8, <1>9
  <2>2. CASE index = RAY
    <3>1. p = RAY * owed /\ m = RAY * scaled BY <2>2, <1>7, <1>8
    <3>2. RAY * owed < RAY * (scaled + 1) BY <3>1, <1>1, <1>2, <1>8, <1>9
    <3>3. owed < scaled + 1 BY <3>2, <1>1, <1>6, CancelMul
    <3>4. RAY * owed <= RAY * scaled
      <4>1. PICK d \in Nat : scaled = owed + d BY <3>3, <1>6
      <4>2. RAY * scaled = RAY * owed + RAY * d BY <4>1, <1>1, <1>6
      <4>3. RAY * d \in Nat /\ RAY * owed \in Nat BY <1>1, <1>6, <4>1
      <4> QED BY <4>2, <4>3
    <3> QED BY <2>2, <3>1, <3>4, <1>1, <1>3, <1>7, <1>8
  <2> QED BY <2>1, <2>2, <1>1
<1>12. (p + halfIndex) \div index = scaled
  <2>1. p + halfIndex \in Nat /\ index > 0 BY <1>1, <1>3, <1>7
  <2>2. index * scaled <= p + halfIndex /\ p + halfIndex < index * scaled + index
    BY <1>8, <1>10, <1>11
  <2> QED BY <2>1, <2>2, DivUnique
<1> QED
  BY <1>12 DEF RayDiv, RayMul, UnitDiv, UnitMul, m, n, owed, half, halfIndex, p

\* A partial repayment takes its amount off what is owed, but for as many units
\* as the index has whole rays: the roundings of both scalings never cost more.
LEMMA PartialRepayment ==
  ASSUME NEW scaled \in Nat, NEW index \in Nat, index >= RAY, NEW amount \in Nat,
         RayDiv(amount, index) <= scaled
  PROVE  RayMul(scaled - RayDiv(amount, index), index) + amount
           <= RayMul(scaled, index) + (index \div RAY)
<1> DEFINE half == RAY \div 2
           halfIndex == index \div 2
           rays == index \div RAY
           burned == RayDiv(amount, index)
           before == RayMul(scaled, index)
           after == RayMul(scaled - burned, index)
<1>1. RAY \in Nat /\ RAY > 0 BY UnitsAssumption
<1>2. half \in Nat BY <1>1
<1>3. halfIndex \in Nat /\ index <= 2 * halfIndex + 1
  OBVIOUS
<1>4. rays \in Nat /\ index < RAY * rays + RAY BY <1>1, DivBounds
<1>5. burned \in Nat /\ amount * RAY + halfIndex < index * burned + index
  <2>1. amount * RAY \in Nat BY <1>1
  <2>2. amount * RAY + halfIndex \in Nat BY <2>1, <1>3
  <2>3. burned = (amount * RAY + halfIndex) \div index BY DEF RayDiv, UnitDiv
  <2>4. index > 0 BY <1>1
  <2> HIDE DEF burned, halfIndex
  <2> QED BY <2>2, <2>3, <2>4, DivBounds
<1> HIDE DEF burned
<1> DEFINE left == scaled - burned
<1>6. left \in Nat /\ scaled = burned + left BY <1>5 DEF burned
<1> HIDE DEF left
<1>7. before \in Nat /\ scaled * index + half < RAY * before + RAY
  <2>1. scaled * index \in Nat OBVIOUS
  <2>2. scaled * index + half \in Nat BY <2>1, <1>2
  <2>3. before = (scaled * index + half) \div RAY BY DEF RayMul, UnitMul
  <2> HIDE DEF before, half
  <2> QED BY <1>1, <2>2, <2>3, DivBounds
<1>8. after \in Nat /\ RAY * after <= left * index + half
  <2>1. left * index \in Nat BY <1>6
  <2>2. left * index + half \in Nat BY <2>1, <1>2
  <2>3. after = (left * index + half) \div RAY BY DEF RayMul, UnitMul, left
  <2> HIDE DEF after, half
  <2> QED BY <1>1, <2>2, <2>3, DivBounds
<1> HIDE DEF half, halfIndex, rays, before, after
<1>9. scaled * index = index * burned + left * index
      /\ index * burned \in Nat /\ left * index \in Nat
  BY <1>5, <1>6
<1>10. index <= halfIndex + RAY * rays
  <2>1. rays # 0
    <3>1. rays = 0 => RAY * rays = 0 BY <1>1
    <3> QED BY <1>1, <1>4, <3>1
  <2>2. RAY * rays >= RAY /\ RAY * rays \in Nat
    <3>1. PICK d \in Nat : rays = d + 1 BY <1>4, <2>1
    <3>2. RAY * rays = RAY * d + RAY /\ RAY * d \in Nat BY <1>1, <3>1
    <3> QED BY <1>1, <3>2
  <2> QED BY <1>1, <1>3, <1>4, <2>2
<1>11. RAY * after + amount * RAY < RAY * before + RAY + RAY * rays
  <2>1. /\ RAY * after \in Nat /\ amount * RAY \in Nat /\ RAY * before \in Nat
        /\ RAY * rays \in Nat
    BY <1>1, <1>4, <1>7, <1>8
  <2> QED BY <1>1, <1>2, <1>3, <1>5, <1>7, <1>8, <1>9, <1>10, <2>1
<1>12. RAY * (after + amount) < RAY * (before + rays + 1)
  BY <1>1, <1>4, <1>7, <1>8, <1>11
<1>13. after + amount < before + rays + 1
  BY <1>1, <1>4, <1>7, <1>8, <1>12, CancelMul
<1>14. after + amount <= before + rays
  BY <1>4, <1>7, <1>8, <1>13
<1> QED BY <1>14 DEF after, before, rays, burned

-----------------------------------------------------------------------------
(* Sums.                                                                   *)

\* The units of one more owner are new, and as many as its amount.
LEMMA UnitsAdd ==
  ASSUME NEW f, NEW S, NEW x, x \notin S
  PROVE  /\ UnitsOf(f, S \cup {x}) = UnitsOf(f, S) \cup ({x} \X (1 .. f[x]))
         /\ UnitsOf(f, S) \cap ({x} \X (1 .. f[x])) = {}
BY DEF UnitsOf

\* A finite set of owners has finitely many units, whose number is natural.
LEMMA SumNat ==
  ASSUME NEW f, NEW S, IsFiniteSet(S), \A x \in S : f[x] \in Nat
  PROVE  IsFiniteSet(UnitsOf(f, S)) /\ SumOver(f, S) \in Nat
<1> DEFINE g == [x \in S |-> {x} \X (1 .. f[x])]
           T == {{x} \X (1 .. f[x]) : x \in S}
<1>1. g \in Surjection(S, T) BY DEF Surjection
<1>2. IsFiniteSet(T) BY <1>1, FS_Surjection
<1>3. \A U \in T : IsFiniteSet(U)
  <2> TAKE U \in T
  <2>1. PICK x \in S : U = {x} \X (1 .. f[x]) OBVIOUS
  <2>2. f[x] \in Int /\ 1 \in Int OBVIOUS
  <2>3. IsFiniteSet(1 .. f[x]) BY <2>2, FS_Interval, Zenon
  <2>4. IsFiniteSet({x}) BY FS_Singleton, Zenon
  <2> QED BY <2>1, <2>3, <2>4, FS_Product, Zenon
<1>4. IsFiniteSet(UNION T) BY <1>2, <1>3, FS_UNION
<1> QED BY <1>4, FS_CardinalityType DEF UnitsOf, SumOver

\* Nothing sums up to 0.
LEMMA SumEmpty == \A f : SumOver(f, {}) = 0
<1>1. \A f : UnitsOf(f, {}) = {} BY DEF UnitsOf
<1> QED BY <1>1, FS_EmptySet DEF SumOver

\* One more summand adds its amount.
LEMMA SumAdd ==
  ASSUME NEW f, NEW S, IsFiniteSet(S), \A y \in S : f[y] \in Nat,
         NEW x, x \notin S, f[x] \in Nat
  PROVE  SumOver(f, S \cup {x}) = SumOver(f, S) + f[x]
<1> DEFINE U == UnitsOf(f, S)
           V == {x} \X (1 .. f[x])
<1>1. IsFiniteSet(U) /\ Cardinality(U) \in Nat
  BY SumNat DEF SumOver
<1>2. IsFiniteSet(V) /\ Cardinality(V) = f[x]
  <2>1. f[x] \in Int /\ 1 \in Int OBVIOUS
  <2>2. /\ IsFiniteSet(1 .. f[x])
        /\ Cardinality(1 .. f[x]) = IF 1 > f[x] THEN 0 ELSE f[x] - 1 + 1
    BY <2>1, FS_Interval, Zenon
  <2>3. Cardinality(1 .. f[x]) = f[x] BY <2>1, <2>2
  <2>4. IsFiniteSet({x}) /\ Cardinality({x}) = 1 BY FS_Singleton, Zenon
  <2>5. IsFiniteSet(V) /\ Cardinality(V) = 1 * Cardinality(1 .. f[x])
    BY <2>2, <2>4, FS_Product, Zenon
  <2> QED BY <2>3, <2>5
<1>3. UnitsOf(f, S \cup {x}) = U \cup V /\ U \cap V = {} BY UnitsAdd
<1> HIDE DEF U, V
<1>4. Cardinality(U \cup V) = Cardinality(U) + Cardinality(V) - Cardinality(U \cap V)
  BY <1>1, <1>2, FS_Union
<1>5. Cardinality(U \cap V) = 0 BY <1>3, FS_EmptySet
<1>6. Cardinality(U \cup V) = Cardinality(U) + f[x] BY <1>1, <1>2, <1>4, <1>5
<1> QED BY <1>3, <1>6 DEF SumOver, U

\* Only the amounts of the summands matter.
LEMMA SumSame ==
  ASSUME NEW f, NEW g, NEW S, \A x \in S : f[x] = g[x]
  PROVE  SumOver(f, S) = SumOver(g, S)
<1>1. {{x} \X (1 .. f[x]) : x \in S} = {{x} \X (1 .. g[x]) : x \in S}
  OBVIOUS
<1> QED BY <1>1 DEF SumOver, UnitsOf

\* A sum of nothing but zeros.
LEMMA SumZero ==
  ASSUME NEW f, NEW S, \A x \in S : f[x] = 0
  PROVE  SumOver(f, S) = 0
<1>1. UnitsOf(f, S) = {} BY DEF UnitsOf
<1> QED BY <1>1, FS_EmptySet DEF SumOver

\* The share of x in a sum over S.
Share(f, S, x) == IF x \in S THEN f[x] ELSE 0

\* A sum is the sum without x and the share of x.
LEMMA SumSplit ==
  ASSUME NEW f, NEW S, IsFiniteSet(S), \A y \in S : f[y] \in Nat, NEW x
  PROVE  /\ SumOver(f, S) = SumOver(f, S \ {x}) + Share(f, S, x)
         /\ SumOver(f, S) \in Nat /\ SumOver(f, S \ {x}) \in Nat
         /\ Share(f, S, x) \in Nat
<1>1. IsFiniteSet(S \ {x}) BY FS_RemoveElement
<1>2. SumOver(f, S) \in Nat /\ SumOver(f, S \ {x}) \in Nat BY <1>1, SumNat
<1>3. CASE x \in S
  <2>1. S = (S \ {x}) \cup {x} BY <1>3
  <2>2. SumOver(f, (S \ {x}) \cup {x}) = SumOver(f, S \ {x}) + f[x]
    BY <1>1, <1>3, SumAdd
  <2> QED BY <1>2, <1>3, <2>1, <2>2 DEF Share
<1>4. CASE x \notin S
  <2>1. S = S \ {x} BY <1>4
  <2> QED BY <1>2, <1>4, <2>1 DEF Share
<1> QED BY <1>3, <1>4

\* When at most x enters, leaves or changes its amount, the sum changes by the
\* difference of its shares.
LEMMA SumChange ==
  ASSUME NEW f, NEW S, IsFiniteSet(S), \A y \in S : f[y] \in Nat,
         NEW g, NEW T, IsFiniteSet(T), \A y \in T : g[y] \in Nat,
         NEW x, S \ {x} = T \ {x}, \A y \in S \ {x} : f[y] = g[y]
  PROVE  /\ SumOver(g, T) = SumOver(f, S) - Share(f, S, x) + Share(g, T, x)
         /\ SumOver(f, S) \in Nat /\ SumOver(g, T) \in Nat
         /\ Share(f, S, x) \in Nat /\ Share(g, T, x) \in Nat
         /\ Share(f, S, x) <= SumOver(f, S)
<1>1. SumOver(f, S \ {x}) = SumOver(g, T \ {x}) BY SumSame
<1>2. /\ SumOver(f, S) = SumOver(f, S \ {x}) + Share(f, S, x)
      /\ SumOver(f, S) \in Nat /\ SumOver(f, S \ {x}) \in Nat
      /\ Share(f, S, x) \in Nat
  BY SumSplit
<1>3. /\ SumOver(g, T) = SumOver(g, T \ {x}) + Share(g, T, x)
      /\ SumOver(g, T) \in Nat /\ SumOver(g, T \ {x}) \in Nat
      /\ Share(g, T, x) \in Nat
  BY SumSplit
<1> QED BY <1>1, <1>2, <1>3

=============================================================================
