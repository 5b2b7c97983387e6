---------------------------- MODULE ReserveProofs ----------------------------
(***************************************************************************)
(* The state of a reserve is well formed for every unit, strategy and      *)
(* reserve factor, and the interest its lenders have seen is never taken   *)
(* back, but by rates that are recomputed without an update of the state.  *)
(* Both rest on the rounding of rayMul: a factor of at least one   *)
(* ray never makes a number smaller, and a factor of one ray leaves it.    *)
(***************************************************************************)
EXTENDS Reserve, UnlockdMathProofs

-----------------------------------------------------------------------------
(* Rounding. *)

\* UnitMul and UnitDiv of naturals are naturals.
LEMMA UnitNat ==
  ASSUME NEW a \in Nat, NEW b \in Nat, NEW unit \in Nat \ {0}
  PROVE  /\ UnitMul(a, b, unit) \in Nat
         /\ b # 0 => UnitDiv(a, b, unit) \in Nat
<1>1. a * b + (unit \div 2) \in Nat
  BY DivBounds
<1>2. a * unit + (b \div 2) \in Nat
  BY DivBounds
<1> QED  BY <1>1, <1>2, DivBounds DEF UnitMul, UnitDiv

\* So are the products and quotients of the code, in each of its units.
LEMMA Rounded ==
  ASSUME NEW a \in Nat, NEW b \in Nat
  PROVE  /\ RayMul(a, b) \in Nat /\ WadMul(a, b) \in Nat /\ PercentMul(a, b) \in Nat
         /\ b # 0 => RayDiv(a, b) \in Nat /\ WadDiv(a, b) \in Nat
BY UnitNat, UnitsAssumption DEF RayMul, WadMul, PercentMul, RayDiv, WadDiv

\* A factor of at least one ray never makes a number smaller.
LEMMA RayMulGrows ==
  ASSUME NEW a \in Nat, NEW i \in Nat, a >= RAY
  PROVE  RayMul(a, i) >= i
<1> DEFINE h == RAY \div 2
           q == (a * i + h) \div RAY
<1>1. RAY \in Nat /\ RAY > 0
  BY UnitsAssumption
<1>2. h \in Nat
  BY <1>1
<1>3. a * i >= RAY * i
  BY <1>1
<1>4. a * i + h \in Nat
  BY <1>2
<1>5. q \in Nat /\ a * i + h < RAY * q + RAY
  BY <1>1, <1>4, DivBounds
<1> HIDE DEF h, q
<1>6. RAY * i < RAY * (q + 1)
  BY <1>1, <1>2, <1>3, <1>5
<1>7. i < q + 1
  BY <1>1, <1>5, <1>6, CancelMul
<1> QED  BY <1>5, <1>7 DEF q, h, RayMul, UnitMul

\* A factor of one ray leaves a number as it is.
LEMMA RayMulOne ==
  ASSUME NEW i \in Nat
  PROVE  RayMul(RAY, i) = i
<1> DEFINE h == RAY \div 2
           q == (RAY * i + h) \div RAY
<1>1. RAY \in Nat /\ RAY > 0
  BY UnitsAssumption
<1>2. h \in Nat /\ h < RAY
  BY <1>1
<1>3. RAY * i + h \in Nat
  BY <1>1, <1>2
<1>4. q \in Nat /\ RAY * q <= RAY * i + h
  BY <1>1, <1>3, DivBounds
<1>5. q >= i
  BY <1>1, RayMulGrows DEF RayMul, UnitMul
<1> HIDE DEF h, q
<1>6. RAY * q < RAY * (i + 1)
  BY <1>1, <1>2, <1>4
<1>7. q < i + 1
  BY <1>1, <1>4, <1>6, CancelMul
<1> QED  BY <1>4, <1>5, <1>7 DEF q, h, RayMul, UnitMul

\* Division keeps the order of naturals.
LEMMA DivMonotone ==
  ASSUME NEW a \in Nat, NEW b \in Nat, NEW d \in Nat, d > 0, a <= b
  PROVE  a \div d <= b \div d
<1> DEFINE p == a \div d
           q == b \div d
<1>1. p \in Nat /\ q \in Nat /\ d * p <= a /\ b < d * q + d
  BY DivBounds
<1> HIDE DEF p, q
<1>2. d * p < d * (q + 1)
  BY <1>1
<1>3. p < q + 1
  BY <1>1, <1>2, CancelMul
<1> QED  BY <1>1, <1>3 DEF p, q

\* So does rayMul, in each of its factors.
LEMMA RayMulMonotone ==
  ASSUME NEW a \in Nat, NEW b \in Nat, NEW i \in Nat, a <= b
  PROVE  RayMul(a, i) <= RayMul(b, i) /\ RayMul(i, a) <= RayMul(i, b)
<1>1. RAY \in Nat /\ RAY > 0 /\ RAY \div 2 \in Nat
  BY UnitsAssumption
<1>2. a * i <= b * i /\ i * a <= i * b /\ a * i \in Nat /\ b * i \in Nat /\ i * a \in Nat /\ i * b \in Nat
  OBVIOUS
<1> QED  BY <1>1, <1>2, DivMonotone DEF RayMul, UnitMul

-----------------------------------------------------------------------------
(* Interest, indexes and rates. *)

\* Interest is a factor of at least one ray, and one ray when no time has
\* passed.
LEMMA InterestGrows ==
  ASSUME ReserveTypeOK, NEW rate \in Nat
  PROVE  /\ Elapsed \in Nat
         /\ LinearInterest(rate) \in Nat /\ LinearInterest(rate) >= RAY
         /\ Elapsed = 0 \/ rate = 0 => LinearInterest(rate) = RAY
         /\ CompoundedInterest(rate) \in Nat /\ CompoundedInterest(rate) >= RAY
<1>1. Elapsed \in Nat
  BY DEF ReserveTypeOK, Indexes, Elapsed
<1>2. RAY \in Nat /\ SECONDS_PER_YEAR \in Nat /\ SECONDS_PER_YEAR > 0
  BY UnitsAssumption, ReserveAssumption
<1>3. rate * Elapsed \in Nat
  BY <1>1
<1>4. (rate * Elapsed) \div SECONDS_PER_YEAR \in Nat
  BY <1>2, <1>3, DivBounds
<1>5. ASSUME Elapsed = 0 \/ rate = 0
      PROVE  (rate * Elapsed) \div SECONDS_PER_YEAR = 0
  <2>1. rate * Elapsed = 0
    BY <1>1, <1>5
  <2>2. 0 \div SECONDS_PER_YEAR = 0
    BY <1>2
  <2> QED  BY <2>1, <2>2
<1>6. CompoundedInterest(rate) \in Nat /\ CompoundedInterest(rate) >= RAY
  <2> DEFINE perSecond == rate \div SECONDS_PER_YEAR
             squared == RayMul(perSecond, perSecond)
             cubed == RayMul(squared, perSecond)
             beyondTwo == IF Elapsed > 2 THEN Elapsed - 2 ELSE 0
             second == Elapsed * (Elapsed - 1) * squared
             third == Elapsed * (Elapsed - 1) * beyondTwo * cubed
  <2>1. CASE Elapsed = 0
    BY <1>2, <2>1 DEF CompoundedInterest
  <2>2. CASE Elapsed # 0
    <3>1. perSecond \in Nat
      BY <1>2, DivBounds
    <3>2. squared \in Nat
      BY <3>1, Rounded
    <3>3. cubed \in Nat
      BY <3>1, <3>2, Rounded
    <3>4. Elapsed - 1 \in Nat /\ beyondTwo \in Nat
      BY <1>1, <2>2
    <3> HIDE DEF perSecond, squared, cubed, beyondTwo
    <3>5. second \in Nat /\ third \in Nat
      BY <1>1, <3>2, <3>3, <3>4
    <3>6. perSecond * Elapsed \in Nat
      BY <1>1, <3>1
    <3> HIDE DEF second, third
    <3>7. second \div 2 \in Nat /\ third \div 6 \in Nat
      BY <3>5, DivBounds
    <3>8. CompoundedInterest(rate) = RAY + perSecond * Elapsed + second \div 2 + third \div 6
      BY <2>2 DEF CompoundedInterest, perSecond, squared, cubed, beyondTwo, second, third
    <3> QED  BY <1>2, <3>6, <3>7, <3>8
  <2> QED  BY <2>1, <2>2
<1> QED  BY <1>1, <1>2, <1>4, <1>5, <1>6 DEF LinearInterest

\* updateState stores in the liquidity index what the view of it said, and
\* takes nothing back from the borrow index.
LEMMA UpdateStoresIncome ==
  ASSUME ReserveTypeOK
  PROVE  /\ UpdatedIndexes \in Indexes
         /\ UpdatedIndexes.lastUpdateTimestamp = now
         /\ UpdatedIndexes.liquidityIndex = NormalizedIncome
         /\ UpdatedIndexes.variableBorrowIndex >= reserve.variableBorrowIndex
<1> DEFINE linear == LinearInterest(reserve.currentLiquidityRate)
           compounded == CompoundedInterest(reserve.currentVariableBorrowRate)
           income == reserve.liquidityIndex
           borrow == reserve.variableBorrowIndex
<1>1. /\ income \in Nat \ {0} /\ borrow \in Nat \ {0} /\ now \in Nat
      /\ reserve.currentLiquidityRate \in Nat /\ reserve.currentVariableBorrowRate \in Nat
  BY DEF ReserveTypeOK, Indexes
<1>2. /\ linear \in Nat /\ linear >= RAY /\ compounded \in Nat /\ compounded >= RAY
      /\ Elapsed = 0 \/ reserve.currentLiquidityRate = 0 => linear = RAY
  BY <1>1, InterestGrows
<1>3. RayMul(linear, income) \in Nat \ {0} /\ RayMul(compounded, borrow) \in Nat \ {0}
      /\ RayMul(compounded, borrow) >= borrow
  <2>1. RayMul(linear, income) \in Nat /\ RayMul(compounded, borrow) \in Nat
    BY <1>1, <1>2, Rounded
  <2>2. RayMul(linear, income) >= income /\ RayMul(compounded, borrow) >= borrow
    BY <1>1, <1>2, RayMulGrows
  <2> QED  BY <1>1, <2>1, <2>2
<1>4. Elapsed = 0 \/ reserve.currentLiquidityRate = 0 => RayMul(linear, income) = income
  BY <1>1, <1>2, RayMulOne
<1>5. reserve \in Indexes
  BY DEF ReserveTypeOK
<1> HIDE DEF linear, compounded
<1>6. UpdatedIndexes =
        [reserve EXCEPT
          !.liquidityIndex = IF reserve.currentLiquidityRate > 0 THEN RayMul(linear, income) ELSE income,
          !.variableBorrowIndex = IF reserve.currentLiquidityRate > 0 /\ debtSupply # 0
                                  THEN RayMul(compounded, borrow) ELSE borrow,
          !.lastUpdateTimestamp = now]
  BY <1>5 DEF UpdatedIndexes, linear, compounded, Indexes
<1>7. NormalizedIncome = IF Elapsed = 0 THEN income ELSE RayMul(linear, income)
  BY DEF NormalizedIncome, linear
<1> DEFINE grown == IF reserve.currentLiquidityRate > 0 THEN RayMul(linear, income) ELSE income
           owed == IF reserve.currentLiquidityRate > 0 /\ debtSupply # 0
                   THEN RayMul(compounded, borrow) ELSE borrow
<1>8. grown \in Nat \ {0} /\ owed \in Nat \ {0} /\ owed >= borrow
  BY <1>1, <1>3
<1>9. grown = NormalizedIncome
  BY <1>1, <1>4, <1>7
<1> HIDE DEF grown, owed, income
<1>10. UpdatedIndexes = [reserve EXCEPT !.liquidityIndex = grown, !.variableBorrowIndex = owed,
                                        !.lastUpdateTimestamp = now]
  BY <1>6 DEF grown, owed, income
<1>11. /\ UpdatedIndexes \in Indexes /\ UpdatedIndexes.lastUpdateTimestamp = now
       /\ UpdatedIndexes.liquidityIndex = grown /\ UpdatedIndexes.variableBorrowIndex = owed
  BY <1>1, <1>5, <1>8, <1>10 DEF Indexes
<1> QED  BY <1>8, <1>9, <1>11

-----------------------------------------------------------------------------
(* The rates are naturals whatever the strategy. *)

LEMMA RatesNat ==
  ASSUME ReserveTypeOK, NEW available \in Nat, NEW totalDebt \in Nat
  PROVE  /\ Utilization(available, totalDebt) \in Nat
         /\ BorrowRate(Utilization(available, totalDebt)) \in Nat
         /\ LiquidityRate(available, totalDebt) \in Nat
<1> DEFINE u == Utilization(available, totalDebt)
           rate == BorrowRate(u)
<1>1. strategy \in [optimal : 1 .. RAY - 1, base : Nat, slope1 : Nat, slope2 : Nat]
  BY ReserveAssumption DEF ReserveTypeOK
<1>2. /\ RAY \in Nat /\ RAY > 0 /\ RAY \div WAD \in Nat /\ RAY \div WAD > 0
      /\ PERCENTAGE_FACTOR - reserveFactor \in Nat
  <2>1. RAY \in Nat /\ RAY > 0 /\ WAD \in Nat /\ WAD > 0 /\ PERCENTAGE_FACTOR \in Nat
    BY UnitsAssumption
  <2>2. RAY \div WAD \in Nat /\ RAY \div WAD > 0
    BY <2>1, DivBounds, ReserveAssumption
  <2>3. reserveFactor \in 0 .. PERCENTAGE_FACTOR
    BY ReserveAssumption DEF ReserveTypeOK
  <2> QED  BY <2>1, <2>2, <2>3
<1>3. u \in Nat
  <2>1. available + totalDebt \in Nat /\ (totalDebt # 0 => available + totalDebt # 0)
    OBVIOUS
  <2> QED  BY <2>1, Rounded DEF Utilization
<1> HIDE DEF u
<1>4. rate \in Nat
  <2>1. CASE u > strategy.optimal
    <3>1. u - strategy.optimal \in Nat /\ RAY - strategy.optimal \in Nat /\ RAY - strategy.optimal # 0
      BY <1>1, <1>2, <1>3, <2>1
    <3>2. RayDiv(u - strategy.optimal, RAY - strategy.optimal) \in Nat
      BY <3>1, Rounded
    <3>3. RayMul(strategy.slope2, RayDiv(u - strategy.optimal, RAY - strategy.optimal)) \in Nat
      BY <1>1, <3>2, Rounded
    <3> QED  BY <1>1, <2>1, <3>3 DEF BorrowRate
  <2>2. CASE ~ (u > strategy.optimal)
    <3>1. RayMul(u, strategy.slope1) \in Nat
      BY <1>1, <1>3, Rounded
    <3>2. strategy.optimal \in Nat /\ strategy.optimal # 0
      BY <1>1, <1>2
    <3>3. RayDiv(RayMul(u, strategy.slope1), strategy.optimal) \in Nat
      BY <3>1, <3>2, Rounded
    <3> QED  BY <1>1, <2>2, <3>3 DEF BorrowRate
  <2> QED  BY <2>1, <2>2
<1> HIDE DEF rate
<1>5. OverallBorrowRate(totalDebt, rate) \in Nat
  <2>1. CASE totalDebt = 0
    BY <2>1 DEF OverallBorrowRate
  <2>2. CASE totalDebt # 0
    <3> DEFINE inRay == WadToRay(totalDebt)
    <3>1. inRay \in Nat /\ inRay # 0
      BY <1>2, <2>2 DEF WadToRay
    <3> HIDE DEF inRay
    <3>2. RayMul(inRay, rate) \in Nat
      BY <1>4, <3>1, Rounded
    <3>3. RayDiv(RayMul(inRay, rate), inRay) \in Nat
      BY <3>1, <3>2, Rounded
    <3> QED  BY <2>2, <3>3 DEF OverallBorrowRate, inRay
  <2> QED  BY <2>1, <2>2
<1>6. RayMul(OverallBorrowRate(totalDebt, rate), u) \in Nat
  BY <1>3, <1>5, Rounded
<1>7. PercentMul(RayMul(OverallBorrowRate(totalDebt, rate), u), PERCENTAGE_FACTOR - reserveFactor) \in Nat
  BY <1>2, <1>6, Rounded
<1> QED  BY <1>3, <1>4, <1>7 DEF LiquidityRate, u, rate

\* updateInterestRates leaves indexes and timestamp, and its rates are
\* naturals when no more is taken than there is.
LEMMA WithRatesType ==
  ASSUME ReserveTypeOK, NEW r \in Indexes, NEW newSupply \in Nat, NEW added \in Nat, NEW taken \in Nat,
         taken <= AvailableLiquidity + added
  PROVE  /\ WithRates(r, newSupply, added, taken) \in Indexes
         /\ WithRates(r, newSupply, added, taken).lastUpdateTimestamp = r.lastUpdateTimestamp
         /\ WithRates(r, newSupply, added, taken).liquidityIndex = r.liquidityIndex
         /\ WithRates(r, newSupply, added, taken).variableBorrowIndex = r.variableBorrowIndex
<1> DEFINE available == AvailableLiquidity + added - taken
           totalDebt == RayMul(newSupply, r.variableBorrowIndex)
<1>1. AvailableLiquidity \in Nat
  BY Rounded, ReserveAssumption DEF AvailableLiquidity, ReserveTypeOK
<1>2. available \in Nat
  BY <1>1
<1>3. r.variableBorrowIndex \in Nat
  BY DEF Indexes
<1>4. totalDebt \in Nat
  BY <1>3, Rounded
<1> HIDE DEF available, totalDebt
<1> DEFINE liquidity == LiquidityRate(available, totalDebt)
           borrow == BorrowRate(Utilization(available, totalDebt))
<1>5. liquidity \in Nat /\ borrow \in Nat
  BY <1>2, <1>4, RatesNat
<1> HIDE DEF liquidity, borrow
<1>6. WithRates(r, newSupply, added, taken) =
        [r EXCEPT !.currentLiquidityRate = liquidity, !.currentVariableBorrowRate = borrow]
  BY DEF WithRates, available, totalDebt, liquidity, borrow
<1> QED  BY <1>5, <1>6 DEF Indexes

\* What the treasury is minted is a natural: the debt never shrinks in an
\* update.
LEMMA FeeNat ==
  ASSUME ReserveTypeOK
  PROVE  MintToTreasury(UpdatedIndexes) \in Nat
<1> DEFINE new == UpdatedIndexes.variableBorrowIndex
           old == reserve.variableBorrowIndex
           accrued == RayMul(debtSupply, new) - RayMul(debtSupply, old)
<1>1. /\ new \in Nat /\ old \in Nat /\ old <= new /\ debtSupply \in Nat
      /\ UpdatedIndexes.liquidityIndex \in Nat /\ UpdatedIndexes.liquidityIndex # 0
  BY UpdateStoresIncome DEF ReserveTypeOK, Indexes
<1> HIDE DEF new, old
<1>2. RayMul(debtSupply, new) \in Nat /\ RayMul(debtSupply, old) \in Nat
      /\ RayMul(debtSupply, old) <= RayMul(debtSupply, new)
  BY <1>1, Rounded, RayMulMonotone
<1>3. accrued \in Nat
  BY <1>2
<1>4. reserveFactor \in Nat
  BY ReserveAssumption, UnitsAssumption DEF ReserveTypeOK
<1> HIDE DEF accrued
<1>5. PercentMul(accrued, reserveFactor) \in Nat
  BY <1>3, <1>4, Rounded
<1>6. RayDiv(PercentMul(accrued, reserveFactor), UpdatedIndexes.liquidityIndex) \in Nat
  BY <1>1, <1>5, Rounded
<1> QED  BY <1>6 DEF MintToTreasury, accrued, new, old

-----------------------------------------------------------------------------
(* What the parts of an operation do to the types. *)

\* Minting, or a burn that leaves no negative balance, keeps the uTokens.
LEMMA UTokensType ==
  ASSUME ReserveTypeOK, NEW user \in Holders, NEW change \in Int,
         UTokensMove(UpdatedIndexes, user, change),
         change >= 0 \/ (scaled'[user] >= 0 /\ supply' >= 0)
  PROVE  scaled' \in [Holders -> Nat] /\ supply' \in Nat
<1> DEFINE fee == MintToTreasury(UpdatedIndexes)
<1>1. fee \in Nat
  BY FeeNat
<1>2. scaled \in [Holders -> Nat] /\ supply \in Nat /\ Treasury \in Holders
  BY DEF ReserveTypeOK, Holders
<1> HIDE DEF fee
<1>3. /\ scaled' = [[scaled EXCEPT ![Treasury] = @ + fee] EXCEPT ![user] = @ + change]
      /\ supply' = supply + fee + change
  BY DEF UTokensMove, fee
<1> DEFINE paid == [scaled EXCEPT ![Treasury] = @ + fee]
<1>4. paid \in [Holders -> Nat]
  BY <1>1, <1>2
<1> HIDE DEF paid
<1>5. scaled' = [paid EXCEPT ![user] = @ + change]
  BY <1>3 DEF paid
<1>6. paid[user] + change \in Nat
  BY <1>4, <1>5
<1>7. scaled' \in [Holders -> Nat]
  BY <1>4, <1>5, <1>6
<1>8. supply' \in Nat
  BY <1>1, <1>2, <1>3
<1> QED  BY <1>7, <1>8

\* Minting, or a burn of no more than there is, keeps the debt tokens.
LEMMA DebtType ==
  ASSUME ReserveTypeOK, NEW l \in Loans, NEW change \in Int, DebtMoves(l, change),
         debt[l] + change >= 0, debtSupply + change >= 0
  PROVE  debt' \in [Loans -> Nat] /\ debtSupply' \in Nat
BY DEF ReserveTypeOK, DebtMoves

\* The money that enters or leaves the vault.
LEMMA MoneyType ==
  ASSUME ReserveTypeOK, NEW amount \in Nat
  PROVE  /\ VaultIssues(amount) \in Nat /\ VaultPays(amount) \in Nat
         /\ DepositReserves(amount) =>
              shares' \in Nat /\ idle' \in Nat /\ treasury' \in Nat /\ adapter' \in Nat
         /\ \A paid \in Nat : WithdrawReserves(amount, paid) =>
              shares' \in Nat /\ idle' \in Nat /\ treasury' \in Nat /\ adapter' \in Nat
<1>1. /\ shares \in Nat /\ idle \in Nat /\ treasury \in Nat /\ adapter \in Nat
      /\ price \in Nat /\ price > 0 /\ WAD \in Nat /\ WAD > 0
  BY ReserveAssumption, UnitsAssumption DEF ReserveTypeOK
<1>2. amount * WAD \in Nat
  BY <1>1
<1>3. VaultIssues(amount) \in Nat
  BY <1>1, <1>2, DivBounds DEF VaultIssues
<1>4. SharesFor(amount) \in Nat
  BY <1>1, Rounded DEF SharesFor
<1>5. SharesFor(amount) * price \in Nat
  BY <1>1, <1>4
<1>6. VaultPays(amount) \in Nat
  BY <1>1, <1>5, DivBounds DEF VaultPays
<1>7. DepositReserves(amount) => shares' \in Nat /\ idle' \in Nat /\ treasury' \in Nat /\ adapter' \in Nat
  BY <1>1, <1>3 DEF DepositReserves
<1>8. ASSUME NEW paid \in Nat, WithdrawReserves(amount, paid)
      PROVE  shares' \in Nat /\ idle' \in Nat /\ treasury' \in Nat /\ adapter' \in Nat
  BY <1>1, <1>4, <1>6, <1>8 DEF WithdrawReserves
<1> QED  BY <1>3, <1>6, <1>7, <1>8

\* The indexes that an update of the state stores.
IndexesStored == /\ reserve'.liquidityIndex = NormalizedIncome
                 /\ reserve'.variableBorrowIndex = UpdatedIndexes.variableBorrowIndex

\* A reserve that was updated and given new rates.
LEMMA UpdatedType ==
  ASSUME ReserveTypeOK, NEW newSupply \in Nat, NEW added \in Nat, NEW taken \in Nat,
         taken <= AvailableLiquidity + added,
         reserve' = WithRates(UpdatedIndexes, newSupply, added, taken)
  PROVE  /\ reserve' \in Indexes /\ reserve'.lastUpdateTimestamp = now
         /\ IndexesStored
BY UpdateStoresIncome, WithRatesType DEF IndexesStored

\* What a loan owes now is a natural.
LEMMA OwedNat ==
  ASSUME ReserveTypeOK, NEW l \in Loans
  PROVE  OwedNow(l) \in Nat
BY UpdateStoresIncome, Rounded DEF OwedNow, ReserveTypeOK, Indexes

\* The types of all but the time, the settings and the steps.
Books ==
  /\ reserve \in Indexes /\ reserve.lastUpdateTimestamp <= now
  /\ scaled \in [Holders -> Nat] /\ supply \in Nat
  /\ debt \in [Loans -> Nat] /\ debtSupply \in Nat

\* What Settle leaves, whoever pays.
LEMMA SettleType ==
  ASSUME ReserveTypeOK, NEW l \in Loans, NEW amount \in Nat, NEW added \in Nat, Settle(l, amount, added)
  PROVE  Books' /\ IndexesStored /\ reserve'.lastUpdateTimestamp = now
<1> DEFINE burnt == RayDiv(amount, UpdatedIndexes.variableBorrowIndex)
<1>1. burnt \in Nat
  BY UpdateStoresIncome, Rounded DEF Indexes
<1> HIDE DEF burnt
<1>2. /\ burnt <= debt[l] /\ burnt <= debtSupply /\ DebtMoves(l, -burnt)
      /\ reserve' = WithRates(UpdatedIndexes, debtSupply', added, 0)
      /\ UTokensMove(UpdatedIndexes, Treasury, 0) /\ Transaction
  BY DEF Settle, burnt
<1>3. debt' \in [Loans -> Nat] /\ debtSupply' \in Nat
  <2>1. debt[l] \in Nat /\ debtSupply \in Nat
    BY DEF ReserveTypeOK
  <2> QED  BY <1>1, <1>2, <2>1, DebtType
<1>4. scaled' \in [Holders -> Nat] /\ supply' \in Nat
  BY <1>2, UTokensType DEF Holders
<1>5. AvailableLiquidity \in Nat
  BY Rounded, ReserveAssumption DEF AvailableLiquidity, ReserveTypeOK
<1>6. /\ reserve' \in Indexes /\ reserve'.lastUpdateTimestamp = now
      /\ IndexesStored
  BY <1>2, <1>3, <1>5, UpdatedType
<1>7. now' = now /\ now \in Nat
  BY <1>2 DEF Transaction, ReserveTypeOK
<1> QED  BY <1>3, <1>4, <1>6, <1>7 DEF Books

Purses == shares \in Nat /\ idle \in Nat /\ treasury \in Nat /\ adapter \in Nat

\* An operation with the updated reserve leaves good books and purses, and
\* has stored the normalized income.
Updates == Books' /\ Purses' /\ IndexesStored /\ reserve'.lastUpdateTimestamp = now

\* Each operation that updates the reserve does so.
LEMMA OperationsUpdate ==
  ASSUME ReserveTypeOK,
         PoolOperation \/ UpdateReserveState
           \/ \E l \in Loans, proceeds \in Proceeds : MarketSale(l, proceeds)
  PROVE  Transaction /\ Updates
<1>1. /\ AvailableLiquidity \in Nat /\ debtSupply \in Nat /\ debt \in [Loans -> Nat]
      /\ now \in Nat /\ Treasury \in Holders /\ Lenders \subseteq Holders
  BY Rounded, ReserveAssumption DEF AvailableLiquidity, ReserveTypeOK, Holders
<1>2. UpdatedIndexes \in Indexes /\ UpdatedIndexes.liquidityIndex # 0 /\ UpdatedIndexes.variableBorrowIndex # 0
  BY UpdateStoresIncome DEF Indexes
<1>3. Amounts \subseteq Nat /\ Proceeds \subseteq Nat
  BY ReserveAssumption
<1>4. \A user \in Holders : BalanceOf(user) \in Nat
  BY UpdateStoresIncome, Rounded DEF BalanceOf, ReserveTypeOK, Indexes
<1>5. ASSUME NEW user \in Lenders, NEW amount \in Amounts, Deposit(user, amount)
      PROVE  Transaction /\ Updates
  <2> DEFINE minted == RayDiv(amount, UpdatedIndexes.liquidityIndex)
  <2>1. minted \in Nat
    BY <1>2, <1>3, Rounded DEF Indexes
  <2> HIDE DEF minted
  <2>2. /\ Transaction /\ UTokensMove(UpdatedIndexes, user, minted) /\ DepositReserves(amount)
        /\ reserve' = WithRates(UpdatedIndexes, debtSupply, amount, 0) /\ UNCHANGED debtTokens
    BY <1>5 DEF Deposit, minted
  <2>3. scaled' \in [Holders -> Nat] /\ supply' \in Nat
    BY <1>1, <2>1, <2>2, UTokensType
  <2>4. Purses'
    BY <1>3, <2>2, MoneyType DEF Purses
  <2>5. /\ reserve' \in Indexes /\ reserve'.lastUpdateTimestamp = now
        /\ IndexesStored
    BY <1>1, <1>3, <2>2, UpdatedType
  <2>6. debt' = debt /\ debtSupply' = debtSupply /\ now' = now
    BY <2>2 DEF debtTokens, Transaction
  <2> QED  BY <1>1, <2>2, <2>3, <2>4, <2>5, <2>6 DEF Updates, Books
<1>6. ASSUME NEW user \in Holders, NEW amount \in Nat, Withdraw(user, amount)
      PROVE  Transaction /\ Updates
  <2> DEFINE burnt == RayDiv(amount, UpdatedIndexes.liquidityIndex)
  <2>1. burnt \in Nat
    BY <1>2, Rounded DEF Indexes
  <2> HIDE DEF burnt
  <2>2. /\ Transaction /\ UTokensMove(UpdatedIndexes, user, -burnt) /\ scaled'[user] >= 0 /\ supply' >= 0
        /\ amount <= AvailableLiquidity /\ WithdrawReserves(amount, amount)
        /\ reserve' = WithRates(UpdatedIndexes, debtSupply, 0, amount) /\ UNCHANGED debtTokens
    BY <1>6 DEF Withdraw, burnt
  <2>3. scaled' \in [Holders -> Nat] /\ supply' \in Nat
    BY <1>1, <2>1, <2>2, UTokensType
  <2>4. Purses'
    BY <2>2, MoneyType DEF Purses
  <2>5. /\ reserve' \in Indexes /\ reserve'.lastUpdateTimestamp = now
        /\ IndexesStored
    BY <1>1, <2>2, UpdatedType
  <2>6. debt' = debt /\ debtSupply' = debtSupply /\ now' = now
    BY <2>2 DEF debtTokens, Transaction
  <2> QED  BY <1>1, <2>2, <2>3, <2>4, <2>5, <2>6 DEF Updates, Books
<1>7. ASSUME NEW l \in Loans, NEW amount \in Amounts, Borrow(l, amount)
      PROVE  Transaction /\ Updates
  <2> DEFINE minted == RayDiv(amount, UpdatedIndexes.variableBorrowIndex)
  <2>1. minted \in Nat
    BY <1>2, <1>3, Rounded DEF Indexes
  <2> HIDE DEF minted
  <2>2. /\ Transaction /\ UTokensMove(UpdatedIndexes, Treasury, 0) /\ DebtMoves(l, minted)
        /\ amount <= AvailableLiquidity /\ WithdrawReserves(amount, VaultPays(amount))
        /\ reserve' = WithRates(UpdatedIndexes, debtSupply', 0, amount)
    BY <1>7 DEF Borrow, minted
  <2>3. scaled' \in [Holders -> Nat] /\ supply' \in Nat
    BY <1>1, <2>2, UTokensType
  <2>4. debt' \in [Loans -> Nat] /\ debtSupply' \in Nat
    <3>1. debt[l] + minted >= 0 /\ debtSupply + minted >= 0
      BY <1>1, <2>1
    <3> QED  BY <2>1, <2>2, <3>1, DebtType
  <2>5. Purses'
    BY <1>3, <2>2, MoneyType DEF Purses
  <2>6. /\ reserve' \in Indexes /\ reserve'.lastUpdateTimestamp = now
        /\ IndexesStored
    BY <1>1, <1>3, <2>2, <2>4, UpdatedType
  <2>7. now' = now
    BY <2>2 DEF Transaction
  <2> QED  BY <1>1, <2>2, <2>3, <2>4, <2>5, <2>6, <2>7 DEF Updates, Books
<1>8. ASSUME NEW l \in Loans, NEW amount \in Nat, Settle(l, amount, amount), DepositReserves(amount)
      PROVE  Transaction /\ Updates
  <2>1. Transaction
    BY <1>8 DEF Settle
  <2>2. Purses'
    BY <1>8, MoneyType DEF Purses
  <2> QED  BY <1>8, <2>1, <2>2, SettleType DEF Updates
<1>9. ASSUME NEW l \in Loans, NEW amount \in Amounts, Repay(l, amount)
      PROVE  Transaction /\ Updates
  <2> DEFINE repaid == IF amount < OwedNow(l) THEN amount ELSE OwedNow(l)
  <2>1. repaid \in Nat
    BY <1>3, OwedNat
  <2>2. Settle(l, repaid, repaid) /\ DepositReserves(repaid)
    BY <1>9 DEF Repay
  <2> QED  BY <1>8, <2>1, <2>2
<1>10. ASSUME NEW l \in Loans, Liquidate(l)
       PROVE  Transaction /\ Updates
  BY <1>8, <1>10, OwedNat DEF Liquidate
<1>11. ASSUME NEW l \in Loans, Auction(l)
       PROVE  Transaction /\ Updates
  <2>1. /\ Transaction /\ UTokensMove(UpdatedIndexes, Treasury, 0)
        /\ reserve' = WithRates(UpdatedIndexes, debtSupply, 0, 0) /\ UNCHANGED <<debtTokens, money>>
    BY <1>11 DEF Auction
  <2>2. scaled' \in [Holders -> Nat] /\ supply' \in Nat
    BY <1>1, <2>1, UTokensType
  <2>3. Purses'
    BY <2>1 DEF Purses, money, ReserveTypeOK
  <2>4. 0 <= AvailableLiquidity + 0
    BY <1>1
  <2>5. /\ reserve' \in Indexes /\ reserve'.lastUpdateTimestamp = now
        /\ IndexesStored
    BY <1>1, <2>1, <2>4, UpdatedType
  <2>6. debt' = debt /\ debtSupply' = debtSupply /\ now' = now
    BY <2>1 DEF debtTokens, Transaction
  <2> QED  BY <1>1, <2>1, <2>2, <2>3, <2>5, <2>6 DEF Updates, Books
<1>12. ASSUME NEW l \in Loans, NEW proceeds \in Proceeds, MarketSale(l, proceeds)
       PROVE  Transaction /\ Updates
  <2> DEFINE owed == OwedNow(l)
             missing == IF proceeds < owed THEN owed - proceeds ELSE 0
  <2>1. owed \in Nat /\ proceeds \in Nat
    BY <1>3, OwedNat
  <2> HIDE DEF owed
  <2>2. missing \in Nat
    BY <2>1
  <2>3. /\ Settle(l, owed, 0) /\ missing <= treasury /\ treasury' = treasury - missing
        /\ idle' = idle + (IF missing # 0 THEN missing ELSE owed)
        /\ adapter' = adapter + (IF missing # 0 THEN proceeds ELSE 0)
        /\ shares' = shares
    BY <1>12 DEF MarketSale, owed
  <2> HIDE DEF missing
  <2>4. shares \in Nat /\ idle \in Nat /\ treasury \in Nat /\ adapter \in Nat
    BY DEF ReserveTypeOK
  <2>5. Purses'
    BY <2>1, <2>2, <2>3, <2>4 DEF Purses
  <2>6. Transaction
    BY <2>3 DEF Settle
  <2> QED  BY <2>1, <2>3, <2>5, <2>6, SettleType DEF Updates
<1>13. ASSUME UpdateReserveState
       PROVE  Transaction /\ Updates
  <2>1. /\ Transaction /\ reserve' = UpdatedIndexes /\ UTokensMove(UpdatedIndexes, Treasury, 0)
        /\ UNCHANGED <<debtTokens, money>>
    BY <1>13 DEF UpdateReserveState
  <2>2. scaled' \in [Holders -> Nat] /\ supply' \in Nat
    BY <1>1, <2>1, UTokensType
  <2>3. Purses'
    BY <2>1 DEF Purses, money, ReserveTypeOK
  <2>4. /\ reserve' \in Indexes /\ reserve'.lastUpdateTimestamp = now
        /\ IndexesStored
    BY <2>1, UpdateStoresIncome DEF IndexesStored
  <2>5. debt' = debt /\ debtSupply' = debtSupply /\ now' = now
    BY <2>1 DEF debtTokens, Transaction
  <2> QED  BY <1>1, <2>1, <2>2, <2>3, <2>4, <2>5 DEF Updates, Books
<1>14. CASE PoolOperation
  <2>1. Amounts \union {BalanceOf(user) : user \in Holders} \subseteq Nat
    BY <1>3, <1>4
  <2> QED  BY <1>5, <1>6, <1>7, <1>9, <1>10, <1>14, <1>11, <2>1 DEF PoolOperation
<1> QED  BY <1>12, <1>13, <1>14

-----------------------------------------------------------------------------
(* The theorems. *)

LEMMA InitType == Init => ReserveTypeOK
<1> SUFFICES ASSUME Init PROVE ReserveTypeOK
  OBVIOUS
<1>1. RAY \in Nat \ {0} /\ WAD \in Prices /\ Endowment \in Nat /\ MaxSteps \in Nat
  BY UnitsAssumption, ReserveAssumption
<1>2. disturbed \in BOOLEAN
  BY DEF Init
<1>3. reserve \in Indexes /\ reserve.lastUpdateTimestamp <= now
  BY <1>1 DEF Init, Indexes
<1> QED  BY <1>1, <1>2, <1>3 DEF Init, ReserveTypeOK

\* The history variable is a truth value, whatever the step.
LEMMA DisturbedType ==
  ASSUME ReserveTypeOK, [Next]_vars
  PROVE  disturbed' \in BOOLEAN
<1>1. disturbed \in BOOLEAN
  BY DEF ReserveTypeOK
<1>2. CASE PoolOperation
  BY <1>1, <1>2 DEF PoolOperation, Deposit, Withdraw, Borrow, Repay, Liquidate, Auction
<1>3. CASE \E l \in Loans, proceeds \in Proceeds : MarketSale(l, proceeds)
  BY <1>3 DEF MarketSale
<1>4. CASE \E from, to \in Holders, amount \in Amounts : TransferUToken(from, to, amount)
  BY <1>1, <1>4 DEF TransferUToken
<1>5. CASE SetReserveFactor
  <2>1. PICK factor \in Factors : disturbed' = (disturbed \/ factor > reserveFactor)
    BY <1>5 DEF SetReserveFactor
  <2> QED  BY <2>1
<1>6. CASE UpdateReserveState \/ UpdateReserveInterestRates \/ SweepUToken
  BY <1>1, <1>6 DEF UpdateReserveState, UpdateReserveInterestRates, SweepUToken
<1>7. CASE ConfigInterestRate \/ VaultEarns \/ Tick
  BY <1>1, <1>7 DEF ConfigInterestRate, VaultEarns, Tick
<1>8. CASE UNCHANGED vars
  BY <1>1, <1>8 DEF vars
<1> QED  BY <1>2, <1>3, <1>4, <1>5, <1>6, <1>7, <1>8 DEF Next

\* Each step keeps the types, and each that lets no time pass keeps the
\* normalized income, unless it recomputes the rates on their own.
LEMMA StepKeeps ==
  ASSUME ReserveTypeOK, [Next]_vars
  PROVE  /\ ReserveTypeOK'
         /\ Tick \/ UpdateReserveInterestRates \/ NormalizedIncome' = NormalizedIncome
<1>0. disturbed' \in BOOLEAN
  BY DisturbedType
<1>1. /\ Factors \subseteq Nat /\ WAD \in Prices /\ Prices \subseteq Nat \ {0} /\ MaxSteps \in Nat
      /\ Pauses \subseteq Nat \ {0} /\ Amounts \subseteq Nat \ {0}
  BY ReserveAssumption, UnitsAssumption
<1>2. Step => steps' \in 0 .. MaxSteps
  BY <1>1 DEF Step, ReserveTypeOK
<1>3. ASSUME Transaction /\ Updates
      PROVE  ReserveTypeOK' /\ NormalizedIncome' = NormalizedIncome
  <2>1. /\ steps' \in 0 .. MaxSteps /\ now' = now /\ price' = price
        /\ reserveFactor' = reserveFactor /\ strategy' = strategy
    BY <1>2, <1>3 DEF Transaction, settings
  <2>2. ReserveTypeOK'
    BY <1>0, <1>3, <2>1 DEF ReserveTypeOK, Updates, Books, Purses
  <2>3. now' - reserve'.lastUpdateTimestamp = 0
    BY <1>3, <2>1 DEF Updates, ReserveTypeOK
  <2>4. NormalizedIncome' = NormalizedIncome
    BY <1>3, <2>3 DEF Updates, IndexesStored, NormalizedIncome, Elapsed
  <2> QED  BY <2>2, <2>4
<1>4. CASE PoolOperation
  BY <1>3, <1>4, OperationsUpdate
<1>5. CASE \E l \in Loans, proceeds \in Proceeds : MarketSale(l, proceeds)
  BY <1>3, <1>5, OperationsUpdate
<1>6. CASE UpdateReserveState
  BY <1>3, <1>6, OperationsUpdate
<1>7. CASE UpdateReserveInterestRates
  <2>1. /\ reserve' = WithRates(reserve, debtSupply, 0, 0)
        /\ UNCHANGED <<uTokens, debtTokens, money>> /\ Transaction
    BY <1>7 DEF UpdateReserveInterestRates
  <2>2. AvailableLiquidity \in Nat
    BY <1>1, Rounded DEF AvailableLiquidity, ReserveTypeOK
  <2>3. reserve' \in Indexes /\ reserve'.lastUpdateTimestamp = reserve.lastUpdateTimestamp
    <3>1. reserve \in Indexes /\ debtSupply \in Nat /\ 0 \in Nat /\ 0 <= AvailableLiquidity + 0
      BY <2>2 DEF ReserveTypeOK
    <3> QED  BY <2>1, <3>1, WithRatesType
  <2>4. ReserveTypeOK'
    BY <1>0, <1>2, <2>1, <2>3 DEF ReserveTypeOK, Transaction, uTokens, debtTokens, money, settings
  <2> QED  BY <1>7, <2>4
<1>8. CASE \E from, to \in Holders, amount \in Amounts : TransferUToken(from, to, amount)
  <2> PICK from \in Holders, to \in Holders, amount \in Amounts : TransferUToken(from, to, amount)
    BY <1>8
  <2> DEFINE moved == RayDiv(amount, NormalizedIncome)
  <2>1. moved \in Nat
    BY <1>1, UpdateStoresIncome, Rounded DEF Indexes
  <2> HIDE DEF moved
  <2>2. /\ Transaction /\ from # to /\ moved <= scaled[from]
        /\ scaled' = [[scaled EXCEPT ![from] = @ - moved] EXCEPT ![to] = @ + moved]
        /\ UNCHANGED <<reserve, supply, debtTokens, money>>
    BY DEF TransferUToken, moved
  <2>3. scaled' \in [Holders -> Nat]
    <3> DEFINE paid == [scaled EXCEPT ![from] = @ - moved]
    <3>1. scaled[from] - moved \in Nat /\ scaled \in [Holders -> Nat]
      BY <2>1, <2>2 DEF ReserveTypeOK
    <3>2. paid \in [Holders -> Nat]
      BY <3>1
    <3> HIDE DEF paid
    <3>3. scaled' = [paid EXCEPT ![to] = @ + moved]
      BY <2>2 DEF paid
    <3> QED  BY <2>1, <3>2, <3>3
  <2>4. ReserveTypeOK'
    BY <1>0, <1>2, <2>2, <2>3 DEF ReserveTypeOK, Transaction, debtTokens, money, settings
  <2>5. NormalizedIncome' = NormalizedIncome
    BY <2>2 DEF NormalizedIncome, Elapsed, LinearInterest, Transaction
  <2> QED  BY <2>4, <2>5
<1>9. CASE SweepUToken
  <2>1. idle \in Nat /\ shares \in Nat
    BY DEF ReserveTypeOK
  <2>2. VaultIssues(idle) \in Nat
    BY <2>1, MoneyType
  <2>3. ReserveTypeOK'
    BY <1>0, <1>2, <1>9, <2>1, <2>2 DEF SweepUToken, ReserveTypeOK, Transaction, uTokens, debtTokens, settings
  <2>4. NormalizedIncome' = NormalizedIncome
    BY <1>9 DEF SweepUToken, NormalizedIncome, Elapsed, LinearInterest, Transaction
  <2> QED  BY <2>3, <2>4
<1>10. CASE SetReserveFactor \/ ConfigInterestRate \/ VaultEarns
  <2>1. ReserveTypeOK'
    BY <1>0, <1>2, <1>10 DEF SetReserveFactor, ConfigInterestRate, VaultEarns, ReserveTypeOK, uTokens, debtTokens,
                       money, settings
  <2>2. NormalizedIncome' = NormalizedIncome
    BY <1>10 DEF SetReserveFactor, ConfigInterestRate, VaultEarns, NormalizedIncome, Elapsed, LinearInterest
  <2> QED  BY <2>1, <2>2
<1>11. CASE Tick
  <2>1. \E pause \in Pauses : now' = now + pause
    BY <1>11 DEF Tick
  <2>2. now \in Nat /\ now' \in Nat /\ now' >= now
    BY <1>1, <2>1 DEF ReserveTypeOK
  <2>3. ReserveTypeOK'
    BY <1>0, <1>2, <1>11, <2>2 DEF Tick, ReserveTypeOK, Indexes, uTokens, debtTokens, money, settings
  <2> QED  BY <1>11, <2>3
<1>12. CASE UNCHANGED vars
  <2>1. ReserveTypeOK'
    BY <1>0, <1>12 DEF vars, ReserveTypeOK, uTokens, debtTokens, money, settings
  <2>2. NormalizedIncome' = NormalizedIncome
    BY <1>12 DEF vars, NormalizedIncome, Elapsed, LinearInterest
  <2> QED  BY <2>1, <2>2
<1> QED  BY <1>4, <1>5, <1>6, <1>7, <1>8, <1>9, <1>10, <1>11, <1>12 DEF Next

\* The types of a reserve hold always, whatever its strategy, its factor
\* and the prices of the vault; no timestamp or burn underflows.
THEOREM ReserveTypes == Spec => []ReserveTypeOK
<1>1. ReserveTypeOK /\ [Next]_vars => ReserveTypeOK'
  BY StepKeeps
<1> QED  BY InitType, <1>1, PTL DEF Spec

\* When time passes the income of a deposit grows.
LEMMA TickGrows ==
  ASSUME ReserveTypeOK, ReserveTypeOK', Tick
  PROVE  NormalizedIncome' \in Nat /\ NormalizedIncome' >= NormalizedIncome
<1> DEFINE rate == reserve.currentLiquidityRate
           index == reserve.liquidityIndex
           before == rate * Elapsed
           after == rate * Elapsed'
<1>1. reserve' = reserve
  BY DEF Tick
<1>2. \E pause \in Pauses : now' = now + pause
  BY DEF Tick
<1>3. now \in Nat /\ now' \in Nat /\ now' > now /\ rate \in Nat /\ index \in Nat
      /\ reserve.lastUpdateTimestamp \in Nat
  BY <1>2, ReserveAssumption DEF ReserveTypeOK, Indexes
<1>4. Elapsed \in Nat /\ Elapsed' \in Nat /\ Elapsed <= Elapsed' /\ Elapsed' # 0
  BY <1>1, <1>3 DEF Elapsed, ReserveTypeOK
<1>5. SECONDS_PER_YEAR \in Nat /\ SECONDS_PER_YEAR > 0 /\ RAY \in Nat
  BY ReserveAssumption, UnitsAssumption
<1>6. NormalizedIncome' = RayMul(LinearInterest(rate)', index)
  BY <1>1, <1>4 DEF NormalizedIncome
<1>7. LinearInterest(rate)' = after \div SECONDS_PER_YEAR + RAY
  BY <1>1 DEF LinearInterest
<1>8. LinearInterest(rate) = before \div SECONDS_PER_YEAR + RAY
  BY DEF LinearInterest
<1>9. before \in Nat /\ after \in Nat /\ before <= after
  BY <1>3, <1>4
<1> HIDE DEF before, after, rate, index
<1>10. /\ before \div SECONDS_PER_YEAR \in Nat /\ after \div SECONDS_PER_YEAR \in Nat
       /\ before \div SECONDS_PER_YEAR <= after \div SECONDS_PER_YEAR
  BY <1>5, <1>9, DivBounds, DivMonotone
<1>11. /\ LinearInterest(rate) \in Nat /\ LinearInterest(rate)' \in Nat
       /\ LinearInterest(rate) <= LinearInterest(rate)'
  BY <1>5, <1>7, <1>8, <1>10
<1>12. RayMul(LinearInterest(rate), index) <= RayMul(LinearInterest(rate)', index)
  BY <1>3, <1>11, RayMulMonotone
<1>13. NormalizedIncome = RayMul(LinearInterest(rate), index)
  <2>1. CASE Elapsed = 0
    BY <1>3, <2>1, InterestGrows, RayMulOne DEF NormalizedIncome, index, rate
  <2>2. CASE Elapsed # 0
    BY <2>2 DEF NormalizedIncome, index, rate
  <2> QED  BY <2>1, <2>2
<1>14. RayMul(LinearInterest(rate), index) \in Nat /\ RayMul(LinearInterest(rate)', index) \in Nat
  BY <1>3, <1>11, Rounded
<1> QED  BY <1>6, <1>12, <1>13, <1>14

\* Only time changes what a deposit is worth, and it takes nothing back; rates
\* recomputed without an update of the state are the exception.
THEOREM DepositsAreKept == Spec => DepositsOnlyAccrue
<1> DEFINE Kept == ~ UpdateReserveInterestRates =>
                     \A user \in Holders :
                       scaled'[user] = scaled[user] => OnlyTimeAdds(BalanceOf(user), BalanceOf(user)')
<1>1. ReserveTypeOK /\ [Next]_vars => Kept
  <2> SUFFICES ASSUME ReserveTypeOK, [Next]_vars, ~ UpdateReserveInterestRates,
                      NEW user \in Holders, scaled'[user] = scaled[user]
               PROVE  OnlyTimeAdds(BalanceOf(user), BalanceOf(user)')
    OBVIOUS
  <2>1. ReserveTypeOK' /\ (Tick \/ NormalizedIncome' = NormalizedIncome)
    BY StepKeeps
  <2>2. scaled[user] \in Nat /\ NormalizedIncome \in Nat
    BY UpdateStoresIncome DEF ReserveTypeOK, Indexes
  <2>3. CASE Tick
    <3>1. NormalizedIncome' \in Nat
      BY <2>1, <2>3, TickGrows
    <3>2. NormalizedIncome' >= NormalizedIncome
      BY <2>1, <2>3, TickGrows
    <3>3. RayMul(scaled[user], NormalizedIncome) <= RayMul(scaled[user], NormalizedIncome')
      BY <2>2, <3>1, <3>2, RayMulMonotone
    <3>4. RayMul(scaled[user], NormalizedIncome) \in Nat /\ RayMul(scaled[user], NormalizedIncome') \in Nat
      BY <2>2, <3>1, Rounded
    <3>5. now' # now
      BY <2>3, ReserveAssumption DEF Tick, ReserveTypeOK
    <3> QED  BY <3>3, <3>4, <3>5 DEF OnlyTimeAdds, BalanceOf
  <2>4. CASE NormalizedIncome' = NormalizedIncome
    <3>1. BalanceOf(user)' = BalanceOf(user) /\ BalanceOf(user) \in Nat
      BY <2>2, <2>4, Rounded DEF BalanceOf
    <3> QED  BY <3>1 DEF OnlyTimeAdds
  <2> QED  BY <2>1, <2>3, <2>4
<1> QED  BY <1>1, ReserveTypes, PTL DEF Spec, DepositsOnlyAccrue

-----------------------------------------------------------------------------
(* The total supplies.                                                     *)

\* The total supplies of both tokens are the sums of the balances.
TotalsExact ==
  /\ supply = SumOver(scaled, Holders)
  /\ debtSupply = SumOver(debt, Loans)

\* A change of one balance changes the sum by as much.
LEMMA TotalMoves ==
  ASSUME NEW S, IsFiniteSet(S), NEW f, \A y \in S : f[y] \in Nat,
         NEW g, \A y \in S : g[y] \in Nat, NEW x \in S, NEW change \in Int,
         g[x] = f[x] + change, \A y \in S \ {x} : f[y] = g[y]
  PROVE  SumOver(g, S) = SumOver(f, S) + change
<1>1. /\ SumOver(g, S) = SumOver(f, S) - Share(f, S, x) + Share(g, S, x)
      /\ SumOver(f, S) \in Nat
  BY SumChange
<1>2. Share(f, S, x) = f[x] /\ Share(g, S, x) = f[x] + change /\ f[x] \in Nat
  BY DEF Share
<1> QED  BY <1>1, <1>2

\* Two of them, one after the other.
LEMMA TotalMovesTwice ==
  ASSUME NEW S, IsFiniteSet(S), NEW f, \A z \in S : f[z] \in Nat,
         NEW g, \A z \in S : g[z] \in Nat,
         NEW x \in S, NEW first \in Int, NEW y \in S, NEW second \in Int, f[x] + first \in Nat,
         \A z \in S : g[z] = f[z] + (IF z = x THEN first ELSE 0) + (IF z = y THEN second ELSE 0)
  PROVE  SumOver(g, S) = SumOver(f, S) + first + second
<1> DEFINE mid == [z \in S |-> IF z = x THEN f[z] + first ELSE f[z]]
<1>1. /\ \A z \in S : mid[z] \in Nat
      /\ mid[x] = f[x] + first
      /\ \A z \in S \ {x} : f[z] = mid[z]
  OBVIOUS
<1>2. g[y] = mid[y] + second /\ \A z \in S \ {y} : mid[z] = g[z]
  OBVIOUS
<1> HIDE DEF mid
<1>3. SumOver(mid, S) = SumOver(f, S) + first
  BY <1>1, TotalMoves
<1>4. SumOver(g, S) = SumOver(mid, S) + second
  BY <1>1, <1>2, TotalMoves
<1>5. SumOver(f, S) \in Nat
  BY SumNat
<1> QED  BY <1>3, <1>4, <1>5

\* The holders of uTokens are finitely many.
LEMMA HoldersFinite == IsFiniteSet(Holders) /\ IsFiniteSet(Loans) /\ Treasury \in Holders
<1>1. IsFiniteSet({Treasury})
  BY FS_Singleton
<1> QED  BY <1>1, ReserveAssumption, FS_Union DEF Holders

\* Minting for the treasury and for a user keeps the total of the uTokens.
LEMMA UTokensTotal ==
  ASSUME ReserveTypeOK, ReserveTypeOK', TotalsExact,
         NEW user \in Holders, NEW change \in Int, UTokensMove(UpdatedIndexes, user, change)
  PROVE  supply' = SumOver(scaled', Holders)
<1> DEFINE fee == MintToTreasury(UpdatedIndexes)
<1>1. fee \in Nat
  BY FeeNat
<1> HIDE DEF fee
<1>2. /\ scaled' = [[scaled EXCEPT ![Treasury] = @ + fee] EXCEPT ![user] = @ + change]
      /\ supply' = supply + fee + change
  BY DEF UTokensMove, fee
<1>3. scaled \in [Holders -> Nat] /\ scaled' \in [Holders -> Nat] /\ supply = SumOver(scaled, Holders)
  BY DEF ReserveTypeOK, TotalsExact
<1>4. scaled[Treasury] + fee \in Nat
  BY <1>1, <1>3, HoldersFinite
<1>5. SumOver(scaled', Holders) = SumOver(scaled, Holders) + fee + change
  <2> DEFINE after == scaled'
  <2>1. /\ fee \in Int
        /\ \A z \in Holders : scaled[z] \in Nat /\ after[z] \in Nat
        /\ \A z \in Holders :
             after[z] = scaled[z] + (IF z = Treasury THEN fee ELSE 0) + (IF z = user THEN change ELSE 0)
    BY <1>1, <1>2, <1>3, HoldersFinite
  <2> HIDE DEF after
  <2> DEFINE mid == [z \in Holders |-> IF z = Treasury THEN scaled[z] + fee ELSE scaled[z]]
  <2>2. /\ \A z \in Holders : scaled[z] \in Nat /\ mid[z] \in Nat /\ after[z] \in Nat
        /\ mid[Treasury] = scaled[Treasury] + fee
        /\ \A z \in Holders \ {Treasury} : scaled[z] = mid[z]
    BY <1>1, <2>1, HoldersFinite
  <2>3. after[user] = mid[user] + change /\ \A z \in Holders \ {user} : mid[z] = after[z]
    BY <1>1, <2>1
  <2> HIDE DEF mid, fee
  <2>4. SumOver(mid, Holders) = SumOver(scaled, Holders) + fee
    BY ONLY <2>1, <2>2, HoldersFinite, TotalMoves
  <2>5. SumOver(after, Holders) = SumOver(mid, Holders) + change
    BY ONLY <2>2, <2>3, user \in Holders, change \in Int, HoldersFinite, TotalMoves
  <2> QED  BY <2>4, <2>5 DEF after
<1> QED  BY <1>2, <1>3, <1>5

\* So does a change of one debt that of the debt tokens.
LEMMA DebtTotal ==
  ASSUME ReserveTypeOK, ReserveTypeOK', TotalsExact,
         NEW l \in Loans, NEW change \in Int, DebtMoves(l, change)
  PROVE  debtSupply' = SumOver(debt', Loans)
<1>1. /\ debt' = [debt EXCEPT ![l] = @ + change] /\ debtSupply' = debtSupply + change
      /\ debt \in [Loans -> Nat] /\ debt' \in [Loans -> Nat] /\ debtSupply = SumOver(debt, Loans)
  BY DEF DebtMoves, ReserveTypeOK, TotalsExact
<1>2. /\ debt'[l] = debt[l] + change /\ \A k \in Loans \ {l} : debt[k] = debt'[k]
      /\ \A k \in Loans : debt[k] \in Nat /\ debt'[k] \in Nat
  BY <1>1
<1>3. SumOver(debt', Loans) = SumOver(debt, Loans) + change
  <2> DEFINE after == debt'
  <2>1. /\ after[l] = debt[l] + change /\ \A k \in Loans \ {l} : debt[k] = after[k]
        /\ \A k \in Loans : debt[k] \in Nat /\ after[k] \in Nat
    BY <1>2
  <2> HIDE DEF after
  <2>2. SumOver(after, Loans) = SumOver(debt, Loans) + change
    BY ONLY <2>1, l \in Loans, change \in Int, HoldersFinite, TotalMoves
  <2> QED  BY <2>2 DEF after
<1> QED  BY <1>1, <1>3

\* Each operation that updates the reserve moves uTokens for the treasury and
\* at most one user, and debt tokens of at most one loan.
Moves ==
  /\ \E user \in Holders, change \in Int : UTokensMove(UpdatedIndexes, user, change)
  /\ UNCHANGED debtTokens \/ \E l \in Loans, change \in Int : DebtMoves(l, change)

LEMMA SettleMoves ==
  ASSUME ReserveTypeOK, NEW l \in Loans, NEW amount \in Nat, NEW added, Settle(l, amount, added)
  PROVE  Moves
<1> DEFINE burnt == RayDiv(amount, UpdatedIndexes.variableBorrowIndex)
<1>1. burnt \in Nat
  BY UpdateStoresIncome, Rounded DEF Indexes
<1> HIDE DEF burnt
<1>2. DebtMoves(l, -burnt) /\ UTokensMove(UpdatedIndexes, Treasury, 0)
  BY DEF Settle, burnt
<1>3. -burnt \in Int /\ 0 \in Int
  BY <1>1
<1> QED  BY <1>2, <1>3, HoldersFinite DEF Moves

LEMMA OperationsMove ==
  ASSUME ReserveTypeOK,
         PoolOperation \/ UpdateReserveState
           \/ \E l \in Loans, proceeds \in Proceeds : MarketSale(l, proceeds)
  PROVE  Moves
<1>1. Amounts \subseteq Nat /\ Lenders \subseteq Holders /\ Treasury \in Holders /\ 0 \in Int
  BY ReserveAssumption DEF Holders
<1>2. /\ UpdatedIndexes.liquidityIndex \in Nat /\ UpdatedIndexes.liquidityIndex # 0
      /\ UpdatedIndexes.variableBorrowIndex \in Nat /\ UpdatedIndexes.variableBorrowIndex # 0
  BY UpdateStoresIncome DEF Indexes
<1>3. ASSUME NEW user \in Lenders, NEW amount \in Amounts, Deposit(user, amount)
      PROVE  Moves
  <2>1. RayDiv(amount, UpdatedIndexes.liquidityIndex) \in Nat
    BY <1>1, <1>2, Rounded
  <2> QED  BY <1>1, <1>3, <2>1 DEF Deposit, Moves
<1>4. ASSUME NEW user \in Holders, NEW amount \in Nat, Withdraw(user, amount)
      PROVE  Moves
  <2> DEFINE burnt == RayDiv(amount, UpdatedIndexes.liquidityIndex)
  <2>1. burnt \in Nat
    BY <1>2, Rounded
  <2>2. UTokensMove(UpdatedIndexes, user, -burnt) /\ UNCHANGED debtTokens
    BY <1>4 DEF Withdraw
  <2> HIDE DEF burnt
  <2>3. -burnt \in Int
    BY <2>1
  <2> QED  BY <2>2, <2>3 DEF Moves
<1>5. ASSUME NEW l \in Loans, NEW amount \in Amounts, Borrow(l, amount)
      PROVE  Moves
  <2>1. RayDiv(amount, UpdatedIndexes.variableBorrowIndex) \in Nat
    BY <1>1, <1>2, Rounded
  <2> QED  BY <1>1, <1>5, <2>1 DEF Borrow, Moves
<1>6. ASSUME NEW l \in Loans, NEW amount \in Amounts, Repay(l, amount)
      PROVE  Moves
  <2> DEFINE repaid == IF amount < OwedNow(l) THEN amount ELSE OwedNow(l)
  <2>1. repaid \in Nat /\ Settle(l, repaid, repaid)
    BY <1>1, <1>6, OwedNat DEF Repay
  <2> HIDE DEF repaid
  <2> QED  BY <2>1, SettleMoves
<1>7. ASSUME NEW l \in Loans, Liquidate(l)
      PROVE  Moves
  BY <1>7, OwedNat, SettleMoves DEF Liquidate
<1>8. ASSUME NEW l \in Loans, Auction(l)
      PROVE  Moves
  BY <1>1, <1>8 DEF Auction, Moves
<1>9. ASSUME NEW l \in Loans, NEW proceeds \in Proceeds, MarketSale(l, proceeds)
      PROVE  Moves
  BY <1>9, OwedNat, SettleMoves DEF MarketSale
<1>10. CASE UpdateReserveState
  BY <1>1, <1>10 DEF UpdateReserveState, Moves
<1>11. CASE PoolOperation
  <2>1. \A user \in Holders : BalanceOf(user) \in Nat
    BY UpdateStoresIncome, Rounded DEF BalanceOf, ReserveTypeOK, Indexes
  <2> QED  BY <1>1, <1>3, <1>4, <1>5, <1>6, <1>7, <1>8, <1>11, <2>1 DEF PoolOperation
<1> QED  BY <1>9, <1>10, <1>11

\* Each step keeps the totals exact.
LEMMA TotalsKept ==
  ASSUME ReserveTypeOK, TotalsExact, [Next]_vars
  PROVE  TotalsExact'
<1>1. ReserveTypeOK'
  BY StepKeeps
<1>2. ASSUME Moves
      PROVE  TotalsExact'
  <2>1. supply' = SumOver(scaled', Holders)
    BY <1>1, <1>2, UTokensTotal DEF Moves
  <2>2. debtSupply' = SumOver(debt', Loans)
    BY <1>1, <1>2, DebtTotal DEF Moves, TotalsExact, debtTokens
  <2> QED  BY <2>1, <2>2 DEF TotalsExact
<1>3. CASE \E from, to \in Holders, amount \in Amounts : TransferUToken(from, to, amount)
  <2> PICK from \in Holders, to \in Holders, amount \in Amounts : TransferUToken(from, to, amount)
    BY <1>3
  <2> DEFINE moved == RayDiv(amount, NormalizedIncome)
  <2>1. moved \in Nat
    BY ReserveAssumption, UpdateStoresIncome, Rounded DEF Indexes
  <2> HIDE DEF moved
  <2>2. /\ moved <= scaled[from] /\ UNCHANGED <<supply, debt, debtSupply>>
        /\ scaled' = [[scaled EXCEPT ![from] = @ + (-moved)] EXCEPT ![to] = @ + moved]
    <3>1. /\ moved <= scaled[from] /\ UNCHANGED <<supply, debt, debtSupply>>
          /\ scaled' = [[scaled EXCEPT ![from] = @ - moved] EXCEPT ![to] = @ + moved]
      BY DEF TransferUToken, moved, debtTokens
    <3>2. scaled[from] - moved = scaled[from] + (-moved)
      BY <2>1 DEF ReserveTypeOK
    <3> QED  BY <3>1, <3>2
  <2>3. scaled \in [Holders -> Nat] /\ scaled' \in [Holders -> Nat]
    BY <1>1 DEF ReserveTypeOK
  <2>4. scaled[from] + (-moved) \in Nat /\ -moved \in Int /\ moved \in Int
    BY <2>1, <2>2, <2>3
  <2>5. SumOver(scaled', Holders) = SumOver(scaled, Holders) + (-moved) + moved
    <3> DEFINE after == scaled'
    <3>1. /\ \A z \in Holders : scaled[z] \in Nat /\ after[z] \in Nat
          /\ \A z \in Holders :
               after[z] = scaled[z] + (IF z = from THEN -moved ELSE 0) + (IF z = to THEN moved ELSE 0)
      BY <2>1, <2>2, <2>3
    <3> HIDE DEF after
    <3>2. SumOver(after, Holders) = SumOver(scaled, Holders) + (-moved) + moved
      BY ONLY <3>1, <2>4, from \in Holders, to \in Holders, HoldersFinite, TotalMovesTwice
    <3> QED  BY <3>2 DEF after
  <2>6. SumOver(scaled, Holders) \in Nat
    BY <2>3, HoldersFinite, SumNat
  <2> QED  BY <2>1, <2>2, <2>5, <2>6 DEF TotalsExact
<1>4. ASSUME UNCHANGED <<uTokens, debtTokens>>
      PROVE  TotalsExact'
  BY <1>4 DEF TotalsExact, uTokens, debtTokens
<1>5. CASE PoolOperation \/ UpdateReserveState
             \/ \E l \in Loans, proceeds \in Proceeds : MarketSale(l, proceeds)
  BY <1>2, <1>5, OperationsMove
<1>6. CASE UpdateReserveInterestRates \/ SweepUToken \/ SetReserveFactor \/ ConfigInterestRate
             \/ VaultEarns \/ Tick \/ UNCHANGED vars
  BY <1>4, <1>6 DEF UpdateReserveInterestRates, SweepUToken, SetReserveFactor, ConfigInterestRate,
                    VaultEarns, Tick, vars
<1> QED  BY <1>3, <1>5, <1>6 DEF Next

\* What is minted and burned, for the treasury too, adds up: the total supplies
\* that claims, interest and rates are computed from are those of the balances.
THEOREM SuppliesExact == Spec => []TotalsExact
<1>1. Init => TotalsExact
  <2> SUFFICES ASSUME Init PROVE TotalsExact OBVIOUS
  <2>1. /\ \A user \in Holders : scaled[user] = 0
        /\ \A l \in Loans : debt[l] = 0
        /\ supply = 0 /\ debtSupply = 0
    BY DEF Init
  <2>2. SumOver(scaled, Holders) = 0 /\ SumOver(debt, Loans) = 0
    BY <2>1, HoldersFinite, SumZero
  <2> QED  BY <2>1, <2>2 DEF TotalsExact
<1>2. ReserveTypeOK /\ TotalsExact /\ [Next]_vars => TotalsExact'
  BY TotalsKept
<1> QED  BY <1>1, <1>2, ReserveTypes, PTL DEF Spec

-----------------------------------------------------------------------------
(* What a loan owes.                                                       *)

\* Nothing, scaled, is nothing.
LEMMA RayMulZero ==
  ASSUME NEW i \in Nat
  PROVE  RayMul(0, i) = 0 /\ RayMul(i, 0) = 0
<1> DEFINE h == RAY \div 2
<1>1. RAY \in Nat /\ RAY > 0
  BY UnitsAssumption
<1>2. h \in Nat /\ h < RAY
  BY <1>1
<1>3. 0 * i = 0 /\ i * 0 = 0
  OBVIOUS
<1> HIDE DEF h
<1>4. h \div RAY = 0
  BY <1>1, <1>2, DivUnique
<1> QED  BY <1>2, <1>3, <1>4 DEF RayMul, UnitMul, h

\* Products of naturals keep the order.
LEMMA ProductMonotone ==
  ASSUME NEW a \in Nat, NEW b \in Nat, NEW c \in Nat, NEW d \in Nat, a <= b, c <= d
  PROVE  a * c \in Nat /\ b * d \in Nat /\ a * c <= b * d
<1>1. a * c <= b * c /\ b * c <= b * d /\ a * c \in Nat /\ b * c \in Nat /\ b * d \in Nat
  OBVIOUS
<1> QED  BY <1>1

\* The compounded interest of t seconds at a rate per second.
Compounded(t, perSecond) ==
  LET squared == RayMul(perSecond, perSecond)
      cubed == RayMul(squared, perSecond)
      beyondTwo == IF t > 2 THEN t - 2 ELSE 0
  IN  RAY + perSecond * t + (t * (t - 1) * squared) \div 2
          + (t * (t - 1) * beyondTwo * cubed) \div 6

\* It grows with time, from one ray on, and not at all without a rate.
LEMMA CompoundedGrows ==
  ASSUME NEW t \in Nat, NEW u \in Nat, t > 0, t <= u, NEW perSecond \in Nat
  PROVE  /\ Compounded(t, perSecond) \in Nat /\ Compounded(u, perSecond) \in Nat
         /\ RAY <= Compounded(t, perSecond)
         /\ Compounded(t, perSecond) <= Compounded(u, perSecond)
         /\ perSecond = 0 => Compounded(t, perSecond) = RAY
<1> DEFINE squared == RayMul(perSecond, perSecond)
           cubed == RayMul(squared, perSecond)
           beyond(k) == IF k > 2 THEN k - 2 ELSE 0
           second(k) == k * (k - 1) * squared
           third(k) == k * (k - 1) * beyond(k) * cubed
<1>1. squared \in Nat
  BY Rounded
<1>2. cubed \in Nat
  BY <1>1, Rounded
<1>3. perSecond = 0 => squared = 0 /\ cubed = 0
  <2>1. perSecond = 0 => squared = 0
    BY RayMulZero
  <2> HIDE DEF squared
  <2>2. perSecond = 0 => cubed = 0
    BY <1>1, RayMulZero
  <2> QED  BY <2>1, <2>2
<1> HIDE DEF squared, cubed
<1>4. /\ t * (t - 1) \in Nat /\ u * (u - 1) \in Nat /\ t * (t - 1) <= u * (u - 1)
      /\ beyond(t) \in Nat /\ beyond(u) \in Nat /\ beyond(t) <= beyond(u)
  <2>1. t - 1 \in Nat /\ u - 1 \in Nat /\ t - 1 <= u - 1
    OBVIOUS
  <2> QED  BY <2>1, ProductMonotone
<1> DEFINE pairsT == t * (t - 1)
           pairsU == u * (u - 1)
           beyondT == beyond(t)
           beyondU == beyond(u)
<1>5. /\ second(t) = pairsT * squared /\ second(u) = pairsU * squared
      /\ third(t) = pairsT * beyondT * cubed /\ third(u) = pairsU * beyondU * cubed
  OBVIOUS
<1>6. pairsT \in Nat /\ pairsU \in Nat /\ pairsT <= pairsU /\ beyondT \in Nat /\ beyondU \in Nat /\ beyondT <= beyondU
  BY <1>4
<1>7. /\ Compounded(t, perSecond) = RAY + perSecond * t + second(t) \div 2 + third(t) \div 6
      /\ Compounded(u, perSecond) = RAY + perSecond * u + second(u) \div 2 + third(u) \div 6
  BY DEF Compounded, squared, cubed
<1> HIDE DEF pairsT, pairsU, beyondT, beyondU, second, third
<1>8. second(t) \in Nat /\ second(u) \in Nat /\ second(t) <= second(u)
  BY <1>1, <1>5, <1>6, ProductMonotone
<1>9. /\ pairsT * beyondT \in Nat /\ pairsU * beyondU \in Nat
      /\ pairsT * beyondT <= pairsU * beyondU
  BY <1>6, ProductMonotone
<1>10. third(t) \in Nat /\ third(u) \in Nat /\ third(t) <= third(u)
  <2> DEFINE x == pairsT * beyondT
             y == pairsU * beyondU
  <2>1. third(t) = x * cubed /\ third(u) = y * cubed /\ x \in Nat /\ y \in Nat /\ x <= y
    BY <1>5, <1>9
  <2> HIDE DEF x, y
  <2> QED  BY <2>1, <1>2, ProductMonotone
<1>11. perSecond = 0 => second(t) = 0 /\ third(t) = 0
  <2>1. pairsT * 0 = 0 /\ pairsT * beyondT * 0 = 0
    BY <1>6, <1>9
  <2> QED  BY <1>3, <1>5, <2>1
<1>12. perSecond * t \in Nat /\ perSecond * u \in Nat /\ perSecond * t <= perSecond * u
  BY ProductMonotone
<1>13. /\ second(t) \div 2 \in Nat /\ second(u) \div 2 \in Nat /\ second(t) \div 2 <= second(u) \div 2
       /\ third(t) \div 6 \in Nat /\ third(u) \div 6 \in Nat /\ third(t) \div 6 <= third(u) \div 6
  BY <1>8, <1>10, DivBounds, DivMonotone
<1>14. perSecond = 0 => perSecond * t = 0 /\ second(t) \div 2 = 0 /\ third(t) \div 6 = 0
  <2>1. 0 \div 2 = 0 /\ 0 \div 6 = 0 /\ 0 * t = 0
    OBVIOUS
  <2> QED  BY <1>11, <2>1
<1>15. RAY \in Nat
  BY UnitsAssumption
<1> QED  BY <1>7, <1>12, <1>13, <1>14, <1>15

\* The code's interest is that of the time since the last update.
LEMMA CompoundedIs ==
  ASSUME NEW rate
  PROVE  CompoundedInterest(rate) =
           IF Elapsed = 0 THEN RAY ELSE Compounded(Elapsed, rate \div SECONDS_PER_YEAR)
BY DEF CompoundedInterest, Compounded

\* Where debts bear interest, so do deposits.  updateState takes a reserve whose
\* liquidity rate is 0 to have no interest to add, to its debts neither.
LoansEarn ==
  debtSupply # 0 /\ reserve.currentVariableBorrowRate # 0 => reserve.currentLiquidityRate # 0

\* Then an update stores in the borrow index what the view of it said.
LEMMA UpdateStoresDebt ==
  ASSUME ReserveTypeOK, LoansEarn, debtSupply # 0
  PROVE  UpdatedIndexes.variableBorrowIndex = NormalizedDebt
<1> DEFINE rate == reserve.currentVariableBorrowRate
           index == reserve.variableBorrowIndex
           grown == IF reserve.currentLiquidityRate > 0 /\ debtSupply # 0
                    THEN RayMul(CompoundedInterest(rate), index) ELSE index
<1>1. rate \in Nat /\ index \in Nat /\ reserve.currentLiquidityRate \in Nat
  BY DEF ReserveTypeOK, Indexes
<1>2. UpdatedIndexes.variableBorrowIndex = grown
  BY DEF UpdatedIndexes, ReserveTypeOK, Indexes
<1>3. Elapsed \in Nat
  BY InterestGrows
<1>4. Elapsed = 0 \/ rate = 0 => CompoundedInterest(rate) = RAY
  <2>1. CASE Elapsed = 0
    BY <2>1, CompoundedIs
  <2>2. CASE Elapsed # 0 /\ rate = 0
    <3>1. 0 \div SECONDS_PER_YEAR = 0
      BY ReserveAssumption
    <3>2. Elapsed > 0 /\ 0 \in Nat
      BY <1>3, <2>2
    <3>3. Compounded(Elapsed, 0) = RAY
      BY <1>3, <3>2, CompoundedGrows
    <3> HIDE DEF rate
    <3> QED  BY <2>2, <3>1, <3>3, CompoundedIs
  <2> QED  BY <2>1, <2>2
<1>5. Elapsed = 0 \/ rate = 0 => RayMul(CompoundedInterest(rate), index) = index
  BY <1>1, <1>4, RayMulOne
<1>6. NormalizedDebt = IF Elapsed = 0 THEN index ELSE RayMul(CompoundedInterest(rate), index)
  BY DEF NormalizedDebt
<1>7. rate # 0 => reserve.currentLiquidityRate > 0
  BY <1>1 DEF LoansEarn
<1> HIDE DEF rate, index
<1> QED  BY <1>2, <1>5, <1>6, <1>7

\* When time passes debts grow.
LEMMA TickGrowsDebt ==
  ASSUME ReserveTypeOK, ReserveTypeOK', Tick
  PROVE  /\ NormalizedDebt \in Nat /\ NormalizedDebt' \in Nat
         /\ NormalizedDebt <= NormalizedDebt'
<1> DEFINE perSecond == reserve.currentVariableBorrowRate \div SECONDS_PER_YEAR
           index == reserve.variableBorrowIndex
<1>1. reserve' = reserve
  BY DEF Tick
<1>2. \E pause \in Pauses : now' = now + pause
  BY DEF Tick
<1>3. /\ now \in Nat /\ now' \in Nat /\ now' > now /\ reserve.lastUpdateTimestamp \in Nat
      /\ index \in Nat /\ reserve.currentVariableBorrowRate \in Nat
  BY <1>2, ReserveAssumption DEF ReserveTypeOK, Indexes
<1>4. Elapsed \in Nat /\ Elapsed' \in Nat /\ Elapsed <= Elapsed' /\ Elapsed' > 0
  BY <1>1, <1>3 DEF Elapsed, ReserveTypeOK
<1>5. perSecond \in Nat
  BY <1>3, ReserveAssumption, DivBounds
<1>6. NormalizedDebt' = RayMul(Compounded(Elapsed', perSecond), index)
  BY <1>1, <1>4 DEF NormalizedDebt, CompoundedInterest, Compounded
<1>7. NormalizedDebt = IF Elapsed = 0 THEN index ELSE RayMul(Compounded(Elapsed, perSecond), index)
  BY CompoundedIs DEF NormalizedDebt
<1> HIDE DEF perSecond, index
<1>8. CASE Elapsed = 0
  <2>1. Compounded(Elapsed', perSecond) \in Nat /\ RAY <= Compounded(Elapsed', perSecond)
    BY <1>4, <1>5, CompoundedGrows
  <2>2. RayMul(Compounded(Elapsed', perSecond), index) >= index
    BY <1>3, <2>1, RayMulGrows DEF index
  <2>3. RayMul(Compounded(Elapsed', perSecond), index) \in Nat
    BY <1>3, <2>1, Rounded DEF index
  <2> QED  BY <1>3, <1>6, <1>7, <1>8, <2>2, <2>3 DEF index
<1>9. CASE Elapsed # 0
  <2>1. /\ Compounded(Elapsed, perSecond) \in Nat /\ Compounded(Elapsed', perSecond) \in Nat
        /\ Compounded(Elapsed, perSecond) <= Compounded(Elapsed', perSecond)
    <3>1. Elapsed > 0
      BY <1>4, <1>9
    <3> QED  BY <1>4, <1>5, <3>1, CompoundedGrows
  <2>2. index \in Nat
    BY <1>3
  <2>3. RayMul(Compounded(Elapsed, perSecond), index) <= RayMul(Compounded(Elapsed', perSecond), index)
    BY <2>1, <2>2, RayMulMonotone
  <2>4. /\ RayMul(Compounded(Elapsed, perSecond), index) \in Nat
        /\ RayMul(Compounded(Elapsed', perSecond), index) \in Nat
    BY <2>1, <2>2, Rounded
  <2> QED  BY <1>6, <1>7, <1>9, <2>3, <2>4
<1> QED  BY <1>8, <1>9

\* The view of the borrow index is a natural.
LEMMA DebtViewNat ==
  ASSUME ReserveTypeOK
  PROVE  NormalizedDebt \in Nat
<1>1. reserve.variableBorrowIndex \in Nat /\ reserve.currentVariableBorrowRate \in Nat
  BY DEF ReserveTypeOK, Indexes
<1>2. CompoundedInterest(reserve.currentVariableBorrowRate) \in Nat
  BY <1>1, InterestGrows
<1> QED  BY <1>1, <1>2, Rounded DEF NormalizedDebt

\* A debt is a part of all debts.
LEMMA DebtIsPart ==
  ASSUME ReserveTypeOK, TotalsExact, NEW l \in Loans
  PROVE  debt[l] \in Nat /\ debt[l] <= debtSupply
<1>1. \A k \in Loans : debt[k] \in Nat
  BY DEF ReserveTypeOK
<1>2. /\ SumOver(debt, Loans) = SumOver(debt, Loans \ {l}) + Share(debt, Loans, l)
      /\ SumOver(debt, Loans \ {l}) \in Nat
  BY <1>1, HoldersFinite, SumSplit
<1> QED  BY <1>1, <1>2 DEF Share, TotalsExact

\* The normalized debt after an update is what is stored.
LEMMA FreshDebt ==
  ASSUME ReserveTypeOK, Transaction, Updates
  PROVE  /\ NormalizedDebt' = UpdatedIndexes.variableBorrowIndex
         /\ NormalizedIncome' = NormalizedIncome
<1>1. now' = now /\ reserve'.lastUpdateTimestamp = now /\ now \in Nat
  BY DEF Transaction, Updates, ReserveTypeOK
<1>2. Elapsed' = 0
  BY <1>1 DEF Elapsed
<1> QED  BY <1>2 DEF NormalizedDebt, NormalizedIncome, Updates, IndexesStored

\* What a step does to a debt that is neither paid nor raised.
LEMMA DebtStep ==
  ASSUME ReserveTypeOK, TotalsExact, LoansEarn, [Next]_vars, ~UpdateReserveInterestRates,
         NEW l \in Loans, debt'[l] = debt[l]
  PROVE  OnlyTimeAdds(Owed(l), Owed(l)')
<1>1. ReserveTypeOK' /\ debt[l] \in Nat /\ debt[l] <= debtSupply /\ debtSupply \in Nat
  BY StepKeeps, DebtIsPart DEF ReserveTypeOK
<1>2. Owed(l) = RayMul(debt[l], NormalizedDebt) /\ Owed(l)' = RayMul(debt[l], NormalizedDebt')
  BY DEF Owed
<1>3. NormalizedDebt \in Nat
  BY DebtViewNat
<1>4. RayMul(debt[l], NormalizedDebt) \in Nat
  BY <1>1, <1>3, Rounded
<1>5. ASSUME NormalizedDebt' = NormalizedDebt
      PROVE  OnlyTimeAdds(Owed(l), Owed(l)')
  BY <1>2, <1>4, <1>5 DEF OnlyTimeAdds
<1>6. ASSUME Transaction, Updates
      PROVE  OnlyTimeAdds(Owed(l), Owed(l)')
  <2>1. NormalizedDebt' = UpdatedIndexes.variableBorrowIndex
    BY <1>6, FreshDebt
  <2>2. CASE debtSupply = 0
    <3>1. debt[l] = 0
      BY <1>1, <2>2
    <3>2. UpdatedIndexes.variableBorrowIndex \in Nat
      BY UpdateStoresIncome DEF Indexes
    <3>3. Owed(l) = 0 /\ Owed(l)' = 0
      BY <1>2, <1>3, <2>1, <3>1, <3>2, RayMulZero
    <3> QED  BY <3>3 DEF OnlyTimeAdds
  <2>3. CASE debtSupply # 0
    BY <1>5, <2>1, <2>3, UpdateStoresDebt
  <2> QED  BY <2>2, <2>3
<1>7. CASE PoolOperation \/ UpdateReserveState
             \/ \E k \in Loans, proceeds \in Proceeds : MarketSale(k, proceeds)
  BY <1>6, <1>7, OperationsUpdate
<1>8. CASE Tick
  <2>1. NormalizedDebt' \in Nat /\ NormalizedDebt <= NormalizedDebt'
    BY <1>1, <1>8, TickGrowsDebt
  <2>2. /\ RayMul(debt[l], NormalizedDebt) <= RayMul(debt[l], NormalizedDebt')
        /\ RayMul(debt[l], NormalizedDebt') \in Nat
    BY <1>1, <1>3, <2>1, RayMulMonotone, Rounded
  <2>3. now' # now
    BY <1>8, ReserveAssumption DEF Tick, ReserveTypeOK
  <2> QED  BY <1>2, <1>4, <2>2, <2>3 DEF OnlyTimeAdds
<1>9. ASSUME UNCHANGED <<now, reserve>>
      PROVE  OnlyTimeAdds(Owed(l), Owed(l)')
  <2>1. NormalizedDebt' = NormalizedDebt
    BY <1>9 DEF NormalizedDebt, Elapsed, CompoundedInterest
  <2> QED  BY <1>5, <2>1
<1>10. CASE (\E from, to \in Holders, amount \in Amounts : TransferUToken(from, to, amount))
              \/ SweepUToken \/ SetReserveFactor \/ ConfigInterestRate \/ VaultEarns \/ UNCHANGED vars
  BY <1>9, <1>10 DEF TransferUToken, SweepUToken, SetReserveFactor, ConfigInterestRate, VaultEarns,
                     vars, Transaction
<1> QED  BY <1>7, <1>8, <1>10 DEF Next

\* DebtsOnlyAccrue, step by step: from every state in which the lenders have a
\* part in the interest.
DebtsKeptWhileEarning ==
  [][LoansEarn /\ ~ UpdateReserveInterestRates =>
       \A l \in Loans : debt'[l] = debt[l] => OnlyTimeAdds(Owed(l), Owed(l)')]_vars

\* An update stores of each debt exactly what the views said, and time only adds
\* to it, wherever a liquidity rate of 0 does not hide the interest.
THEOREM DebtsAreKept == Spec => DebtsKeptWhileEarning
<1> DEFINE Kept == LoansEarn /\ ~ UpdateReserveInterestRates =>
                     \A l \in Loans : debt'[l] = debt[l] => OnlyTimeAdds(Owed(l), Owed(l)')
<1>1. ReserveTypeOK /\ TotalsExact /\ [Next]_vars => Kept
  BY DebtStep
<1> QED  BY <1>1, ReserveTypes, SuppliesExact, PTL DEF Spec, DebtsKeptWhileEarning

\* So in a history in which that is never so, debts only accrue.
THEOREM EarningDebtsAccrue == Spec /\ []LoansEarn => DebtsOnlyAccrue
<1> DEFINE Kept == ~ UpdateReserveInterestRates =>
                     \A loan \in Loans : debt'[loan] = debt[loan] => OnlyTimeAdds(Owed(loan), Owed(loan)')
<1>1. ReserveTypeOK /\ TotalsExact /\ LoansEarn /\ [Next]_vars => Kept
  BY DebtStep
<1> QED  BY <1>1, ReserveTypes, SuppliesExact, PTL DEF Spec, DebtsOnlyAccrue

-----------------------------------------------------------------------------
(* What rounding costs.                                                    *)

\* The quotients of two numbers that are d apart.
LEMMA NearQuotients ==
  ASSUME NEW x \in Nat, NEW y \in Nat, NEW d \in Nat, NEW unit \in Nat \ {0}, x <= y + d
  PROVE  x \div unit <= y \div unit + (d + unit - 1) \div unit
<1> DEFINE p == x \div unit
           q == y \div unit
           e == (d + unit - 1) \div unit
<1>1. d + unit - 1 \in Nat /\ unit \in Nat /\ unit > 0
  OBVIOUS
<1>2. p \in Nat /\ unit * p <= x
  BY <1>1, DivBounds
<1>3. q \in Nat /\ y < unit * q + unit
  BY <1>1, DivBounds
<1>4. e \in Nat /\ d + unit - 1 < unit * e + unit
  <2> DEFINE n == d + unit - 1
  <2>1. n \in Nat
    BY <1>1
  <2>2. e = n \div unit
    OBVIOUS
  <2> HIDE DEF n, e
  <2>3. e \in Nat /\ n < unit * e + unit
    BY <1>1, <2>1, <2>2, DivBounds
  <2> QED  BY <2>3 DEF n
<1> HIDE DEF p, q, e
<1>5. unit * p \in Nat /\ unit * q \in Nat /\ unit * e \in Nat
  BY <1>1, <1>2, <1>3, <1>4
<1>6. d <= unit * e
  BY <1>1, <1>4, <1>5
<1>7. unit * p < unit * q + unit + unit * e
  BY <1>2, <1>3, <1>5, <1>6
<1>8. unit * (q + e + 1) = unit * q + unit + unit * e
  BY <1>1, <1>3, <1>4
<1>9. p < q + e + 1
  <2>1. unit * p < unit * (q + e + 1) /\ q + e + 1 \in Nat
    BY <1>3, <1>4, <1>7, <1>8
  <2> QED  BY <1>1, <1>2, <2>1, CancelMul
<1>10. p <= q + e
  BY <1>2, <1>3, <1>4, <1>9
<1> QED  BY <1>10 DEF p, q, e

\* Whole units pass through a quotient.
LEMMA WholeUnits ==
  ASSUME NEW x \in Nat, NEW n \in Nat, NEW unit \in Nat \ {0}
  PROVE  (x + n * unit) \div unit = x \div unit + n
<1> DEFINE q == x \div unit
<1>1. q \in Nat /\ unit * q <= x /\ x < unit * q + unit
  BY DivBounds
<1> HIDE DEF q
<1>2. unit * (q + n) = unit * q + n * unit /\ n * unit \in Nat /\ unit * q \in Nat
  BY <1>1
<1>3. x + n * unit \in Nat /\ q + n \in Nat
  BY <1>1, <1>2
<1>4. unit * (q + n) <= x + n * unit /\ x + n * unit < unit * (q + n) + unit
  BY <1>1, <1>2
<1>5. (x + n * unit) \div unit = q + n
  <2> DEFINE y == x + n * unit
             p == q + n
  <2>1. y \in Nat /\ p \in Nat /\ unit \in Nat /\ unit > 0 /\ unit * p <= y /\ y < unit * p + unit
    BY <1>3, <1>4
  <2> HIDE DEF y, p
  <2>2. y \div unit = p
    BY <2>1, DivUnique
  <2> QED  BY <2>2 DEF y, p
<1> QED  BY <1>5 DEF q

\* What is added to a numerator, n units but for d, moves the quotient by n but
\* for what d is worth.
LEMMA AddedUnits ==
  ASSUME NEW x \in Nat, NEW v \in Nat, NEW n \in Nat, NEW d \in Nat, NEW unit \in Nat \ {0},
         v <= n * unit + d, n * unit <= v + d
  PROVE  /\ (x + v) \div unit <= x \div unit + n + (d + unit - 1) \div unit
         /\ x \div unit + n <= (x + v) \div unit + (d + unit - 1) \div unit
<1>1. n * unit \in Nat
  OBVIOUS
<1> DEFINE whole == x + n * unit
           real == x + v
<1>2. whole \in Nat /\ real \in Nat /\ real <= whole + d /\ whole <= real + d
  BY <1>1
<1>3. whole \div unit = x \div unit + n
  BY WholeUnits
<1> HIDE DEF whole, real
<1>4. /\ real \div unit <= whole \div unit + (d + unit - 1) \div unit
      /\ whole \div unit <= real \div unit + (d + unit - 1) \div unit
  BY <1>2, NearQuotients
<1> QED  BY <1>3, <1>4 DEF real

\* An amount that is scaled with an index and added to a balance, or taken from
\* it, moves what the balance is worth by the amount but for half an index.
LEMMA ScaledAmount ==
  ASSUME NEW balance \in Nat, NEW amount \in Nat, NEW index \in Nat \ {0}
  PROVE  /\ RayMul(balance + RayDiv(amount, index), index)
              <= RayMul(balance, index) + amount + ScalingDust(index)
         /\ RayMul(balance, index) + amount
              <= RayMul(balance + RayDiv(amount, index), index) + ScalingDust(index)
<1> DEFINE half == RAY \div 2
           halfIndex == index \div 2
           moved == RayDiv(amount, index)
           v == moved * index
           x == balance * index + half
<1>1. RAY \in Nat \ {0} /\ half \in Nat
  BY UnitsAssumption
<1>2. halfIndex \in Nat /\ 2 * halfIndex <= index /\ index <= 2 * halfIndex + 1
  OBVIOUS
<1>3. amount * RAY \in Nat /\ balance * index \in Nat
  BY <1>1
<1>4. moved \in Nat /\ index * moved <= amount * RAY + halfIndex /\ amount * RAY + halfIndex < index * moved + index
  <2> DEFINE n == amount * RAY + halfIndex
  <2>1. n \in Nat /\ moved = n \div index
    BY <1>2, <1>3 DEF RayDiv, UnitDiv
  <2> HIDE DEF n, moved
  <2>2. moved \in Nat /\ index * moved <= n /\ n < index * moved + index
    BY <2>1, DivBounds
  <2> QED  BY <2>2 DEF n
<1> HIDE DEF moved
<1>5. v = index * moved /\ v \in Nat
  BY <1>4
<1>6. x \in Nat
  BY <1>1, <1>3
<1>7. (balance + moved) * index + half = x + v
  BY <1>1, <1>3, <1>4
<1> HIDE DEF v, halfIndex, half
<1>8. v <= amount * RAY + halfIndex /\ amount * RAY <= v + halfIndex
  BY <1>2, <1>3, <1>4, <1>5
<1> HIDE DEF x
<1>9. /\ (x + v) \div RAY <= x \div RAY + amount + (halfIndex + RAY - 1) \div RAY
      /\ x \div RAY + amount <= (x + v) \div RAY + (halfIndex + RAY - 1) \div RAY
  BY <1>1, <1>2, <1>5, <1>6, <1>8, AddedUnits
<1>10. RayMul(balance + moved, index) = (x + v) \div RAY
  BY <1>7 DEF RayMul, UnitMul, half
<1>11. RayMul(balance, index) = x \div RAY
  BY DEF RayMul, UnitMul, x, half
<1> QED  BY <1>9, <1>10, <1>11 DEF ScalingDust, halfIndex, moved

\* What the vault holds after a deposit is worth the amount more, but for less
\* than a share.
LEMMA VaultTakesIn ==
  ASSUME ReserveTypeOK, NEW amount \in Nat
  PROVE  /\ WadMul(shares + VaultIssues(amount), price) <= AvailableLiquidity + amount + VaultDust
         /\ AvailableLiquidity + amount <= WadMul(shares + VaultIssues(amount), price) + VaultDust
<1> DEFINE half == WAD \div 2
           issued == VaultIssues(amount)
           v == issued * price
           x == shares * price + half
<1>1. /\ WAD \in Nat \ {0} /\ half \in Nat /\ price \in Nat \ {0} /\ shares \in Nat
      /\ shares * price \in Nat /\ amount * WAD \in Nat
  BY UnitsAssumption, ReserveAssumption DEF ReserveTypeOK
<1>2. issued \in Nat /\ price * issued <= amount * WAD /\ amount * WAD < price * issued + price
  <2> DEFINE n == amount * WAD
  <2>1. n \in Nat /\ issued = n \div price
    BY <1>1 DEF VaultIssues
  <2> HIDE DEF n, issued
  <2>2. issued \in Nat /\ price * issued <= n /\ n < price * issued + price
    BY <1>1, <2>1, DivBounds
  <2> QED  BY <2>2 DEF n
<1> HIDE DEF issued
<1>3. v = price * issued /\ v \in Nat /\ price - 1 \in Nat /\ x \in Nat
  BY <1>1, <1>2
<1>4. (shares + issued) * price + half = x + v
  BY <1>1, <1>2
<1> HIDE DEF v, half
<1>5. v <= amount * WAD + (price - 1) /\ amount * WAD <= v + (price - 1)
  BY <1>1, <1>2, <1>3
<1> HIDE DEF x
<1>6. /\ (x + v) \div WAD <= x \div WAD + amount + ((price - 1) + WAD - 1) \div WAD
      /\ x \div WAD + amount <= (x + v) \div WAD + ((price - 1) + WAD - 1) \div WAD
  BY <1>1, <1>3, <1>5, AddedUnits
<1>7. (price - 1) + WAD - 1 = price + WAD - 2
  BY <1>1
<1>8. WadMul(shares + issued, price) = (x + v) \div WAD /\ AvailableLiquidity = x \div WAD
  BY <1>4 DEF WadMul, UnitMul, AvailableLiquidity, x, half
<1> QED  BY <1>6, <1>7, <1>8 DEF VaultDust, issued

\* What it holds after a withdrawal is worth the amount less, but for less than
\* a share; and what it pays with what it keeps is what it held but for a wei.
LEMMA VaultPaysOut ==
  ASSUME ReserveTypeOK, NEW amount \in Nat, shares >= SharesFor(amount)
  PROVE  /\ WadMul(shares - SharesFor(amount), price) + amount <= AvailableLiquidity + VaultDust
         /\ AvailableLiquidity <= WadMul(shares - SharesFor(amount), price) + amount + VaultDust
         /\ AvailableLiquidity <= WadMul(shares - SharesFor(amount), price) + VaultPays(amount) + 1
<1> DEFINE half == WAD \div 2
           halfPrice == price \div 2
           sold == SharesFor(amount)
           kept == shares - sold
           v == sold * price
           x == kept * price + half
<1>1. /\ WAD \in Nat \ {0} /\ half \in Nat /\ price \in Nat \ {0} /\ shares \in Nat /\ amount * WAD \in Nat
      /\ halfPrice \in Nat /\ 2 * halfPrice <= price /\ price <= 2 * halfPrice + 1
  BY UnitsAssumption, ReserveAssumption DEF ReserveTypeOK
<1>2. /\ sold \in Nat /\ price * sold <= amount * WAD + halfPrice
      /\ amount * WAD + halfPrice < price * sold + price
  <2> DEFINE n == amount * WAD + halfPrice
  <2>1. n \in Nat /\ sold = n \div price
    BY <1>1 DEF SharesFor, WadDiv, UnitDiv
  <2> HIDE DEF n, sold
  <2>2. sold \in Nat /\ price * sold <= n /\ n < price * sold + price
    BY <1>1, <2>1, DivBounds
  <2> QED  BY <2>2 DEF n
<1>3. sold <= shares
  OBVIOUS
<1> HIDE DEF sold
<1>4. kept \in Nat /\ shares = kept + sold
  BY <1>1, <1>2, <1>3
<1> HIDE DEF kept
<1>5. v = price * sold /\ v \in Nat /\ price - 1 \in Nat /\ kept * price \in Nat /\ x \in Nat
  BY <1>1, <1>2, <1>4
<1>6. shares * price + half = x + v
  <2>1. shares * price = kept * price + sold * price
    BY <1>1, <1>2, <1>4
  <2> QED  BY <2>1, <1>1, <1>5
<1> HIDE DEF v, half, halfPrice
<1>7. v <= amount * WAD + (price - 1) /\ amount * WAD <= v + (price - 1)
  BY <1>1, <1>2, <1>5
<1> HIDE DEF x
<1>8. /\ (x + v) \div WAD <= x \div WAD + amount + ((price - 1) + WAD - 1) \div WAD
      /\ x \div WAD + amount <= (x + v) \div WAD + ((price - 1) + WAD - 1) \div WAD
  BY <1>1, <1>5, <1>7, AddedUnits
<1>9. (price - 1) + WAD - 1 = price + WAD - 2
  BY <1>1
<1>10. WadMul(kept, price) = x \div WAD /\ AvailableLiquidity = (x + v) \div WAD
  BY <1>6 DEF WadMul, UnitMul, AvailableLiquidity, x, half
<1>11. (x + v) \div WAD <= x \div WAD + v \div WAD + 1
  <2> DEFINE paid == v \div WAD
             rest == v - WAD * paid
  <2>1. paid \in Nat /\ WAD * paid <= v /\ v < WAD * paid + WAD
    BY <1>1, <1>5, DivBounds
  <2> HIDE DEF paid
  <2>2. WAD * paid \in Nat /\ paid * WAD = WAD * paid
    BY <1>1, <2>1
  <2>3. v <= paid * WAD + (WAD - 1) /\ paid * WAD <= v + (WAD - 1) /\ WAD - 1 \in Nat
    BY <1>1, <1>5, <2>1, <2>2
  <2>4. (x + v) \div WAD <= x \div WAD + paid + ((WAD - 1) + WAD - 1) \div WAD
    BY <1>1, <1>5, <2>1, <2>3, AddedUnits
  <2>5. ((WAD - 1) + WAD - 1) \div WAD <= 1
    <3> DEFINE n == (WAD - 1) + WAD - 1
               q == n \div WAD
    <3>1. n \in Nat /\ n < WAD * 2
      BY <1>1
    <3> HIDE DEF n
    <3>2. q \in Nat /\ WAD * q <= n
      BY <1>1, <3>1, DivBounds
    <3> HIDE DEF q
    <3>3. WAD * q < WAD * 2
      BY <1>1, <3>1, <3>2
    <3>4. q < 2
      BY <1>1, <3>2, <3>3, CancelMul
    <3> QED  BY <3>2, <3>4 DEF q, n
  <2>6. (x + v) \div WAD \in Nat /\ x \div WAD \in Nat
    BY <1>1, <1>5, DivBounds
  <2> DEFINE one == ((WAD - 1) + WAD - 1) \div WAD
  <2>7. one \in Nat
    BY <1>1, DivBounds
  <2> HIDE DEF one
  <2>8. (x + v) \div WAD <= x \div WAD + paid + one /\ one <= 1
    BY <2>4, <2>5 DEF one
  <2> QED  BY <2>1, <2>6, <2>7, <2>8 DEF paid
<1>12. VaultPays(amount) = v \div WAD
  BY DEF VaultPays, v, sold
<1> QED  BY <1>8, <1>9, <1>10, <1>11, <1>12 DEF VaultDust, kept, sold

-----------------------------------------------------------------------------
(* The rates fit the liquidity.                                            *)

\* What the vault holds, and its dust, are naturals.
LEMMA VaultNat ==
  ASSUME ReserveTypeOK
  PROVE  AvailableLiquidity \in Nat /\ VaultDust \in Nat
<1>1. WAD \in Nat \ {0} /\ price \in Nat \ {0} /\ shares \in Nat
  BY ReserveAssumption, UnitsAssumption DEF ReserveTypeOK
<1>2. price + WAD - 2 \in Nat
  BY <1>1
<1> QED  BY <1>1, <1>2, Rounded, DivBounds DEF AvailableLiquidity, VaultDust

\* Two numbers that are at most some dust apart.
LEMMA Apart ==
  ASSUME NEW held \in Nat, NEW added \in Nat, NEW taken \in Nat, NEW left \in Nat, NEW dust \in Nat,
         taken <= held + added,
         left + taken <= held + added + dust, held + added <= left + taken + dust
  PROVE  held + added - taken \in Nat /\ held + added - taken \in left - dust .. left + dust
OBVIOUS

\* Rates from a liquidity that is that of the next state, but for the dust of
\* the vault, fit the next state.
LEMMA RatesFitNext ==
  ASSUME ReserveTypeOK, Transaction, NEW added \in Nat, NEW taken \in Nat,
         reserve' = WithRates(UpdatedIndexes, debtSupply', added, taken),
         NEW left \in Nat, left = AvailableLiquidity',
         taken <= AvailableLiquidity + added,
         left + taken <= AvailableLiquidity + added + VaultDust,
         AvailableLiquidity + added <= left + taken + VaultDust
  PROVE  RatesFit'
<1> DEFINE available == AvailableLiquidity + added - taken
           index == UpdatedIndexes.variableBorrowIndex
           totalDebt == RayMul(debtSupply', index)
<1>1. AvailableLiquidity \in Nat /\ VaultDust \in Nat
  BY VaultNat
<1>2. strategy' = strategy /\ reserveFactor' = reserveFactor /\ price' = price
  BY DEF Transaction, settings
<1>3. VaultDust' = VaultDust
  BY <1>2 DEF VaultDust
<1>4. available \in Nat /\ available \in left - VaultDust .. left + VaultDust
  BY <1>1, Apart
<1>5. reserve' = [UpdatedIndexes EXCEPT
                    !.currentLiquidityRate = LiquidityRate(available, totalDebt),
                    !.currentVariableBorrowRate = BorrowRate(Utilization(available, totalDebt))]
  BY DEF WithRates
<1>6. UpdatedIndexes \in Indexes
  BY UpdateStoresIncome
<1> HIDE DEF available, index
<1>7. /\ reserve'.currentLiquidityRate = LiquidityRate(available, totalDebt)
      /\ reserve'.currentVariableBorrowRate = BorrowRate(Utilization(available, totalDebt))
      /\ reserve'.variableBorrowIndex = index
  BY <1>5, <1>6 DEF Indexes, index
<1> QED
  BY <1>2, <1>3, <1>4, <1>7
  DEF RatesFit, LiquidityRate, OverallBorrowRate, Utilization, BorrowRate

\* Those of each operation of the pool do.
LEMMA OperationsFit ==
  ASSUME ReserveTypeOK, PoolOperation
  PROVE  RatesFit'
<1>1. /\ Amounts \subseteq Nat /\ AvailableLiquidity \in Nat /\ VaultDust \in Nat
      /\ shares \in Nat /\ price \in Nat /\ 0 \in Nat
  BY VaultNat, ReserveAssumption DEF ReserveTypeOK
<1>2. ASSUME NEW amount \in Nat, Transaction, DepositReserves(amount),
             reserve' = WithRates(UpdatedIndexes, debtSupply', amount, 0)
      PROVE  RatesFit'
  <2> DEFINE left == WadMul(shares + VaultIssues(amount), price)
  <2>1. left = AvailableLiquidity'
    BY <1>2 DEF AvailableLiquidity, DepositReserves, Transaction
  <2>2. left \in Nat
    BY <1>1, MoneyType, Rounded
  <2>3. /\ left + 0 <= AvailableLiquidity + amount + VaultDust
        /\ AvailableLiquidity + amount <= left + 0 + VaultDust
        /\ 0 <= AvailableLiquidity + amount
    BY <1>1, <2>2, VaultTakesIn
  <2> HIDE DEF left
  <2> QED  BY <1>1, <1>2, <2>1, <2>2, <2>3, RatesFitNext
<1>3. ASSUME NEW amount \in Nat, NEW paid, Transaction, WithdrawReserves(amount, paid),
             amount <= AvailableLiquidity,
             reserve' = WithRates(UpdatedIndexes, debtSupply', 0, amount)
      PROVE  RatesFit'
  <2> DEFINE left == WadMul(shares - SharesFor(amount), price)
  <2>1. left = AvailableLiquidity' /\ shares >= SharesFor(amount)
    BY <1>3 DEF AvailableLiquidity, WithdrawReserves, Transaction
  <2>2. left \in Nat
    <3>1. WAD \in Nat /\ price # 0
      BY UnitsAssumption, ReserveAssumption DEF ReserveTypeOK
    <3>2. SharesFor(amount) \in Nat
      BY <1>1, <3>1, Rounded DEF SharesFor
    <3>3. shares - SharesFor(amount) \in Nat
      BY <1>1, <2>1, <3>2
    <3> QED  BY <1>1, <3>3, Rounded
  <2>3. /\ left + amount <= AvailableLiquidity + 0 + VaultDust
        /\ AvailableLiquidity + 0 <= left + amount + VaultDust
        /\ amount <= AvailableLiquidity + 0
    BY <1>1, <1>3, <2>1, <2>2, VaultPaysOut
  <2> HIDE DEF left
  <2> QED  BY <1>1, <1>3, <2>1, <2>2, <2>3, RatesFitNext
<1>4. ASSUME NEW user \in Lenders, NEW amount \in Amounts, Deposit(user, amount)
      PROVE  RatesFit'
  <2>1. debtSupply' = debtSupply
    BY <1>4 DEF Deposit, debtTokens
  <2> QED  BY <1>1, <1>2, <1>4, <2>1 DEF Deposit
<1>5. ASSUME NEW user \in Holders, NEW amount \in Nat, Withdraw(user, amount)
      PROVE  RatesFit'
  <2>1. debtSupply' = debtSupply
    BY <1>5 DEF Withdraw, debtTokens
  <2> QED  BY <1>3, <1>5, <2>1 DEF Withdraw
<1>6. ASSUME NEW l \in Loans, NEW amount \in Amounts, Borrow(l, amount)
      PROVE  RatesFit'
  BY <1>1, <1>3, <1>6 DEF Borrow
<1>7. ASSUME NEW l \in Loans, NEW amount \in Nat, Settle(l, amount, amount), DepositReserves(amount)
      PROVE  RatesFit'
  BY <1>2, <1>7 DEF Settle
<1>8. ASSUME NEW l \in Loans, NEW amount \in Amounts, Repay(l, amount)
      PROVE  RatesFit'
  <2> DEFINE repaid == IF amount < OwedNow(l) THEN amount ELSE OwedNow(l)
  <2>1. repaid \in Nat
    BY <1>1, OwedNat
  <2>2. Settle(l, repaid, repaid) /\ DepositReserves(repaid)
    BY <1>8 DEF Repay
  <2> HIDE DEF repaid
  <2> QED  BY <1>7, <2>1, <2>2
<1>9. ASSUME NEW l \in Loans, Liquidate(l)
      PROVE  RatesFit'
  BY <1>7, <1>9, OwedNat DEF Liquidate
<1>10. ASSUME NEW l \in Loans, Auction(l)
       PROVE  RatesFit'
  <2>1. Transaction /\ reserve' = WithRates(UpdatedIndexes, debtSupply', 0, 0)
    BY <1>10 DEF Auction, debtTokens
  <2>2. AvailableLiquidity' = AvailableLiquidity
    BY <1>10, <2>1 DEF Auction, money, AvailableLiquidity, Transaction
  <2>3. \E left \in Nat : /\ left = AvailableLiquidity'
                          /\ left + 0 <= AvailableLiquidity + 0 + VaultDust
                          /\ AvailableLiquidity + 0 <= left + 0 + VaultDust
                          /\ 0 <= AvailableLiquidity + 0
    BY <1>1, <2>2
  <2> QED  BY <1>1, <2>1, <2>3, RatesFitNext
<1>11. \A user \in Holders : BalanceOf(user) \in Nat
  BY UpdateStoresIncome, Rounded DEF BalanceOf, ReserveTypeOK, Indexes
<1> QED  BY <1>1, <1>4, <1>5, <1>6, <1>8, <1>9, <1>10, <1>11 DEF PoolOperation

\* The rates that an operation of the pool stores, though computed before its
\* transfers, are those of the liquidity it leaves, but for less than a share.
THEOREM RatesFollow == Spec => RatesFollowLiquidity
<1>1. ReserveTypeOK /\ [Next]_vars => (PoolOperation => RatesFit')
  BY OperationsFit
<1> QED  BY <1>1, ReserveTypes, PTL DEF Spec, RatesFollowLiquidity

-----------------------------------------------------------------------------
(* What an operation does to the value of the reserve.                     *)

\* An update that is not due mints nothing.
LEMMA FreshFee == ReserveTypeOK /\ Elapsed = 0 => MintToTreasury(UpdatedIndexes) = 0
<1> SUFFICES ASSUME ReserveTypeOK, Elapsed = 0
             PROVE  MintToTreasury(UpdatedIndexes) = 0
  OBVIOUS
<1> DEFINE index == reserve.variableBorrowIndex
           income == UpdatedIndexes.liquidityIndex
<1>1. index \in Nat /\ debtSupply \in Nat /\ reserveFactor \in Nat
  BY ReserveAssumption, UnitsAssumption DEF ReserveTypeOK, Indexes
<1>2. income \in Nat \ {0}
  BY UpdateStoresIncome DEF Indexes
<1>3. UpdatedIndexes.variableBorrowIndex = index
  <2>1. CompoundedInterest(reserve.currentVariableBorrowRate) = RAY
    BY CompoundedIs
  <2>2. RayMul(RAY, index) = index
    BY <1>1, RayMulOne
  <2> QED  BY <2>1, <2>2 DEF UpdatedIndexes, ReserveTypeOK, Indexes
<1>4. RayMul(debtSupply, index) - RayMul(debtSupply, index) = 0
  <2>1. RayMul(debtSupply, index) \in Nat
    BY <1>1, Rounded
  <2> QED  BY <2>1
<1> HIDE DEF index, income
<1>5. PercentMul(0, reserveFactor) = 0
  <2> DEFINE half == PERCENTAGE_FACTOR \div 2
  <2>1. PERCENTAGE_FACTOR \in Nat /\ PERCENTAGE_FACTOR > 0
    BY UnitsAssumption
  <2>2. half \in Nat /\ half < PERCENTAGE_FACTOR /\ 0 * reserveFactor + half = half
    BY <1>1, <2>1
  <2> HIDE DEF half
  <2>3. half \div PERCENTAGE_FACTOR = 0
    BY <2>1, <2>2, DivUnique
  <2> QED  BY <2>2, <2>3 DEF PercentMul, UnitMul, half
<1>6. RayDiv(0, income) = 0
  <2> DEFINE half == income \div 2
  <2>1. RAY \in Nat /\ income > 0
    BY <1>2, UnitsAssumption
  <2>2. half \in Nat /\ half < income /\ 0 * RAY + half = half
    BY <1>2, <2>1
  <2> HIDE DEF half
  <2>3. half \div income = 0
    BY <1>2, <2>1, <2>2, DivUnique
  <2> QED  BY <2>2, <2>3 DEF RayDiv, UnitDiv, half
<1> QED  BY <1>3, <1>4, <1>5, <1>6 DEF MintToTreasury, income, index

\* Then the claims are the stored shares at the index.
LEMMA FreshClaims == ReserveTypeOK /\ Elapsed = 0 => Claims = RayMul(supply, NormalizedIncome)
<1> SUFFICES ASSUME ReserveTypeOK, Elapsed = 0
             PROVE  Claims = RayMul(supply, NormalizedIncome)
  OBVIOUS
<1>1. MintToTreasury(UpdatedIndexes) = 0
  BY FreshFee
<1>2. supply \in Nat
  BY DEF ReserveTypeOK
<1>3. supply + 0 = supply
  BY <1>2
<1> QED  BY <1>1, <1>3 DEF Claims

LEMMA FreshClaimsNext ==
  (ReserveTypeOK /\ Elapsed = 0 => Claims = RayMul(supply, NormalizedIncome))'
BY FreshClaims, PTL

\* The claims of the lenders and the value of the loans, before an operation and
\* after it, at the indexes that its update stores.
ClaimsOf(total) == RayMul(total, NormalizedIncome)
DebtsOf(total) == RayMul(total, UpdatedIndexes.variableBorrowIndex)

LEMMA SurplusBefore ==
  ASSUME ReserveTypeOK, LoansEarn
  PROVE  /\ Surplus = AvailableLiquidity + idle + DebtsOf(debtSupply) + adapter
                        - ClaimsOf(supply + MintToTreasury(UpdatedIndexes))
<1>1. RayMul(debtSupply, NormalizedDebt) = DebtsOf(debtSupply)
  <2>1. CASE debtSupply = 0
    <3>1. NormalizedDebt \in Nat /\ UpdatedIndexes.variableBorrowIndex \in Nat
      BY DebtViewNat, UpdateStoresIncome DEF Indexes
    <3> QED  BY <2>1, <3>1, RayMulZero DEF DebtsOf
  <2>2. CASE debtSupply # 0
    BY <2>2, UpdateStoresDebt DEF DebtsOf
  <2> QED  BY <2>1, <2>2
<1> QED  BY <1>1 DEF Surplus, Backing, Claims, ClaimsOf

LEMMA SurplusAfter ==
  ASSUME ReserveTypeOK, ReserveTypeOK', Transaction, Updates
  PROVE  Surplus' = AvailableLiquidity' + idle' + DebtsOf(debtSupply') + adapter' - ClaimsOf(supply')
<1>1. now' = now /\ reserve'.lastUpdateTimestamp = now /\ now \in Nat
  BY DEF Transaction, Updates, ReserveTypeOK
<1>2. Elapsed' = 0
  BY <1>1 DEF Elapsed
<1>5. Claims' = RayMul(supply', NormalizedIncome')
  BY <1>2, FreshClaimsNext
<1>6. Backing' = AvailableLiquidity' + idle' + RayMul(debtSupply', NormalizedDebt')
  BY DEF Backing
<1> QED  BY <1>5, <1>6, FreshDebt DEF Surplus, ClaimsOf, DebtsOf

\* All of them are natural numbers.
LEMMA ValuesNat ==
  ASSUME ReserveTypeOK
  PROVE  /\ AvailableLiquidity \in Nat /\ idle \in Nat /\ adapter \in Nat /\ shares \in Nat
         /\ \A n \in Nat : ClaimsOf(n) \in Nat /\ DebtsOf(n) \in Nat
         /\ NormalizedIncome \in Nat \ {0} /\ UpdatedIndexes.variableBorrowIndex \in Nat \ {0}
         /\ supply + MintToTreasury(UpdatedIndexes) \in Nat /\ debtSupply \in Nat
<1>1. NormalizedIncome \in Nat \ {0} /\ UpdatedIndexes.variableBorrowIndex \in Nat \ {0}
  BY UpdateStoresIncome DEF Indexes
<1>2. supply \in Nat /\ debtSupply \in Nat /\ idle \in Nat /\ adapter \in Nat /\ shares \in Nat
  BY DEF ReserveTypeOK
<1>3. AvailableLiquidity \in Nat /\ MintToTreasury(UpdatedIndexes) \in Nat
  BY VaultNat, FeeNat
<1>4. ASSUME NEW n \in Nat  PROVE  ClaimsOf(n) \in Nat /\ DebtsOf(n) \in Nat
  BY <1>1, Rounded DEF ClaimsOf, DebtsOf
<1> QED  BY <1>1, <1>2, <1>3, <1>4

\* The dust of an index grows with it.
LEMMA ScalingDustGrows ==
  ASSUME NEW i \in Nat, NEW j \in Nat, i <= j
  PROVE  ScalingDust(i) \in Nat /\ ScalingDust(j) \in Nat /\ ScalingDust(i) <= ScalingDust(j)
<1>1. RAY \in Nat /\ RAY > 0
  BY UnitsAssumption
<1>2. i \div 2 \in Nat /\ j \div 2 \in Nat /\ i \div 2 <= j \div 2
  BY DivMonotone, DivBounds
<1> DEFINE m == i \div 2 + RAY - 1
           n == j \div 2 + RAY - 1
<1>3. m \in Nat /\ n \in Nat /\ m <= n
  <2> DEFINE p == i \div 2
             q == j \div 2
  <2>1. p \in Nat /\ q \in Nat /\ p <= q
    BY <1>2
  <2>2. m = p + RAY - 1 /\ n = q + RAY - 1
    OBVIOUS
  <2> HIDE DEF p, q, m, n
  <2> QED  BY <1>1, <2>1, <2>2
<1> HIDE DEF m, n
<1>4. m \div RAY \in Nat /\ n \div RAY \in Nat /\ m \div RAY <= n \div RAY
  BY <1>1, <1>3, DivBounds, DivMonotone
<1> QED  BY <1>4 DEF ScalingDust, m, n

LEMMA DustNat ==
  ASSUME NEW index \in Nat
  PROVE  ScalingDust(index) \in Nat
<1>1. index <= index
  OBVIOUS
<1> QED  BY <1>1, ScalingDustGrows

\* The dust of an operation covers that of the vault and of either index.
LEMMA DustCovers ==
  ASSUME ReserveTypeOK, ReserveTypeOK', Transaction, Updates
  PROVE  /\ OperationDust' \in Nat
         /\ OperationDust' >= VaultDust + 1 + ScalingDust(NormalizedIncome)
         /\ OperationDust' >= VaultDust + 1 + ScalingDust(UpdatedIndexes.variableBorrowIndex)
<1> DEFINE i == NormalizedIncome
           j == UpdatedIndexes.variableBorrowIndex
           higher == IF i > j THEN i ELSE j
<1>1. i \in Nat /\ j \in Nat
  BY ValuesNat
<1>2. VaultDust \in Nat /\ VaultDust' = VaultDust
  BY VaultNat DEF VaultDust, Transaction
<1>3. OperationDust' = VaultDust' + 1 + ScalingDust(higher)
  BY FreshDebt DEF OperationDust
<1> HIDE DEF i, j
<1>4. higher \in Nat /\ i <= higher /\ j <= higher
  BY <1>1
<1> HIDE DEF higher
<1>5. /\ ScalingDust(higher) \in Nat /\ ScalingDust(i) \in Nat /\ ScalingDust(j) \in Nat
      /\ ScalingDust(i) <= ScalingDust(higher) /\ ScalingDust(j) <= ScalingDust(higher)
  BY <1>1, <1>4, ScalingDustGrows
<1> QED  BY <1>2, <1>3, <1>5 DEF i, j

\* Where the parts of the surplus lose no more than an operation's dust, the
\* surplus does not.
LEMMA ValueStep ==
  ASSUME ReserveTypeOK, ReserveTypeOK', LoansEarn, Transaction, Updates,
         NEW slack \in Nat, slack <= OperationDust',
         AvailableLiquidity + idle + DebtsOf(debtSupply) + adapter + ClaimsOf(supply')
           <= AvailableLiquidity' + idle' + DebtsOf(debtSupply') + adapter'
                + ClaimsOf(supply + MintToTreasury(UpdatedIndexes)) + slack
  PROVE  Surplus' + OperationDust' >= Surplus
<1> DEFINE held == AvailableLiquidity + idle + DebtsOf(debtSupply)
           left == AvailableLiquidity' + idle' + DebtsOf(debtSupply')
           claimed == ClaimsOf(supply + MintToTreasury(UpdatedIndexes))
           due == ClaimsOf(supply')
           dust == OperationDust'
<1>1. Surplus = held + (adapter - claimed)
  BY SurplusBefore
<1>2. Surplus' = left + (adapter' - due)
  BY SurplusAfter
<1>3. held \in Nat /\ claimed \in Nat /\ adapter \in Nat
  BY ValuesNat
<1>4. AvailableLiquidity' \in Nat
  <2>1. shares' \in Nat /\ price' \in Nat
    BY ReserveAssumption DEF ReserveTypeOK
  <2> QED  BY <2>1, Rounded DEF AvailableLiquidity
<1>5. left \in Nat /\ due \in Nat /\ adapter' \in Nat
  <2>1. /\ idle' \in Nat /\ adapter' \in Nat /\ supply' \in Nat /\ debtSupply' \in Nat
    BY DEF ReserveTypeOK
  <2> QED  BY <1>4, <2>1, ValuesNat
<1>6. dust \in Nat /\ slack <= dust
  BY DustCovers
<1>7. held + adapter + due <= left + adapter' + claimed + slack
  OBVIOUS
<1> HIDE DEF held, left, claimed, due, dust
<1>8. (left + (adapter' - due)) + dust >= held + (adapter - claimed)
  <2> DEFINE kept == adapter'
  <2>1. kept \in Nat /\ held + adapter + due <= left + kept + claimed + slack
    BY <1>5, <1>7
  <2> HIDE DEF kept
  <2>2. held + adapter + due <= left + kept + claimed + dust
    BY <1>3, <1>5, <1>6, <2>1
  <2>3. (left + (kept - due)) + dust >= held + (adapter - claimed)
    BY <1>3, <1>5, <1>6, <2>1, <2>2
  <2> QED  BY <2>3 DEF kept
<1> QED  BY <1>1, <1>2, <1>8 DEF dust

\* A deposit.
LEMMA DepositValue ==
  ASSUME ReserveTypeOK, ReserveTypeOK', LoansEarn, NEW user \in Lenders, NEW amount \in Amounts,
         Deposit(user, amount)
  PROVE  Surplus' + OperationDust' >= Surplus
<1> DEFINE total == supply + MintToTreasury(UpdatedIndexes)
           held == AvailableLiquidity
           left == AvailableLiquidity'
           i == NormalizedIncome
           slack == ScalingDust(i) + VaultDust
<1>1. Transaction /\ Updates
  BY OperationsUpdate DEF PoolOperation
<1>2. /\ amount \in Nat /\ total \in Nat /\ held \in Nat /\ i \in Nat \ {0} /\ VaultDust \in Nat
      /\ ScalingDust(i) \in Nat
  BY ReserveAssumption, ValuesNat, VaultNat, DustNat
<1>3. /\ supply' = total + RayDiv(amount, i)
      /\ shares' = shares + VaultIssues(amount)
      /\ idle' = idle /\ adapter' = adapter /\ debtSupply' = debtSupply /\ price' = price
  BY UpdateStoresIncome DEF Deposit, UTokensMove, DepositReserves, debtTokens, Transaction
<1>4. ClaimsOf(supply') <= ClaimsOf(total) + amount + ScalingDust(i)
  BY <1>2, <1>3, ScaledAmount DEF ClaimsOf
<1>5. held + amount <= left + VaultDust
  BY <1>2, <1>3, VaultTakesIn DEF AvailableLiquidity
<1>6. /\ ClaimsOf(supply') \in Nat /\ ClaimsOf(total) \in Nat /\ left \in Nat
      /\ DebtsOf(debtSupply) \in Nat /\ idle \in Nat /\ adapter \in Nat
  <2>1. supply' \in Nat /\ shares' \in Nat /\ price' \in Nat
    BY ReserveAssumption DEF ReserveTypeOK
  <2> QED  BY <1>2, <2>1, ValuesNat, Rounded DEF AvailableLiquidity
<1>7. slack \in Nat /\ slack <= OperationDust'
  BY <1>1, <1>2, DustCovers
<1> HIDE DEF i, total
<1>8. held + idle + DebtsOf(debtSupply) + adapter + ClaimsOf(supply')
        <= left + idle' + DebtsOf(debtSupply') + adapter' + ClaimsOf(total) + slack
  <2> HIDE DEF held, left
  <2> QED  BY <1>2, <1>3, <1>4, <1>5, <1>6
<1> QED  BY <1>1, <1>7, <1>8, ValueStep DEF total

\* A withdrawal.
LEMMA WithdrawValue ==
  ASSUME ReserveTypeOK, ReserveTypeOK', LoansEarn, NEW user \in Holders, NEW amount \in Nat,
         amount \in Amounts \union {BalanceOf(user)}, Withdraw(user, amount)
  PROVE  Surplus' + OperationDust' >= Surplus
<1> DEFINE total == supply + MintToTreasury(UpdatedIndexes)
           held == AvailableLiquidity
           left == AvailableLiquidity'
           i == NormalizedIncome
           slack == ScalingDust(i) + 1
<1>1. Transaction /\ Updates
  BY OperationsUpdate DEF PoolOperation
<1>2. /\ total \in Nat /\ held \in Nat /\ i \in Nat \ {0} /\ VaultDust \in Nat
      /\ ScalingDust(i) \in Nat
  BY ValuesNat, VaultNat, DustNat
<1>3. RayDiv(amount, i) \in Nat /\ VaultPays(amount) \in Nat
  BY <1>2, Rounded, MoneyType
<1>4. /\ supply' = total + (-RayDiv(amount, i))
      /\ shares' = shares - SharesFor(amount) /\ shares >= SharesFor(amount)
      /\ idle' = idle + VaultPays(amount) - amount
      /\ adapter' = adapter /\ debtSupply' = debtSupply /\ price' = price
  BY UpdateStoresIncome DEF Withdraw, UTokensMove, WithdrawReserves, debtTokens, Transaction
<1>5. /\ ClaimsOf(supply') \in Nat /\ ClaimsOf(total) \in Nat /\ left \in Nat /\ supply' \in Nat
      /\ DebtsOf(debtSupply) \in Nat /\ idle \in Nat /\ idle' \in Nat /\ adapter \in Nat
  <2>1. supply' \in Nat /\ shares' \in Nat /\ price' \in Nat /\ idle' \in Nat
    BY ReserveAssumption DEF ReserveTypeOK
  <2> QED  BY <1>2, <2>1, ValuesNat, Rounded DEF AvailableLiquidity
<1>6. total = supply' + RayDiv(amount, i)
  BY <1>2, <1>3, <1>4, <1>5
<1>7. ClaimsOf(supply') + amount <= ClaimsOf(total) + ScalingDust(i)
  BY <1>2, <1>5, <1>6, ScaledAmount DEF ClaimsOf
<1>8. held <= left + VaultPays(amount) + 1
  BY <1>4, VaultPaysOut DEF AvailableLiquidity
<1>9. slack \in Nat /\ slack <= OperationDust'
  BY <1>1, <1>2, DustCovers
<1> HIDE DEF i, total
<1>10. held + idle + DebtsOf(debtSupply) + adapter + ClaimsOf(supply')
         <= left + idle' + DebtsOf(debtSupply') + adapter' + ClaimsOf(total) + slack
  <2> HIDE DEF held, left
  <2>1. idle' + amount = idle + VaultPays(amount)
    BY <1>3, <1>4, <1>5
  <2> QED  BY <1>2, <1>3, <1>4, <1>5, <1>7, <1>8, <2>1
<1> QED  BY <1>1, <1>9, <1>10, ValueStep DEF total

\* A loan.
LEMMA BorrowValue ==
  ASSUME ReserveTypeOK, ReserveTypeOK', LoansEarn, NEW l \in Loans, NEW amount \in Amounts,
         Borrow(l, amount)
  PROVE  Surplus' + OperationDust' >= Surplus
<1> DEFINE total == supply + MintToTreasury(UpdatedIndexes)
           held == AvailableLiquidity
           left == AvailableLiquidity'
           j == UpdatedIndexes.variableBorrowIndex
           slack == ScalingDust(j) + VaultDust
<1>1. Transaction /\ Updates
  BY OperationsUpdate DEF PoolOperation
<1>2. /\ total \in Nat /\ held \in Nat /\ j \in Nat \ {0} /\ VaultDust \in Nat
      /\ ScalingDust(j) \in Nat /\ amount \in Nat
  BY ReserveAssumption, ValuesNat, VaultNat, DustNat
<1>3. VaultPays(amount) \in Nat
  BY <1>2, MoneyType
<1>4. /\ supply' = total + 0
      /\ shares' = shares - SharesFor(amount) /\ shares >= SharesFor(amount)
      /\ idle' = idle + VaultPays(amount) - VaultPays(amount)
      /\ adapter' = adapter /\ debtSupply' = debtSupply + RayDiv(amount, j) /\ price' = price
  BY DEF Borrow, UTokensMove, WithdrawReserves, DebtMoves, Transaction
<1>5. /\ ClaimsOf(total) \in Nat /\ left \in Nat /\ debtSupply \in Nat
      /\ DebtsOf(debtSupply) \in Nat /\ DebtsOf(debtSupply') \in Nat /\ idle \in Nat /\ adapter \in Nat
  <2>1. debtSupply' \in Nat /\ shares' \in Nat /\ price' \in Nat
    BY ReserveAssumption DEF ReserveTypeOK
  <2> QED  BY <1>2, <2>1, ValuesNat, Rounded DEF AvailableLiquidity
<1>6. supply' = total /\ idle' = idle
  BY <1>2, <1>3, <1>4, <1>5
<1>7. DebtsOf(debtSupply) + amount <= DebtsOf(debtSupply') + ScalingDust(j)
  BY <1>2, <1>4, <1>5, ScaledAmount DEF DebtsOf
<1>8. held <= left + amount + VaultDust
  BY <1>2, <1>4, VaultPaysOut DEF AvailableLiquidity
<1>9. slack \in Nat /\ slack <= OperationDust'
  BY <1>1, <1>2, DustCovers
<1> HIDE DEF j, total
<1>10. held + idle + DebtsOf(debtSupply) + adapter + ClaimsOf(supply')
         <= left + idle' + DebtsOf(debtSupply') + adapter' + ClaimsOf(total) + slack
  <2> HIDE DEF held, left
  <2> QED  BY <1>2, <1>4, <1>5, <1>6, <1>7, <1>8
<1> QED  BY <1>1, <1>9, <1>10, ValueStep DEF total

\* What a settled debt takes off the debts: its amount, but for dust.
LEMMA SettledValue ==
  ASSUME ReserveTypeOK, ReserveTypeOK', NEW l \in Loans, NEW amount \in Nat, NEW added,
         Settle(l, amount, added)
  PROVE  /\ DebtsOf(debtSupply)
              <= DebtsOf(debtSupply') + amount + ScalingDust(UpdatedIndexes.variableBorrowIndex)
         /\ supply' = supply + MintToTreasury(UpdatedIndexes)
<1> DEFINE j == UpdatedIndexes.variableBorrowIndex
           burnt == RayDiv(amount, j)
<1>1. j \in Nat \ {0} /\ debtSupply \in Nat /\ debtSupply' \in Nat
  BY ValuesNat DEF ReserveTypeOK
<1>2. burnt \in Nat
  BY <1>1, Rounded
<1>3. debtSupply' = debtSupply + (-burnt) /\ supply' = supply + MintToTreasury(UpdatedIndexes) + 0
  BY DEF Settle, DebtMoves, UTokensMove
<1> HIDE DEF burnt
<1>4. debtSupply = debtSupply' + burnt
  BY <1>1, <1>2, <1>3
<1>5. supply' = supply + MintToTreasury(UpdatedIndexes)
  <2>1. supply + MintToTreasury(UpdatedIndexes) \in Nat
    BY ValuesNat
  <2> QED  BY <1>3, <2>1
<1>6. RayMul(debtSupply, j) <= RayMul(debtSupply', j) + amount + ScalingDust(j)
  BY <1>1, <1>4, ScaledAmount DEF burnt
<1> QED  BY <1>5, <1>6 DEF DebtsOf

\* A repayment, of a part or of all.
LEMMA RepayValue ==
  ASSUME ReserveTypeOK, ReserveTypeOK', LoansEarn, PoolOperation, NEW l \in Loans, NEW amount \in Nat,
         Settle(l, amount, amount), DepositReserves(amount)
  PROVE  Surplus' + OperationDust' >= Surplus
<1> DEFINE total == supply + MintToTreasury(UpdatedIndexes)
           held == AvailableLiquidity
           left == AvailableLiquidity'
           j == UpdatedIndexes.variableBorrowIndex
           slack == ScalingDust(j) + VaultDust
<1>1. Transaction /\ Updates
  BY OperationsUpdate
<1>2. /\ total \in Nat /\ held \in Nat /\ j \in Nat \ {0} /\ VaultDust \in Nat
      /\ ScalingDust(j) \in Nat
  BY ValuesNat, VaultNat, DustNat
<1>3. /\ shares' = shares + VaultIssues(amount) /\ price' = price
      /\ idle' = idle /\ adapter' = adapter
  BY <1>1 DEF DepositReserves, Transaction
<1>4. held + amount <= left + VaultDust
  BY <1>3, VaultTakesIn DEF AvailableLiquidity
<1>5. DebtsOf(debtSupply) <= DebtsOf(debtSupply') + amount + ScalingDust(j) /\ supply' = total
  BY SettledValue
<1>6. /\ ClaimsOf(total) \in Nat /\ left \in Nat
      /\ DebtsOf(debtSupply) \in Nat /\ DebtsOf(debtSupply') \in Nat /\ idle \in Nat /\ adapter \in Nat
  <2>1. debtSupply' \in Nat /\ debtSupply \in Nat /\ shares' \in Nat /\ price' \in Nat
    BY ReserveAssumption DEF ReserveTypeOK
  <2> QED  BY <1>2, <2>1, ValuesNat, Rounded DEF AvailableLiquidity
<1>7. slack \in Nat /\ slack <= OperationDust'
  BY <1>1, <1>2, DustCovers
<1> HIDE DEF j, total
<1>8. held + idle + DebtsOf(debtSupply) + adapter + ClaimsOf(supply')
        <= left + idle' + DebtsOf(debtSupply') + adapter' + ClaimsOf(total) + slack
  <2> HIDE DEF held, left
  <2> QED  BY <1>2, <1>3, <1>4, <1>5, <1>6
<1> QED  BY <1>1, <1>7, <1>8, ValueStep DEF total

\* A bid moves no money of the reserve.
LEMMA AuctionValue ==
  ASSUME ReserveTypeOK, ReserveTypeOK', LoansEarn, NEW l \in Loans, Auction(l)
  PROVE  Surplus' + OperationDust' >= Surplus
<1> DEFINE total == supply + MintToTreasury(UpdatedIndexes)
<1>1. Transaction /\ Updates
  BY OperationsUpdate DEF PoolOperation
<1>2. total \in Nat
  BY ValuesNat
<1>3. /\ AvailableLiquidity' = AvailableLiquidity /\ idle' = idle /\ adapter' = adapter
      /\ debtSupply' = debtSupply
  BY <1>1 DEF Auction, money, debtTokens, AvailableLiquidity, Transaction
<1>4. supply' = total
  <2>1. supply' = total + 0
    BY DEF Auction, UTokensMove
  <2> QED  BY <1>2, <2>1
<1>5. /\ ClaimsOf(total) \in Nat /\ AvailableLiquidity \in Nat /\ DebtsOf(debtSupply) \in Nat
      /\ idle \in Nat /\ adapter \in Nat
  BY <1>2, ValuesNat
<1>6. 0 \in Nat /\ 0 <= OperationDust'
  BY <1>1, DustCovers
<1> HIDE DEF total
<1>7. AvailableLiquidity + idle + DebtsOf(debtSupply) + adapter + ClaimsOf(supply')
        <= AvailableLiquidity' + idle' + DebtsOf(debtSupply') + adapter' + ClaimsOf(total) + 0
  BY <1>3, <1>4, <1>5
<1> QED  BY <1>1, <1>6, <1>7, ValueStep DEF total

\* A market sale, below the debt or above it.
LEMMA SaleValue ==
  ASSUME ReserveTypeOK, ReserveTypeOK', LoansEarn, NEW l \in Loans, NEW proceeds \in Proceeds,
         MarketSale(l, proceeds)
  PROVE  Surplus' + OperationDust' >= Surplus
<1> DEFINE total == supply + MintToTreasury(UpdatedIndexes)
           owed == OwedNow(l)
           missing == IF proceeds < owed THEN owed - proceeds ELSE 0
           j == UpdatedIndexes.variableBorrowIndex
           slack == ScalingDust(j)
<1>1. Transaction /\ Updates
  BY OperationsUpdate
<1>2. /\ owed \in Nat /\ proceeds \in Nat /\ total \in Nat /\ j \in Nat \ {0} /\ slack \in Nat
      /\ VaultDust \in Nat
  BY ReserveAssumption, OwedNat, ValuesNat, DustNat, VaultNat
<1>3. /\ Settle(l, owed, 0)
      /\ idle' = idle + (IF missing # 0 THEN missing ELSE owed)
      /\ adapter' = adapter + (IF missing # 0 THEN proceeds ELSE 0)
      /\ shares' = shares /\ price' = price
  BY <1>1 DEF MarketSale, Transaction
<1>4. AvailableLiquidity' = AvailableLiquidity
  BY <1>3 DEF AvailableLiquidity
<1>5. DebtsOf(debtSupply) <= DebtsOf(debtSupply') + owed + ScalingDust(j) /\ supply' = total
  BY <1>2, <1>3, SettledValue
<1>6. /\ ClaimsOf(total) \in Nat /\ AvailableLiquidity \in Nat
      /\ DebtsOf(debtSupply) \in Nat /\ DebtsOf(debtSupply') \in Nat /\ idle \in Nat /\ adapter \in Nat
  <2>1. debtSupply' \in Nat /\ debtSupply \in Nat
    BY DEF ReserveTypeOK
  <2> QED  BY <1>2, <2>1, ValuesNat
<1>7. slack <= OperationDust'
  BY <1>1, <1>2, DustCovers
<1> HIDE DEF j, total, owed
<1>8. idle' + adapter' = idle + adapter + owed
  BY <1>2, <1>3, <1>6
<1>9. idle' \in Nat /\ adapter' \in Nat
  BY DEF ReserveTypeOK
<1> HIDE DEF slack, missing
<1>10. AvailableLiquidity + idle + DebtsOf(debtSupply) + adapter + ClaimsOf(supply')
         <= AvailableLiquidity' + idle' + DebtsOf(debtSupply') + adapter' + ClaimsOf(total) + slack
  <2>1. DebtsOf(debtSupply) <= DebtsOf(debtSupply') + owed + slack
    BY <1>5 DEF slack
  <2>2. slack \in Nat /\ owed \in Nat
    BY <1>2
  <2>3. supply' = total /\ AvailableLiquidity' = AvailableLiquidity
    BY <1>4, <1>5
  <2> DEFINE a == AvailableLiquidity
             d == DebtsOf(debtSupply)
             e == DebtsOf(debtSupply')
             c == ClaimsOf(total)
             i == idle'
             b == adapter'
  <2>4. /\ a \in Nat /\ d \in Nat /\ e \in Nat /\ c \in Nat /\ i \in Nat /\ b \in Nat
        /\ idle \in Nat /\ adapter \in Nat
    BY <1>6, <1>9
  <2>5. i + b = idle + adapter + owed /\ d <= e + owed + slack
    BY <1>8, <2>1
  <2> HIDE DEF a, d, e, c, i, b
  <2>6. a + idle + d + adapter + c <= a + i + e + b + c + slack
    BY <2>2, <2>4, <2>5
  <2> QED  BY <2>3, <2>6 DEF a, d, e, c, i, b
<1> QED  BY <1>1, <1>2, <1>7, <1>10, ValueStep DEF total

\* What an operation of the pool or a sale does to the value of the reserve.
LEMMA ValueKept ==
  ASSUME ReserveTypeOK, ReserveTypeOK', LoansEarn,
         PoolOperation \/ \E l \in Loans, proceeds \in Proceeds : MarketSale(l, proceeds)
  PROVE  Surplus' + OperationDust' >= Surplus
<1>1. Amounts \subseteq Nat
  BY ReserveAssumption
<1>2. ASSUME NEW l \in Loans, NEW amount \in Amounts, Repay(l, amount)
      PROVE  Surplus' + OperationDust' >= Surplus
  <2> DEFINE repaid == IF amount < OwedNow(l) THEN amount ELSE OwedNow(l)
  <2>1. repaid \in Nat
    BY <1>1, OwedNat
  <2>2. Settle(l, repaid, repaid) /\ DepositReserves(repaid) /\ PoolOperation
    BY <1>2 DEF Repay, PoolOperation
  <2> HIDE DEF repaid
  <2> QED  BY <2>1, <2>2, RepayValue
<1>3. ASSUME NEW l \in Loans, Liquidate(l)
      PROVE  Surplus' + OperationDust' >= Surplus
  <2>1. PoolOperation
    BY <1>3 DEF PoolOperation
  <2> QED  BY <1>3, <2>1, OwedNat, RepayValue DEF Liquidate
<1>4. ASSUME NEW user \in Holders, NEW amount \in Amounts \union {BalanceOf(user)}, Withdraw(user, amount)
      PROVE  Surplus' + OperationDust' >= Surplus
  <2>1. BalanceOf(user) \in Nat
    BY UpdateStoresIncome, Rounded DEF BalanceOf, ReserveTypeOK, Indexes
  <2>2. amount \in Nat
    BY <1>1, <2>1
  <2> QED  BY <1>4, <2>2, WithdrawValue
<1>5. CASE PoolOperation
  BY <1>2, <1>3, <1>4, <1>5, DepositValue, BorrowValue, AuctionValue DEF PoolOperation
<1> QED  BY <1>5, SaleValue

\* OperationsKeepValue, step by step: from every state in which the lenders have
\* a part in the interest.
ValueKeptWhileEarning ==
  [][LoansEarn /\ (PoolOperation \/ \E l \in Loans, proceeds \in Proceeds : MarketSale(l, proceeds))
       => Surplus' + OperationDust' >= Surplus]_vars

\* No operation takes more from the lenders than rounding does, whatever is
\* deposited, borrowed, repaid, auctioned, sold or paid to the treasury,
\* wherever a liquidity rate of 0 does not hide interest.
THEOREM ValueIsKept == Spec => ValueKeptWhileEarning
<1> DEFINE Kept == LoansEarn
                     /\ (PoolOperation \/ \E l \in Loans, proceeds \in Proceeds : MarketSale(l, proceeds))
                     => Surplus' + OperationDust' >= Surplus
<1>1. ReserveTypeOK /\ [Next]_vars => Kept
  BY StepKeeps, ValueKept
<1> QED  BY <1>1, ReserveTypes, PTL DEF Spec, ValueKeptWhileEarning

\* So in a history in which that is never so, operations keep the value.
THEOREM EarningOperationsKeepValue == Spec /\ []LoansEarn => OperationsKeepValue
<1> DEFINE Kept == (PoolOperation \/ \E loan \in Loans, proceeds \in Proceeds : MarketSale(loan, proceeds))
                     => Surplus' + OperationDust' >= Surplus
<1>1. ReserveTypeOK /\ LoansEarn /\ [Next]_vars => Kept
  BY StepKeeps, ValueKept
<1> QED  BY <1>1, ReserveTypes, PTL DEF Spec, OperationsKeepValue

=============================================================================
