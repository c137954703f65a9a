------------------------ MODULE GyroCalibration_proofs -------------------------
(***************************************************************************)
(* The calibration keeps its types and DeviationInv, for every number of   *)
(* readings, every limit and every set of readings: the accepted offset     *)
(* lies within the deviation of the mean of its readings.  Squares add up   *)
(* one step of the loop at a time, so that Cauchy's inequality is a lemma   *)
(* about one step.  And WithinTwice: how far the readings may be apart for *)
(* every square to fit the long of the code.                                *)
(***************************************************************************)
EXTENDS GyroCalibration, TLAPS

\* The mean is an integer, whatever the sign of the sum.
LEMMA QuotientType == ASSUME NEW n \in Int, NEW d \in Nat \ {0}
                      PROVE  Quotient(n, d) \in Int
BY DEF Quotient

\* A square is no negative number.
LEMMA SquareNonNeg == ASSUME NEW x \in Int PROVE x * x \in Nat
<1>1. CASE x >= 0 BY <1>1
<1>2. CASE x < 0 BY <1>2
<1> QED BY <1>1, <1>2

\* A long holds an integer, and holds what fits.
LEMMA LongType == ASSUME NEW n \in Int PROVE Long(n) \in Int
BY LongAssumption DEF Long

LEMMA LongFits == ASSUME NEW n \in Nat, n < HalfLong PROVE Long(n) = n
<1> DEFINE m == n + HalfLong
           w == 2 * HalfLong
<1>1. m \in Nat /\ w \in Nat \ {0} /\ m < w BY LongAssumption
<1>2. m % w = m
  <2> HIDE DEF m, w
  <2> QED BY <1>1
<1> QED BY <1>2, LongAssumption DEF Long

\* A product with a positive factor has the sign of the other one.
LEMMA PositiveFactor == ASSUME NEW n \in Nat \ {0}, NEW x \in Int, n * x >= 0
                        PROVE  x >= 0
OBVIOUS

\* The squares of smaller numbers are smaller.
LEMMA SquareMonotone == ASSUME NEW x \in Nat, NEW y \in Nat, x <= y
                        PROVE  x * x <= y * y
<1>1. x * x <= x * y OBVIOUS
<1>2. x * y <= y * y OBVIOUS
<1> QED BY <1>1, <1>2

\* One step of Cauchy's inequality: the square of a sum of n numbers is at most n times
\* the sum of their squares.
LEMMA CauchyStep ==
  ASSUME NEW n \in Nat, NEW g \in Int, NEW q \in Nat, NEW d \in Int, g * g <= n * q
  PROVE  (g + d) * (g + d) <= (n + 1) * (q + d * d)
<1>1. CASE n = 0
  <2>1. g * g = 0 BY <1>1, SquareNonNeg
  <2>2. g = 0 BY <2>1
  <2> QED BY <1>1, <2>2
<1>2. CASE n # 0
  <2> DEFINE rest == q + n * (d * d) - 2 * (g * d)
  <2>1. n * rest = n * q - g * g + (g - n * d) * (g - n * d)
    OBVIOUS
  <2>2. n * rest >= 0 BY <2>1, SquareNonNeg
  <2>3. rest >= 0 BY <1>2, <2>2, PositiveFactor
  <2>4. (n + 1) * (q + d * d) = n * q + d * d + (q + n * (d * d)) OBVIOUS
  <2>5. (g + d) * (g + d) = g * g + 2 * (g * d) + d * d OBVIOUS
  <2> QED BY <2>3, <2>4, <2>5
<1> QED BY <1>1, <1>2

\* A square below the square of a limit is that of a number within the limit.
LEMMA WithinLimit ==
  ASSUME NEW g \in Int, NEW limit \in Nat, g * g < limit * limit
  PROVE  -limit < g /\ g < limit
<1>1. g < limit
  <2>1. SUFFICES ASSUME g >= limit PROVE FALSE OBVIOUS
  <2> QED BY <2>1, SquareMonotone
<1>2. -limit < g
  <2>1. SUFFICES ASSUME -g >= limit PROVE FALSE OBVIOUS
  <2>2. (-g) * (-g) = g * g OBVIOUS
  <2> QED BY <2>1, <2>2, SquareMonotone
<1> QED BY <1>1, <1>2

\* Nothing has been read when the calibration begins.
LEMMA CalibrationStart == CalibrationInit => CalibrationTypeOK /\ DeviationInv
<1> SUFFICES ASSUME CalibrationInit PROVE CalibrationTypeOK /\ DeviationInv
  OBVIOUS
<1>1. CalibrationTypeOK
  <2>1. values = <<>> /\ sums = <<0>> BY DEF CalibrationInit
  <2>2. values \in Seq(Int) /\ sums \in Seq(Int) /\ Len(values) = 0 /\ Len(sums) = 1
    BY <2>1
  <2>3. calibrating \in BOOLEAN /\ still \in BOOLEAN /\ averaged \in BOOLEAN
    BY Zenon DEF CalibrationInit
  <2>4. i = 0 /\ dev = 0 /\ value = 0 /\ x_gyro_offset = 0 BY DEF CalibrationInit
  <2> QED BY <2>2, <2>3, <2>4, SamplesAssumption DEF CalibrationTypeOK
<1>2. DeviationInv
  BY SamplesAssumption
  DEF CalibrationInit, DeviationInv, SumsOfValues, OffsetNearMean, Accepted
<1> QED BY <1>1, <1>2

\* The typed state of the calibration.
LEMMA CalibrationTyped ==
  CalibrationTypeOK /\ DeviationInv /\ (Calibrate \/ HoldStill) => CalibrationTypeOK'
<1> SUFFICES ASSUME CalibrationTypeOK, DeviationInv, Calibrate \/ HoldStill
             PROVE  CalibrationTypeOK'
  OBVIOUS
<1> USE SamplesAssumption
<1>1. CASE HoldStill BY <1>1 DEF HoldStill, CalibrationTypeOK
<1>2. ASSUME NEW r \in Shaken \cup {Rest}, Reading(r) PROVE CalibrationTypeOK'
  <2>1. r \in Int BY <1>2, ReadingsAssumption
  <2>2. value' \in Int /\ values' \in Seq(Int) /\ Len(values') = Len(values) + 1
        /\ Len(values') <= Samples
    BY <1>2, <2>1 DEF Reading, CalibrationTypeOK
  <2>3. sums' \in Seq(Int) /\ Len(sums') = Len(sums) + 1
    BY <1>2, <2>1 DEF Reading, CalibrationTypeOK
  <2>4. UNCHANGED <<calibrating, still, averaged, i, dev, x_gyro_offset>> BY <1>2 DEF Reading
  <2> QED BY <2>2, <2>3, <2>4 DEF CalibrationTypeOK
<1>3. CASE MeanValue
  <2>1. value' \in Int BY <1>3, QuotientType DEF MeanValue, CalibrationTypeOK
  <2> QED BY <1>3, <2>1 DEF MeanValue, CalibrationTypeOK
<1>4. CASE Deviation
  <2>1. values[i + 1] \in Int
    <3>1. i + 1 \in 1 .. Len(values) BY <1>4 DEF Deviation, DeviationInv, CalibrationTypeOK
    <3> QED BY <3>1 DEF CalibrationTypeOK
  <2>2. values[i + 1] - value \in Int BY <2>1 DEF CalibrationTypeOK
  <2>3. SquareOf(values[i + 1]) \in Int
    <3>1. Square(values[i + 1], value) \in Int BY <2>2, SquareNonNeg DEF Square
    <3> QED BY <3>1, LongType DEF SquareOf
  <2> QED BY <1>4, <2>3 DEF Deviation, CalibrationTypeOK
<1>5. CASE Judge
  <2>1. values' \in Seq(Int) /\ sums' \in Seq(Int) /\ Len(values') <= Samples
        /\ Len(sums') = Len(values') + 1
    <3>1. CASE Steady
      <4>1. values' = values /\ sums' = sums BY <1>5, <3>1 DEF Judge
      <4> QED BY <4>1 DEF CalibrationTypeOK
    <3>2. CASE ~Steady
      <4>1. values' = <<>> /\ sums' = <<0>> BY <1>5, <3>2 DEF Judge
      <4> QED BY <4>1
    <3> QED BY <3>1, <3>2
  <2>2. x_gyro_offset' \in Int /\ calibrating' \in BOOLEAN /\ averaged' \in BOOLEAN
    BY <1>5 DEF Judge, CalibrationTypeOK
  <2> QED BY <1>5, <2>1, <2>2 DEF Judge, CalibrationTypeOK
<1>6. CASE Calibrate BY <1>2, <1>3, <1>4, <1>5, <1>6 DEF Calibrate
<1> QED BY <1>1, <1>6

\* The sums stay those of the values, the gap stays within the deviations, and what is
\* accepted is within the limit.
LEMMA DeviationStep ==
  CalibrationTypeOK /\ DeviationInv /\ (Calibrate \/ HoldStill) => DeviationInv'
<1> SUFFICES ASSUME CalibrationTypeOK, DeviationInv, Calibrate \/ HoldStill
             PROVE  DeviationInv'
  OBVIOUS
<1> USE SamplesAssumption
<1>1. CASE HoldStill
  <2>1. UNCHANGED <<calibrating, values, value, averaged, i, dev, x_gyro_offset, sums>>
    BY <1>1 DEF HoldStill
  <2> QED BY <2>1 DEF DeviationInv, SumsOfValues, Gap, OffsetNearMean, Accepted, NearMean,
             SquaresFit
<1>2. ASSUME NEW r \in Shaken \cup {Rest}, Reading(r) PROVE DeviationInv'
  <2> USE <1>2 DEF Reading
  <2>1. r \in Int BY ReadingsAssumption
  <2>2. SumsOfValues'
    <3>1. sums'[1] = 0 BY DEF DeviationInv, SumsOfValues, CalibrationTypeOK
    <3>2. ASSUME NEW n \in 1 .. Len(values')
          PROVE  sums'[n + 1] = sums'[n] + values'[n]
      <4>1. CASE n \in 1 .. Len(values)
        <5>1. sums[n + 1] = sums[n] + values[n]
          BY <4>1 DEF DeviationInv, SumsOfValues
        <5> QED BY <2>1, <4>1, <5>1 DEF CalibrationTypeOK
      <4>2. CASE n = Len(values) + 1
        BY <2>1, <4>2 DEF CalibrationTypeOK
      <4>3. Len(values') = Len(values) + 1 BY DEF CalibrationTypeOK
      <4> QED BY <4>1, <4>2, <4>3 DEF CalibrationTypeOK
    <3> QED BY <3>1, <3>2 DEF SumsOfValues
  <2>3. ~averaged' BY DEF DeviationInv, CalibrationTypeOK
  <2>4. calibrating' OBVIOUS
  <2> QED BY <2>2, <2>3, <2>4 DEF DeviationInv, OffsetNearMean, Accepted
<1>3. CASE MeanValue
  <2> USE <1>3 DEF MeanValue
  <2>1. SumsOfValues' BY DEF DeviationInv, SumsOfValues
  <2>2. Len(values') = Samples OBVIOUS
  <2>3. value' \in Int BY QuotientType DEF CalibrationTypeOK
  <2>4. Gap' = 0
    <3>1. i' = 0 /\ sums' = sums /\ sums[1] = 0 BY DEF DeviationInv, SumsOfValues
    <3>2. i' * value' = 0 BY <2>3, <3>1
    <3>3. sums'[i' + 1] = 0 BY <3>1
    <3> HIDE DEF MeanValue
    <3> QED BY <3>2, <3>3 DEF Gap
  <2>5. dev' >= 0 /\ Gap' * Gap' <= i' * dev' BY <2>4
  <2>6. calibrating' OBVIOUS
  <2> QED BY <2>1, <2>2, <2>5, <2>6 DEF DeviationInv, OffsetNearMean, Accepted
<1>4. CASE Deviation
  <2> USE <1>4 DEF Deviation
  <2> DEFINE d == value - values[i + 1]
  <2>1. /\ Len(values) = Samples /\ SumsOfValues
        /\ SquaresFit(i, value) => dev >= 0 /\ Gap * Gap <= i * dev
    BY DEF DeviationInv
  <2>2. /\ values[i + 1] \in Int /\ sums[i + 1] \in Int /\ sums[i + 2] \in Int
        /\ d \in Int /\ Gap \in Int /\ i \in Nat /\ dev \in Int
    BY <2>1 DEF CalibrationTypeOK, Gap
  <2>3. sums[i + 2] = sums[i + 1] + values[i + 1] BY <2>1, <2>2 DEF SumsOfValues
  <2>4. Gap' = Gap + d
    <3>1. Gap' = (i + 1) * value - sums[i + 2] BY <2>2 DEF Gap
    <3>2. /\ (i + 1) * value = i * value + value
          /\ value \in Int /\ i * value \in Int
      BY <2>2 DEF CalibrationTypeOK
    <3>3. Gap = i * value - sums[i + 1] BY DEF Gap
    <3>4. Gap' = i * value + value - (sums[i + 1] + values[i + 1]) BY <2>2, <2>3, <3>1, <3>2
    <3>5. d = value - values[i + 1] OBVIOUS
    <3> HIDE DEF Deviation, d
    <3> QED BY <2>2, <3>2, <3>3, <3>4, <3>5
  <2>5. Square(values[i + 1], value) < HalfLong => dev' = dev + d * d
    <3>1. Square(values[i + 1], value) = d * d /\ d * d \in Nat
      <4> DEFINE e == values[i + 1] - value
      <4>1. value \in Int /\ d \in Int /\ e \in Int /\ e = -d BY <2>2 DEF CalibrationTypeOK
      <4>2. Square(values[i + 1], value) = e * e BY DEF Square
      <4> HIDE DEF d, e
      <4>3. e * e = d * d BY <4>1
      <4>4. d * d \in Nat BY <4>1, SquareNonNeg
      <4> QED BY <4>2, <4>3, <4>4
    <3>2. dev' = dev + SquareOf(values[i + 1]) OBVIOUS
    <3> HIDE DEF Deviation, d
    <3> QED BY <3>1, <3>2, LongFits DEF SquareOf
  <2> HIDE DEF d
  <2>6. SquaresFit(i, value)' => dev' >= 0 /\ Gap' * Gap' <= i' * dev'
    <3> SUFFICES ASSUME SquaresFit(i, value)' PROVE dev' >= 0 /\ Gap' * Gap' <= i' * dev'
      OBVIOUS
    <3>1. i' = i + 1 /\ values' = values /\ value' = value OBVIOUS
    <3>2. \A m \in 1 .. i + 1 : Square(values[m], value) < HalfLong
      <4>1. SquaresFit(i, value)' <=> \A m \in 1 .. i' : Square(values'[m], value') < HalfLong
        BY DEF SquaresFit, Square
      <4> QED BY <3>1, <4>1
    <3>3. SquaresFit(i, value) /\ Square(values[i + 1], value) < HalfLong
      BY <2>2, <3>2 DEF SquaresFit
    <3>4. dev \in Nat /\ Gap * Gap <= i * dev /\ dev' = dev + d * d
      BY <2>1, <2>2, <2>5, <3>3
    <3>5. Gap' * Gap' <= i' * dev' BY <2>2, <2>4, <3>1, <3>4, CauchyStep
    <3>6. d * d \in Nat BY <2>2, SquareNonNeg
    <3> HIDE DEF Deviation
    <3> QED BY <3>4, <3>5, <3>6
  <2>7. SumsOfValues' BY <2>1 DEF SumsOfValues
  <2> QED BY <2>1, <2>6, <2>7 DEF DeviationInv, OffsetNearMean, Accepted
<1>5. CASE Judge
  <2>1. /\ Len(values) = Samples /\ SumsOfValues /\ i = Samples
        /\ SquaresFit(i, value) => Gap * Gap <= i * dev
    BY <1>5 DEF Judge, DeviationInv
  <2>2. CASE Steady
    <3> DEFINE limit == Samples * MaxDev
    <3>1. ~calibrating' /\ x_gyro_offset' = value /\ values' = values /\ sums' = sums
      BY <1>5, <2>2 DEF Judge
    <3>2. limit \in Nat /\ Gap \in Int BY <2>1 DEF CalibrationTypeOK, Gap
    <3>3. Samples * dev < limit * limit
      <4>1. dev < Samples * MaxDev * MaxDev /\ dev \in Nat
        BY <2>2 DEF Steady, CalibrationTypeOK
      <4>2. Samples * dev < Samples * (Samples * MaxDev * MaxDev) BY <4>1
      <4>3. Samples * (Samples * MaxDev * MaxDev) = limit * limit OBVIOUS
      <4> QED BY <4>2, <4>3
    <3>4. SquaresFit(i, value) => Gap * Gap < limit * limit
      <4>1. Gap * Gap \in Int /\ Samples * dev \in Int /\ limit * limit \in Int
        BY <3>2 DEF CalibrationTypeOK
      <4> QED BY <2>1, <3>3, <4>1
    <3>5. SquaresFit(i, value) => -limit < Gap /\ Gap < limit
      <4> HIDE DEF limit
      <4> QED BY <3>2, <3>4, WithinLimit
    <3>6. OffsetNearMean'
      <4>1. SquaresFit(Samples, x_gyro_offset)' => SquaresFit(i, value)
        BY <2>1, <3>1 DEF SquaresFit
      <4>2. /\ Samples * x_gyro_offset' - sums'[Samples + 1] = Gap
        BY <2>1, <3>1 DEF Gap
      <4> QED BY <3>5, <4>1, <4>2 DEF OffsetNearMean, NearMean
    <3>7. SumsOfValues' BY <2>1, <3>1 DEF SumsOfValues
    <3> QED BY <3>1, <3>6, <3>7 DEF DeviationInv
  <2>3. CASE ~Steady
    <3>1. calibrating' /\ ~averaged' /\ values' = <<>> /\ sums' = <<0>>
      BY <1>5, <2>3 DEF Judge
    <3>2. SumsOfValues' BY <3>1 DEF SumsOfValues
    <3> QED BY <3>1, <3>2 DEF DeviationInv, OffsetNearMean, Accepted
  <2> QED BY <2>2, <2>3
<1>6. CASE Calibrate BY <1>2, <1>3, <1>4, <1>5, <1>6 DEF Calibrate
<1> QED BY <1>1, <1>6

\* A quotient of numbers within k divisors lies within k.
LEMMA QuotientWithin ==
  ASSUME NEW n \in Int, NEW d \in Nat \ {0}, NEW k \in Nat, -(k * d) <= n, n <= k * d
  PROVE  -k <= Quotient(n, d) /\ Quotient(n, d) <= k
<1>1. ASSUME NEW m \in Nat, m <= k * d PROVE m \div d \in Nat /\ m \div d <= k
  <2> DEFINE q == m \div d
  <2>1. q \in Nat /\ q * d <= m BY <1>1
  <2> HIDE DEF q
  <2>2. ASSUME q >= k + 1 PROVE FALSE
    <3>1. q * d >= (k + 1) * d BY <2>1, <2>2
    <3>2. (k + 1) * d = k * d + d /\ k * d \in Nat OBVIOUS
    <3> QED BY <1>1, <2>1, <3>1, <3>2
  <2>3. q <= k BY <2>1, <2>2
  <2> QED BY <2>1, <2>3 DEF q
<1>2. CASE n >= 0 BY <1>1, <1>2 DEF Quotient
<1>3. CASE n < 0
  <2>1. -n \in Nat /\ -n <= k * d BY <1>3
  <2>2. (-n) \div d \in Nat /\ (-n) \div d <= k BY <1>1, <2>1
  <2> QED BY <1>3, <2>2 DEF Quotient
<1> QED BY <1>2, <1>3

\* When no reading leaves -bound .. bound, the sum of an attempt and the mean that it
\* begins with leave twice that range no more, and no square is larger than that of
\* three times the bound.
Bounded(bound) == \A r \in Shaken \cup {Rest} : -bound <= r /\ r <= bound
WithinTwice(bound) ==
  /\ \A n \in 1 .. Len(values) : -bound <= values[n] /\ values[n] <= bound
  /\ LET limit == 2 * bound + (IF averaged THEN 0 ELSE bound * Len(values))
     IN  -limit <= value /\ value <= limit
  /\ Accepted => x_gyro_offset = value /\ averaged

LEMMA WithinStep ==
  ASSUME Samples > 1, NEW bound \in Nat, Bounded(bound)
  PROVE  CalibrationTypeOK /\ DeviationInv /\ WithinTwice(bound) /\ (Calibrate \/ HoldStill)
           => WithinTwice(bound)'
<1> SUFFICES ASSUME CalibrationTypeOK, DeviationInv, WithinTwice(bound), Calibrate \/ HoldStill
             PROVE  WithinTwice(bound)'
  OBVIOUS
<1> USE SamplesAssumption
<1>1. CASE HoldStill BY <1>1 DEF HoldStill, WithinTwice, Accepted
<1>2. ASSUME NEW r \in Shaken \cup {Rest}, Reading(r) PROVE WithinTwice(bound)'
  <2>1. r \in Int /\ -bound <= r /\ r <= bound BY ReadingsAssumption DEF Bounded
  <2>2. /\ values' = Append(values, r) /\ value' = value + r /\ averaged' = averaged
        /\ values \in Seq(Int) /\ value \in Int /\ calibrating'
    BY <1>2 DEF Reading, CalibrationTypeOK
  <2>3. Len(values') = Len(values) + 1 /\ Len(values) \in Nat BY <2>1, <2>2
  <2>4. \A n \in 1 .. Len(values') : -bound <= values'[n] /\ values'[n] <= bound
    BY <2>1, <2>2, <2>3 DEF WithinTwice
  <2>5. ~averaged BY <1>2 DEF Reading, DeviationInv
  <2> DEFINE n == Len(values)
  <2>6. /\ bound * n \in Nat /\ bound * (n + 1) = bound * n + bound
        /\ -(2 * bound + bound * n) <= value /\ value <= 2 * bound + bound * n
    BY <2>3, <2>5 DEF WithinTwice
  <2> HIDE DEF n
  <2>7. -(2 * bound + bound * (n + 1)) <= value' /\ value' <= 2 * bound + bound * (n + 1)
    BY <2>1, <2>2, <2>6
  <2> QED BY <2>2, <2>3, <2>4, <2>5, <2>7 DEF WithinTwice, Accepted, n
<1>3. CASE MeanValue
  <2>1. value \in Int /\ Len(values) = Samples /\ ~averaged /\ calibrating
    BY <1>3 DEF MeanValue, CalibrationTypeOK
  <2>2. -(2 * bound + bound * Samples) <= value /\ value <= 2 * bound + bound * Samples
    BY <2>1 DEF WithinTwice
  <2>3. 2 * bound + bound * Samples <= (2 * bound) * Samples
    <3>1. bound * Samples >= 2 * bound OBVIOUS
    <3>2. (2 * bound) * Samples = bound * Samples + bound * Samples OBVIOUS
    <3> QED BY <3>1, <3>2
  <2>4. -((2 * bound) * Samples) <= value /\ value <= (2 * bound) * Samples
    BY <2>1, <2>2, <2>3
  <2>5. value' = Quotient(value, Samples) /\ averaged' /\ values' = values /\ calibrating'
    BY <1>3 DEF MeanValue
  <2>6. -(2 * bound) <= value' /\ value' <= 2 * bound
    BY <2>1, <2>4, <2>5, QuotientWithin
  <2> QED BY <2>5, <2>6 DEF WithinTwice, Accepted
<1>4. CASE Deviation BY <1>4 DEF Deviation, WithinTwice, Accepted
<1>5. CASE Judge
  <2>1. averaged /\ value' = value BY <1>5 DEF Judge
  <2>2. CASE Steady BY <1>5, <2>1, <2>2 DEF Judge, WithinTwice, Accepted
  <2>3. CASE ~Steady
    <3>1. ~averaged' /\ values' = <<>> /\ calibrating' BY <1>5, <2>3 DEF Judge
    <3>2. Len(values') = 0 /\ bound * Len(values') = 0 BY <3>1
    <3> QED BY <2>1, <3>1, <3>2 DEF WithinTwice, Accepted
  <2> QED BY <2>2, <2>3
<1>6. CASE Calibrate BY <1>2, <1>3, <1>4, <1>5, <1>6 DEF Calibrate
<1> QED BY <1>1, <1>6

\* Numbers within twice the bound differ from a reading by three times the bound.
LEMMA WithinFits ==
  ASSUME NEW bound \in Nat, 9 * (bound * bound) < HalfLong,
         CalibrationTypeOK, WithinTwice(bound), Accepted
  PROVE  SquaresFit(Samples, x_gyro_offset)
<1> SUFFICES ASSUME NEW n \in 1 .. Len(values)
             PROVE  Square(values[n], value) < HalfLong
  BY DEF SquaresFit, WithinTwice, Accepted
<1> DEFINE d == values[n] - value
<1>1. values[n] \in Int /\ value \in Int BY DEF CalibrationTypeOK
<1>2. /\ -bound <= values[n] /\ values[n] <= bound
      /\ -(2 * bound) <= value /\ value <= 2 * bound
  BY DEF WithinTwice
<1>3. d \in Int /\ -(3 * bound) <= d /\ d <= 3 * bound BY <1>1, <1>2
<1> HIDE DEF d
<1>4. d * d <= (3 * bound) * (3 * bound)
  <2>1. CASE d >= 0 BY <1>3, <2>1, SquareMonotone
  <2>2. CASE d < 0
    <3>1. -d \in Nat /\ -d <= 3 * bound /\ (-d) * (-d) = d * d BY <1>3, <2>2
    <3> QED BY <3>1, SquareMonotone
  <2> QED BY <1>3, <2>1, <2>2
<1>5. (3 * bound) * (3 * bound) = 9 * (bound * bound) OBVIOUS
<1> QED BY <1>3, <1>4, <1>5, LongAssumption DEF Square, d
================================================================================
