---------------------------- MODULE GyroCalibration ----------------------------
(***************************************************************************)
(* MPU6050_calibrate() of the ESP32 robot, which setup() calls: Samples     *)
(* readings of the gyro make an attempt; the attempt is accepted when they  *)
(* deviate little from their mean, and repeated otherwise.  "value" is      *)
(* cleared before the first attempt only, so that a repeated one adds its   *)
(* readings to the mean of the attempt before it.  The squares of the       *)
(* deviation are taken in a long, which a robot that is turned fast makes   *)
(* overflow; "dev" is a float, which does not round here.                   *)
(***************************************************************************)
EXTENDS Integers, Sequences

CONSTANTS Samples,      \* readings of an attempt (100)
          MaxDev,       \* the standard deviation that is too much (50)
          HalfLong,     \* a long goes from -HalfLong to HalfLong - 1 (2^31)
          Rest,         \* what the gyro reads while the robot is still
          Shaken        \* what it may read while the robot is moved

ASSUME SamplesAssumption  == Samples \in Nat \ {0} /\ MaxDev \in Nat \ {0}
ASSUME LongAssumption     == HalfLong \in Nat \ {0}
ASSUME ReadingsAssumption == Shaken \cup {Rest} \subseteq Int

VARIABLES calibrating,
          still,           \* environment: the robot is not moved any more
          values, value,   \* readings of the attempt; their sum, then their mean
          averaged,        \* "value" is the mean: the second loop of the attempt
          i, dev,          \* of the second loop: deviations added, their squares' sum
          x_gyro_offset,
          sums             \* history: the sums of the first 0, 1, 2, ... values

calibration == <<calibrating, still, values, value, averaged, i, dev, x_gyro_offset, sums>>

CalibrationTypeOK ==
  /\ calibrating \in BOOLEAN /\ still \in BOOLEAN /\ averaged \in BOOLEAN
  /\ values \in Seq(Int) /\ Len(values) <= Samples
  /\ sums \in Seq(Int) /\ Len(sums) = Len(values) + 1
  /\ i \in 0 .. Samples /\ dev \in Int
  /\ value \in Int /\ x_gyro_offset \in Int

CalibrationInit ==
  /\ calibrating = TRUE /\ still = FALSE
  /\ values = <<>> /\ sums = <<0>> /\ value = 0
  /\ averaged = FALSE /\ i = 0 /\ dev = 0
  /\ x_gyro_offset = 0

HoldStill ==
  /\ calibrating /\ ~still /\ still' = TRUE
  /\ UNCHANGED <<calibrating, values, value, averaged, i, dev, x_gyro_offset, sums>>

Reading(r) ==
  /\ calibrating /\ Len(values) < Samples
  /\ still => r = Rest
  /\ values' = Append(values, r)
  /\ value' = value + r
  /\ sums' = Append(sums, sums[Len(sums)] + r)
  /\ UNCHANGED <<calibrating, still, averaged, i, dev, x_gyro_offset>>

\* Division of a long: towards zero.
Quotient(n, d) == IF n >= 0 THEN n \div d ELSE -((-n) \div d)

MeanValue ==
  /\ calibrating /\ Len(values) = Samples /\ ~averaged
  /\ value' = Quotient(value, Samples)
  /\ averaged' = TRUE
  /\ i' = 0 /\ dev' = 0
  /\ UNCHANGED <<calibrating, still, values, x_gyro_offset, sums>>

\* The product of two longs, which wraps in the build.
Long(n) == ((n + HalfLong) % (2 * HalfLong)) - HalfLong

Square(v, mean) == (v - mean) * (v - mean)

\* As SquareOf, but the deviation is around the mean of this attempt alone.
SquareAroundOwnMean(v) == Long(Square(v, Quotient(sums[Samples + 1], Samples)))

SquareOf(v) == Long(Square(v, value))

Deviation ==
  /\ calibrating /\ averaged /\ i < Samples
  /\ dev' = dev + SquareOf(values[i + 1])
  /\ i' = i + 1
  /\ UNCHANGED <<calibrating, still, values, value, averaged, x_gyro_offset, sums>>

\* As Steady, but the squares are not averaged.
SteadyInSum == dev < MaxDev * MaxDev

\* sqrt(dev / 100) < 50; the root of a negative number is no number, and not less.
Steady == dev >= 0 /\ dev < Samples * MaxDev * MaxDev

\* What the second loop has left in "value" decides, and is the offset.
Judge ==
  /\ calibrating /\ averaged /\ i = Samples
  /\ calibrating' = ~Steady
  /\ IF Steady
       THEN x_gyro_offset' = value /\ UNCHANGED <<values, averaged, sums>>
       ELSE /\ values' = <<>> /\ sums' = <<0>> /\ averaged' = FALSE
            /\ UNCHANGED x_gyro_offset
  /\ UNCHANGED <<still, value, i, dev>>

Calibrate == MeanValue \/ Deviation \/ Judge \/ \E r \in Shaken \cup {Rest} : Reading(r)

\* The offset that is accepted lies within the deviation of the mean of the readings
\* it was accepted for, although it also contains the mean of the failed attempts: the
\* test measures the deviation around the offset itself.  The one exception is a reading
\* so far from the offset that its square overflowed: the attempt then may look steady.
Accepted == ~calibrating /\ Len(values) = Samples
SquaresFit(n, mean) == \A m \in 1 .. n : Square(values[m], mean) < HalfLong
NearMean ==
  LET gap == Samples * x_gyro_offset - sums[Samples + 1]
  IN  -(Samples * MaxDev) < gap /\ gap < Samples * MaxDev
OffsetNearMean == Accepted /\ SquaresFit(Samples, x_gyro_offset) => NearMean

\* What makes it inductive: the sums are those of the values, and the deviations added
\* so far are too small a gap for the squares of their sum (Cauchy and Schwarz).
SumsOfValues ==
  sums[1] = 0 /\ \A n \in 1 .. Len(values) : sums[n + 1] = sums[n] + values[n]
Gap == i * value - sums[i + 1]
DeviationInv ==
  /\ SumsOfValues
  /\ calibrating /\ averaged =>
       /\ Len(values) = Samples
       /\ SquaresFit(i, value) => dev >= 0 /\ Gap * Gap <= i * dev
  /\ OffsetNearMean

\* A robot that is left alone is calibrated, whatever failed attempts left in "value".
Calibrated == still ~> ~calibrating
================================================================================
