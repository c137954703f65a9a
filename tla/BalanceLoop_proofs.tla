-------------------------- MODULE BalanceLoop_proofs ---------------------------
(***************************************************************************)
(* LoopInv is an inductive invariant of the balance loop, for every clock   *)
(* width, every limit of the integral and every set of readings: dt is the *)
(* elapsed time, clean passes use new samples, the integral is cleared, and *)
(* the accepted offset is close to the mean of its readings.               *)
(***************************************************************************)
EXTENDS BalanceLoop, GyroCalibration_proofs

USE DEF Word

\* Limiting keeps a value within the limit.
LEMMA ConstrainType == ASSUME NEW x \in Int, NEW limit \in Nat
                       PROVE  Constrain(x, limit) \in -limit .. limit
BY DEF Constrain

\* What is invariant of the calibration, and that it survives a step without it.
CalibrationInv == CalibrationTypeOK /\ DeviationInv

LEMMA CalibrationKept == CalibrationInv /\ UNCHANGED calibration => CalibrationInv'
<1> SUFFICES ASSUME CalibrationInv, UNCHANGED calibration PROVE CalibrationInv'
  OBVIOUS
<1>1. CalibrationTypeOK' BY DEF CalibrationInv, CalibrationTypeOK, calibration
<1>2. DeviationInv'
  BY DEF CalibrationInv, DeviationInv, SumsOfValues, Gap, OffsetNearMean, Accepted, NearMean,
     SquaresFit, calibration
<1> QED BY <1>1, <1>2 DEF CalibrationInv

\* Everything but the sample survives a step of the calibration.
LEMMA CalibrationStep == LoopInv /\ Calibration => LoopInv'
<1> SUFFICES ASSUME LoopInv, Calibration PROVE LoopInv'
  OBVIOUS
<1>1. CalibrationTypeOK' /\ DeviationInv'
  BY CalibrationTyped, DeviationStep DEF LoopInv, TypeOK, Calibration
<1>2. UNCHANGED <<place, micros, timer, ready, accel_t_gyro, control, history>>
  BY DEF Calibration
<1> QED
  BY <1>1, <1>2 DEF LoopInv, TypeOK, TimerInv, SampleInv, DtIsElapsed, NewSample,
     IntegralCleared, InPass, At, Elapsed, timer, control, history

\* Ticks keep the readings where the history says they are.
LEMMA TickStep == LoopInv /\ Tick => LoopInv'
<1> SUFFICES ASSUME LoopInv, Tick PROVE LoopInv'
  OBVIOUS
<1>0. CalibrationInv' BY CalibrationKept DEF LoopInv, Tick, TypeOK, CalibrationInv
<1> USE WordAssumption DEF LoopInv, Tick
<1>1. TypeOK'
  <2>1. micros' \in 0 .. Word - 1 /\ since' \in 0 .. Word - 1 /\ ago' \in 0 .. Word - 1
    BY DEF TypeOK
  <2>2. UNCHANGED <<calibration, place, timer, ready, accel_t_gyro, control, synced, elapsed,
                    used, pass, clean, stale>>
    OBVIOUS
  <2>3. CalibrationTypeOK' BY <1>0 DEF CalibrationInv
  <2> QED BY <2>1, <2>2, <2>3 DEF TypeOK, timer, control
<1>2. TimerInv' BY DEF TypeOK, TimerInv, InPass, Elapsed, timer
<1>3. SampleInv' /\ DtIsElapsed' /\ NewSample' /\ IntegralCleared'
  BY DEF SampleInv, DtIsElapsed, NewSample, IntegralCleared, At, timer, control
<1> QED BY <1>0, <1>1, <1>2, <1>3 DEF CalibrationInv

\* A new sample has not been used, and makes a pass unclean that is about to read it.
LEMMA SampleStep == LoopInv /\ Sample => LoopInv'
<1> SUFFICES ASSUME LoopInv, Sample PROVE LoopInv'
  OBVIOUS
<1> USE DEF LoopInv, Sample
<1>1. CalibrationTypeOK' /\ DeviationInv' BY CalibrationKept DEF TypeOK, CalibrationInv
<1>2. TypeOK' BY <1>1 DEF TypeOK, timer, control
<1>3. TimerInv' BY DEF TimerInv, InPass, Elapsed, timer
<1>4. SampleInv' BY DEF TypeOK, SampleInv, At
<1>5. DtIsElapsed' /\ NewSample' /\ IntegralCleared'
  BY DEF DtIsElapsed, NewSample, IntegralCleared, timer, control
<1> QED BY <1>1, <1>2, <1>3, <1>4, <1>5

\* setup() leaves the calibration cleared.
LEMMA ClearedCalibration ==
  ASSUME calibrating' \in BOOLEAN, still' = FALSE, averaged' = FALSE, values' = <<>>,
         sums' = << 0 >>, value' = 0, x_gyro_offset' = 0, i' = 0, dev' = 0
  PROVE  CalibrationInv'
<1>1. CalibrationTypeOK'
  <2>1. values' \in Seq(Int) /\ sums' \in Seq(Int) /\ Len(values') = 0 /\ Len(sums') = 1
    OBVIOUS
  <2>2. still' \in BOOLEAN /\ averaged' \in BOOLEAN BY Zenon
  <2> QED BY <2>1, <2>2, SamplesAssumption DEF CalibrationTypeOK
<1>2. DeviationInv'
  BY SamplesAssumption DEF DeviationInv, SumsOfValues, OffsetNearMean, Accepted
<1> QED BY <1>1, <1>2 DEF CalibrationInv

LEMMA LoopStep == LoopInv /\ Loop => LoopInv'
<1> SUFFICES ASSUME LoopInv, Loop PROVE LoopInv'
  OBVIOUS
<1> USE DEF LoopInv
<1>1. CASE EndSetup
  <2>0. /\ calibrating' = calibrating /\ still' = FALSE /\ averaged' = FALSE
        /\ values' = <<>> /\ sums' = <<0>> /\ value' = 0 /\ x_gyro_offset' = 0
        /\ i' = 0 /\ dev' = 0
    BY <1>1 DEF EndSetup
  <2>1. CalibrationTypeOK' /\ DeviationInv'
    BY <2>0, ClearedCalibration DEF TypeOK, CalibrationTypeOK, CalibrationInv
  <2> QED BY <1>1, <2>1 DEF EndSetup, TypeOK, TimerInv, SampleInv, InPass, DtIsElapsed,
             NewSample, IntegralCleared, At, GoTo, Elapsed, timer, history
<1>2. CASE Message
  <2>1. CalibrationTypeOK' /\ DeviationInv'
    BY <1>2, CalibrationKept DEF Message, TypeOK, CalibrationInv
  <2> QED BY <1>2, <2>1 DEF Message, TypeOK, TimerInv, SampleInv, InPass, DtIsElapsed,
             NewSample, IntegralCleared, At, Elapsed, timer, control, history
<1>3. CASE ReadClock
  <2>1. CalibrationTypeOK' /\ DeviationInv'
    BY <1>3, CalibrationKept DEF ReadClock, ReadTo, TypeOK, CalibrationInv
  <2>2. TypeOK' BY <1>3, <2>1, WordAssumption DEF ReadClock, ReadTo, TypeOK, GoTo, control
  <2>3. TimerInv'
    BY <1>3, WordAssumption
    DEF ReadClock, ReadTo, TypeOK, TimerInv, InPass, At, GoTo, Elapsed
  <2> QED BY <1>3, <2>1, <2>2, <2>3 DEF ReadClock, ReadTo, SampleInv, DtIsElapsed, NewSample,
             IntegralCleared, At, GoTo, control
<1>4. CASE MPU6050_newData
  <2> USE <1>4 DEF MPU6050_newData, StatusRead
  <2>1. CalibrationTypeOK' /\ DeviationInv' BY CalibrationKept DEF TypeOK, CalibrationInv
  <2>2. ready' \in BOOLEAN /\ pass' \in {"clean", "lapped", "failed"}
        /\ place' \in {"data", "poll"} /\ ago' \in {0, ago}
    BY DEF TypeOK, GoTo
  <2>3. TypeOK' BY <2>1, <2>2, WordAssumption DEF TypeOK, timer, control
  <2>4. TimerInv' BY <2>2 DEF TypeOK, TimerInv, InPass, At, Elapsed, timer
  <2>5. SampleInv' BY DEF TypeOK, SampleInv, At, GoTo
  <2> QED BY <2>1, <2>3, <2>4, <2>5 DEF DtIsElapsed, NewSample, IntegralCleared, timer, control
<1>5. ASSUME NEW millis \in 0 .. Word - 1, Kill(millis) PROVE LoopInv'
  <2> USE <1>5 DEF Kill
  <2>1. CalibrationTypeOK' /\ DeviationInv' BY CalibrationKept DEF TypeOK, CalibrationInv
  <2>2. TypeOK'
    <3>1. PID_errorSum' \in -ITERM_MAX .. ITERM_MAX BY LimitAssumption
    <3>2. /\ timer_old' \in 0 .. Word - 1 /\ since' \in 0 .. Word - 1
          /\ place' \in {"asleep", "clock"}
      BY WordAssumption
    <3>3. enabled' \in BOOLEAN /\ synced' \in BOOLEAN BY Zenon
    <3> QED BY <2>1, <3>1, <3>2, <3>3 DEF TypeOK
  <2>3. TimerInv' BY DEF TimerInv, InPass, At
  <2> QED BY <2>1, <2>2, <2>3 DEF SampleInv, DtIsElapsed, NewSample, IntegralCleared, At
<1>6. ASSUME NEW complete \in BOOLEAN, NEW upright \in BOOLEAN, NEW error \in Errors,
             ControlStep(complete, upright, error)
      PROVE  LoopInv'
  <2> USE <1>6 DEF ControlStep
  <2>1. CalibrationTypeOK' /\ DeviationInv' BY CalibrationKept DEF TypeOK, CalibrationInv
  <2>2. PID_errorSum' \in -ITERM_MAX .. ITERM_MAX
    <3>1. error \in Int BY LimitAssumption DEF Errors
    <3>2. Constrain(error, ITERM_MAX_ERROR) \in Int BY <3>1, ConstrainType, LimitAssumption
    <3>3. PID_errorSum + Constrain(error, ITERM_MAX_ERROR) \in Int
      BY <3>2, LimitAssumption DEF TypeOK
    <3>4. ErrorSum(error) \in -ITERM_MAX .. ITERM_MAX
      BY <3>3, ConstrainType, LimitAssumption DEF ErrorSum
    <3> QED BY <3>4, LimitAssumption
  <2>3. /\ dt' \in -HalfWord .. HalfWord - 1 /\ elapsed' \in -1 .. Word - 1
        /\ timer_old' = timer_value /\ timer_value' = timer_value /\ micros' = micros
        /\ since' = ago /\ ago' = 0
        /\ elapsed' \in 0 .. HalfWord - 1 => dt' = elapsed'
    BY WordAssumption DEF TypeOK, TimerInv, InPass, At, Elapsed, Signed
  <2>4. accel_t_gyro' \in {"sound", "swapped", "torn"} /\ (complete => accel_t_gyro' = "sound")
    <3>1. Swapped(accel_t_gyro) \in {"sound", "swapped", "torn"} BY DEF TypeOK, Swapped
    <3> QED BY <3>1 DEF MPU6050_read_3axis
  <2>5. /\ enabled' = upright /\ synced' = TRUE /\ ready' = ready /\ pass' = pass
        /\ used' = (used \/ complete) /\ clean' = (complete /\ pass = "clean")
        /\ stale' = (clean /\ clean' /\ (used \/ accel_t_gyro' # "sound"))
        /\ place' = "poll"
    BY DEF GoTo
  <2>6. ready' \in BOOLEAN /\ enabled' \in BOOLEAN /\ synced' \in BOOLEAN
        /\ used' \in BOOLEAN /\ clean' \in BOOLEAN /\ stale' \in BOOLEAN
    BY <2>5, Zenon DEF TypeOK
  <2>7. TypeOK'
    <3>1. pass' \in {"clean", "lapped", "failed"} /\ place' = "poll" BY <2>5 DEF TypeOK
    <3>2. since' \in 0 .. Word - 1 /\ ago' \in 0 .. Word - 1 /\ micros' \in 0 .. Word - 1
          /\ timer_value' \in 0 .. Word - 1 /\ timer_old' \in 0 .. Word - 1
      BY <2>3, WordAssumption DEF TypeOK
    <3> QED BY <2>1, <2>2, <2>3, <2>4, <2>6, <3>1, <3>2 DEF TypeOK
  <2>8. TimerInv' BY <2>3, <2>5 DEF TypeOK, TimerInv, InPass, At, Elapsed
  <2>9. SampleInv' /\ NewSample'
    <3>1. pass = "clean" => ~ready /\ (clean => ~used) BY DEF SampleInv, At
    <3>2. CASE complete /\ pass = "clean"
      <4>1. ~ready' /\ accel_t_gyro' = "sound" /\ (clean => ~used) BY <2>4, <2>5, <3>1, <3>2
      <4> QED BY <2>5, <4>1 DEF SampleInv, NewSample, At
    <3>3. CASE ~(complete /\ pass = "clean")
      <4>1. ~clean' BY <2>5, <3>3
      <4> QED BY <2>5, <4>1 DEF SampleInv, NewSample, At
    <3> QED BY <3>2, <3>3
  <2>10. DtIsElapsed' BY <2>3 DEF DtIsElapsed
  <2>11. IntegralCleared' BY <2>5 DEF IntegralCleared
  <2> QED BY <2>1, <2>7, <2>8, <2>9, <2>10, <2>11
<1> QED BY <1>1, <1>2, <1>3, <1>4, <1>5, <1>6 DEF Loop

LEMMA InitHolds == Init => LoopInv
<1> SUFFICES ASSUME Init PROVE LoopInv
  OBVIOUS
<1>1. CalibrationTypeOK /\ DeviationInv BY CalibrationStart DEF Init
<1>2. TypeOK
  <2>1. /\ ready \in BOOLEAN /\ enabled \in BOOLEAN /\ synced \in BOOLEAN
        /\ used \in BOOLEAN /\ clean \in BOOLEAN /\ stale \in BOOLEAN
    BY Zenon DEF Init
  <2>2. /\ micros \in 0 .. Word - 1 /\ since \in 0 .. Word - 1 /\ ago \in 0 .. Word - 1
        /\ timer_value \in 0 .. Word - 1 /\ timer_old \in 0 .. Word - 1
        /\ dt \in -HalfWord .. HalfWord - 1 /\ elapsed \in -1 .. Word - 1
    BY WordAssumption DEF Init
  <2>3. PID_errorSum \in -ITERM_MAX .. ITERM_MAX BY LimitAssumption DEF Init
  <2> QED BY <1>1, <2>1, <2>2, <2>3 DEF Init, TypeOK
<1>3. TimerInv /\ SampleInv /\ DtIsElapsed /\ NewSample /\ IntegralCleared
  BY DEF Init, TimerInv, SampleInv, InPass, DtIsElapsed, NewSample, IntegralCleared, At
<1> QED BY <1>1, <1>2, <1>3 DEF LoopInv

LEMMA StutterStep == LoopInv /\ UNCHANGED vars => LoopInv'
<1> SUFFICES ASSUME LoopInv, UNCHANGED vars PROVE LoopInv'
  OBVIOUS
<1>1. CalibrationTypeOK' /\ DeviationInv'
  BY CalibrationKept DEF LoopInv, TypeOK, CalibrationInv, vars
<1> QED BY <1>1 DEF LoopInv, TypeOK, TimerInv, SampleInv, InPass, DtIsElapsed, NewSample,
           IntegralCleared, At, Elapsed, vars, timer, control, history

\* The control step of the ESP32 robot: LoopInv is invariant.
THEOREM LoopInvariant == Spec => []LoopInv
<1>1. LoopInv /\ [Next]_vars => LoopInv'
  BY CalibrationStep, LoopStep, TickStep, SampleStep, StutterStep DEF Next
<1> QED BY <1>1, InitHolds, PTL DEF Spec

\* Type correctness: the clock readings stay in their word, the integral in its limits.
THEOREM TypeCorrect == Spec => []TypeOK
BY LoopInvariant, PTL DEF LoopInv

\* dt is the time between the clock readings of two control steps less than half the
\* word of the clock apart (INO:280-288).
THEOREM DtCorrect == Spec => []DtIsElapsed
BY LoopInvariant, PTL DEF LoopInv

\* Clean passes use every sample once, in the right byte order (MPU6050.cpp:136-219).
THEOREM SamplesNew == Spec => []NewSample
BY LoopInvariant, PTL DEF LoopInv

\* A robot that is off has no integral (INO:355 and 479).
THEOREM IntegralOff == Spec => []IntegralCleared
BY LoopInvariant, PTL DEF LoopInv

\* The accepted offset is within the deviation of the mean of its readings, although it
\* contains what failed attempts left, unless a square overflowed (MPU6050.cpp:79-95).
THEOREM OffsetHolds == Spec => []OffsetNearMean
BY LoopInvariant, PTL DEF LoopInv, DeviationInv

\* Without exception when the robot is turned so slowly that no reading leaves a bound
\* whose square fits the long nine times: 15446 for a long of 32 bits, 236 degrees per
\* second.  The failed attempts before do not matter (MPU6050.cpp:63, 79 and 84).
THEOREM OffsetOfSlowTurns ==
  ASSUME Samples > 1, NEW bound \in Nat, Bounded(bound), 9 * (bound * bound) < HalfLong
  PROVE  Spec => [](Accepted => NearMean)
<1>1. Init => WithinTwice(bound)
  <2> SUFFICES ASSUME Init PROVE WithinTwice(bound)
    OBVIOUS
  <2>1. values = <<>> /\ value = 0 /\ Len(values) = 0 /\ calibrating /\ ~averaged
    BY DEF Init, CalibrationInit
  <2>2. bound * Len(values) = 0 BY <2>1
  <2> QED BY <2>1, <2>2 DEF WithinTwice, Accepted
<1>2. LoopInv /\ WithinTwice(bound) /\ [Next]_vars => WithinTwice(bound)'
  <2> SUFFICES ASSUME LoopInv, WithinTwice(bound), [Next]_vars PROVE WithinTwice(bound)'
    OBVIOUS
  <2>1. CASE Calibration BY <2>1, WithinStep DEF Calibration, LoopInv, TypeOK
  <2>2. CASE EndSetup
    <3>1. values' = <<>> /\ value' = 0 /\ Len(values') = 0 /\ ~averaged'
      BY <2>2 DEF EndSetup
    <3>2. bound * Len(values') = 0 /\ ~Accepted' BY <3>1, SamplesAssumption DEF Accepted
    <3> QED BY <3>1, <3>2 DEF WithinTwice
  <2>3. CASE UNCHANGED calibration BY <2>3 DEF calibration, WithinTwice, Accepted
  <2>4. ASSUME [Next]_vars, ~Calibration, ~EndSetup PROVE UNCHANGED calibration
    BY <2>4 DEF Next, Loop, Message, ReadClock, ReadTo, MPU6050_newData, StatusRead, Kill,
       ControlStep, Tick, Sample, vars
  <2> QED BY <2>1, <2>2, <2>3, <2>4
<1>3. LoopInv /\ WithinTwice(bound) => (Accepted => NearMean)
  BY WithinFits DEF LoopInv, TypeOK, DeviationInv, OffsetNearMean
<1> QED BY <1>1, <1>2, <1>3, LoopInvariant, PTL DEF Spec
================================================================================
