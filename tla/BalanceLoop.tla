------------------------------ MODULE BalanceLoop ------------------------------
(***************************************************************************)
(* loop() of the ESP32 balancing robot after the calibration in setup():    *)
(* message, clock, INT_STATUS, and, when the sensor has a sample, its       *)
(* registers and the control step.  The I2C transfers may fail.  micros()   *)
(* goes round Word, and is stored in signed longs, of which only the bits   *)
(* matter here; what millis() holds meanwhile may be any number.            *)
(* Throttle and steering are in OscRemote, the motors in StepperMotor; the  *)
(* angle filter and the PD controller only compute floats that no guard of  *)
(* the loop but "upright" depends on.                                       *)
(***************************************************************************)
EXTENDS GyroCalibration

CONSTANTS HalfWord,        \* the clock counters go round twice HalfWord (2^31)
          ITERM_MAX_ERROR, ITERM_MAX

ASSUME WordAssumption  == HalfWord \in Nat \ {0}
ASSUME LimitAssumption == ITERM_MAX_ERROR \in Nat /\ ITERM_MAX \in Nat

Word == 2 * HalfWord

VARIABLES place,           \* where setup() and loop() stand
          micros,          \* the clock
          timer_value, timer_old, dt,
          ready,           \* DATA_RDY of the sensor
          accel_t_gyro,    \* the sample: "sound", "swapped" or "torn"
          PID_errorSum,
          enabled,         \* PIN_ENABLE_MOTORS is LOW
          since,           \* history: ticks since the clock reading of the last
                           \* control step, if "synced"
          ago,             \* history: ticks since this pass read the clock
          synced,          \* history: timer_old is that clock reading
          elapsed,         \* history: the true dt, or -1 if there is none
          used,            \* history: a control step has used the sensor's sample
          pass,            \* history: how this pass came to its sample
          clean,           \* history: the last control step was of a clean pass
          stale            \* history: it used a sample again for no known reason

timer   == <<timer_value, timer_old, dt>>
control == <<PID_errorSum, enabled>>
history == <<since, ago, synced, elapsed, used, pass, clean, stale>>
vars    == <<calibration, place, micros, timer, ready, accel_t_gyro, control, history>>

TypeOK ==
  /\ CalibrationTypeOK
  /\ place \in {"setup", "poll", "asleep", "clock", "status", "data"}
  /\ micros \in 0 .. Word - 1
  /\ timer_value \in 0 .. Word - 1 /\ timer_old \in 0 .. Word - 1
  /\ dt \in -HalfWord .. HalfWord - 1
  /\ ready \in BOOLEAN
  /\ accel_t_gyro \in {"sound", "swapped", "torn"}
  /\ PID_errorSum \in -ITERM_MAX .. ITERM_MAX
  /\ enabled \in BOOLEAN
  /\ since \in 0 .. Word - 1 /\ ago \in 0 .. Word - 1 /\ synced \in BOOLEAN
  /\ elapsed \in -1 .. Word - 1
  /\ pass \in {"clean", "lapped", "failed"}
  /\ used \in BOOLEAN /\ clean \in BOOLEAN /\ stale \in BOOLEAN

Init ==
  /\ CalibrationInit
  /\ place = "setup" /\ micros = 0
  /\ timer_value = 0 /\ timer_old = 0 /\ dt = 0
  /\ ready = FALSE /\ accel_t_gyro = "sound"
  /\ PID_errorSum = 0 /\ enabled = FALSE
  /\ since = 0 /\ ago = 0 /\ synced = FALSE /\ elapsed = -1
  /\ used = TRUE /\ pass = "clean" /\ clean = TRUE /\ stale = FALSE

At(p)   == place = p
GoTo(p) == place' = p
Constrain(x, limit) == IF x < -limit THEN -limit ELSE IF x > limit THEN limit ELSE x

(***************************************************************************)
(* The clock and the sensor                                                *)
(***************************************************************************)

\* Bound: a control step at least once in Word microseconds (71 minutes), or none.
Tick ==
  /\ ~At("setup") /\ since < Word - 1 /\ ago < Word - 1
  /\ micros' = IF micros = Word - 1 THEN 0 ELSE micros + 1
  /\ since' = IF synced THEN since + 1 ELSE 0
  /\ ago' = IF place \in {"status", "data"} THEN ago + 1 ELSE 0
  /\ UNCHANGED <<calibration, place, timer, ready, accel_t_gyro, control, synced, elapsed,
                 used, pass, clean, stale>>

\* The sensor has a new sample.
Sample ==
  /\ ~At("setup")
  /\ ready' = TRUE /\ used' = FALSE
  /\ pass' = IF At("data") /\ pass = "clean" THEN "lapped" ELSE pass
  /\ UNCHANGED <<calibration, place, micros, timer, accel_t_gyro, control, since, ago, synced,
                 elapsed, clean, stale>>

(***************************************************************************)
(* setup() and loop()                                                      *)
(***************************************************************************)

\* setup() ends with the motors enabled, without a look at the angle.  The locals of the
\* calibration are gone; what the filter makes of x_gyro_offset is not modelled.
EndSetup ==
  /\ At("setup") /\ ~calibrating /\ GoTo("poll")
  /\ enabled' = TRUE
  /\ values' = <<>> /\ sums' = <<0>> /\ value' = 0 /\ averaged' = FALSE /\ i' = 0 /\ dev' = 0
  /\ x_gyro_offset' = 0 /\ still' = FALSE
  /\ UNCHANGED <<calibrating, micros, timer, ready, accel_t_gyro, PID_errorSum,
                 history>>

\* processOSCMsg(): what it does to the robot is in OscRemote, but for the kill loop.
Message ==
  /\ At("poll") /\ place' \in {"clock", "asleep"}
  /\ UNCHANGED <<calibration, micros, timer, ready, accel_t_gyro, control, history>>

\* As Kill, but the integral stays.
KillKeepsIntegral(millis) ==
  /\ At("asleep") /\ place' \in {"asleep", "clock"}
  /\ timer_old' = millis
  /\ enabled' = FALSE
  /\ synced' = FALSE /\ since' = 0
  /\ UNCHANGED <<calibration, micros, timer_value, dt, ready, accel_t_gyro, PID_errorSum,
                 ago, elapsed, used, pass, clean, stale>>

\* "Kill robot => Sleep": timer_old is set from the other clock.
Kill(millis) ==
  /\ At("asleep") /\ place' \in {"asleep", "clock"}
  /\ PID_errorSum' = 0
  /\ timer_old' = millis
  /\ enabled' = FALSE
  /\ synced' = FALSE /\ since' = 0
  /\ UNCHANGED <<calibration, micros, timer_value, dt, ready, accel_t_gyro,
                 ago, elapsed, used, pass, clean, stale>>

\* The clock is read, and timer_old becomes "old".
ReadTo(old) ==
  /\ At("clock") /\ GoTo("status")
  /\ timer_value' = micros
  /\ timer_old' = old
  /\ ago' = 0
  /\ UNCHANGED <<calibration, micros, dt, ready, accel_t_gyro, control, since, synced,
                 elapsed, used, pass, clean, stale>>

\* As ReadClock, but every pass moves timer_old, with a sample or without.
ReadClockMovesTimer == ReadTo(timer_value)

ReadClock == ReadTo(timer_old)

\* INT_STATUS is taken for "data ready" if "bit" says so.  The sensor clears the bit
\* when it is read; when the transfer fails, status is whatever the stack held.
StatusRead(bit) ==
  /\ At("status")
  /\ \/ GoTo(IF bit THEN "data" ELSE "poll") /\ ready' = FALSE /\ pass' = "clean"
     \/ place' \in {"data", "poll"} /\ UNCHANGED ready /\ pass' = "failed"
  /\ ago' = IF place' = "poll" THEN 0 ELSE ago
  /\ UNCHANGED <<calibration, micros, timer, accel_t_gyro, control, since, synced, elapsed,
                 used, clean, stale>>

\* As MPU6050_newData, but any status counts as data.
NewDataAlways == StatusRead(TRUE)

MPU6050_newData == StatusRead(ready)

\* What the swap makes of a sample that was not transferred.
Swapped(sample) ==
  CASE sample = "sound" -> "swapped" [] sample = "swapped" -> "sound" [] OTHER -> "torn"

\* The bytes arrive completely, or not at all or in part, and are swapped all the same.
MPU6050_read_3axis(complete) ==
  accel_t_gyro' \in IF complete THEN {"sound"} ELSE {Swapped(accel_t_gyro), "torn"}

\* As speedPIControl, but the sum is not limited.
SumUnlimited(error) == PID_errorSum + Constrain(error, ITERM_MAX_ERROR)

\* The integral of speedPIControl().
ErrorSum(error) == Constrain(PID_errorSum + Constrain(error, ITERM_MAX_ERROR), ITERM_MAX)

\* The bits of the difference of two clock readings, and what they are as a long.
Elapsed(now, before) == IF now >= before THEN now - before ELSE now - before + Word
Signed(bits) == IF bits < HalfWord THEN bits ELSE bits - Word

\* A robot that is not ready (74 degrees, 82 while the servo button is pressed) is off.
ControlStep(complete, upright, error) ==
  /\ At("data") /\ GoTo("poll")
  /\ MPU6050_read_3axis(complete)
  /\ dt' = Signed(Elapsed(timer_value, timer_old))
  /\ timer_old' = timer_value
  /\ PID_errorSum' = IF upright THEN ErrorSum(error) ELSE 0
  /\ enabled' = upright
  /\ elapsed' = IF synced THEN since - ago ELSE -1
  /\ since' = ago /\ ago' = 0 /\ synced' = TRUE
  /\ used' = (used \/ complete)
  /\ clean' = (complete /\ pass = "clean")
  /\ stale' = (clean /\ clean' /\ (used \/ accel_t_gyro' # "sound"))
  /\ UNCHANGED <<calibration, micros, timer_value, ready, pass>>

Errors == -ITERM_MAX_ERROR - 1 .. ITERM_MAX_ERROR + 1

Loop == \/ EndSetup \/ Message \/ ReadClock \/ MPU6050_newData
        \/ \E millis \in 0 .. Word - 1 : Kill(millis)
        \/ \E complete, upright \in BOOLEAN, error \in Errors :
             ControlStep(complete, upright, error)

Calibration == (Calibrate \/ HoldStill) /\ UNCHANGED <<place, micros, timer, ready,
                                                        accel_t_gyro, control, history>>

Next == Calibration \/ Loop \/ Tick \/ Sample

\* setup() runs on; nobody need hold the robot still.
Fairness == WF_vars(Calibrate /\ UNCHANGED <<place, micros, timer, ready, accel_t_gyro,
                                              control, history>>)

Spec == Init /\ [][Next]_vars /\ Fairness

(***************************************************************************)
(* Properties                                                              *)
(***************************************************************************)

\* dt is the time between the clock readings of two control steps, although the clock
\* goes round, passes without a sample read it too and the sample is taken later.  Two
\* steps have no such dt: the first one after setup() or the kill loop, whose wrong dt
\* lasts for that step alone, and one that comes HalfWord microseconds (35.8 minutes) or
\* more after the last, whose dt is negative.
DtIsElapsed == elapsed \in 0 .. HalfWord - 1 => dt = elapsed

\* In a pass without a failed transfer, after another one, the control step has a sample
\* in the right byte order that no step used before.  A pass is not clean either if the
\* sensor sampled between INT_STATUS and the data: it then announces the same sample again.
NewSample == ~stale

\* The motors are never switched on with an integral from before the fall or the kill.
IntegralCleared == ~enabled => PID_errorSum = 0

\* What makes the first two inductive: the clock readings lie as many ticks back as the
\* history says, and what DATA_RDY announces was not used unless a pass was not clean.
InPass == place \in {"status", "data"}
TimerInv ==
  /\ synced => timer_old = Elapsed(micros, since)
  /\ InPass => timer_value = Elapsed(micros, ago) /\ (synced => ago <= since)
  /\ ~InPass => ago = 0
SampleInv ==
  /\ ready /\ clean => ~used
  /\ At("data") /\ pass = "clean" => ~ready /\ (clean => ~used)

LoopInv == TypeOK /\ DeviationInv /\ TimerInv /\ SampleInv /\ DtIsElapsed /\ NewSample /\ IntegralCleared
================================================================================
