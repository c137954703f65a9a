----------------------------- MODULE StepperMotor -----------------------------
(***************************************************************************)
(* One stepper motor of the ESP32 balancing robot: setMotorSpeedM1() as    *)
(* loop() calls it, the timer interrupt timer1ISR() that makes the step    *)
(* pulses, and the driver enable pin.  setMotorSpeedM2() and timer2ISR()   *)
(* are the same code with the opposite level of the direction pin, which   *)
(* is the constant ForwardLevel.                                           *)
(*                                                                         *)
(* The interrupt runs on the core of loop() and may hit between any two    *)
(* of its stores; it is one action because nothing of loop() runs in it.   *)
(*                                                                         *)
(* "slip" and "stops" are history variables: slip is how far the step      *)
(* counter is off the true position, stops counts the stop commands in a   *)
(* row.  SlipBound and StepBound bound the pulses that are looked at.      *)
(***************************************************************************)
EXTENDS Integers

CONSTANTS MAX_CONTROL_OUTPUT, MAX_ACCEL,
          Factor,        \* 25 or 50: steps/second per unit of speed
          HalfWord,      \* 2^15: int16_t holds -HalfWord .. HalfWord - 1
          TimerRate,     \* 2000000 ticks per second
          ZERO_SPEED,    \* the longest timer period, 0xffffff
          ForwardLevel,  \* the level of the direction pin for a positive speed
          Commands,      \* the speeds the control step asks for
          StepBound, SlipBound

Abs(x)  == IF x < 0 THEN -x ELSE x
Sign(x) == IF x < 0 THEN -1 ELSE IF x = 0 THEN 0 ELSE 1

Speeds == -MAX_CONTROL_OUTPUT .. MAX_CONTROL_OUTPUT

ASSUME DriveAssumption ==
         /\ MAX_CONTROL_OUTPUT \in Nat
         /\ MAX_ACCEL \in Nat \ {0}
         /\ Factor \in Nat \ {0}
         /\ Commands \subseteq Speeds

\* MICROSTEPPING 8 and 16 both satisfy it: 500 * 25 and 500 * 50 fit an int16_t.
ASSUME WordAssumption == HalfWord \in Nat /\ MAX_CONTROL_OUTPUT * Factor < HalfWord

\* The fastest rate is slower than the timer: no alarm value is 0.
ASSUME TimerAssumption == /\ TimerRate \in Nat /\ ZERO_SPEED \in Nat \ {0}
                          /\ MAX_CONTROL_OUTPUT * Factor <= TimerRate
ASSUME PinAssumption   == ForwardLevel \in BOOLEAN
ASSUME BoundAssumption == StepBound \in Nat /\ SlipBound \in Nat

VARIABLES at,       \* the next store of loop()
          order,    \* what loop() is doing: "drive", "flat" or "kill"
          target,   \* tspeed
          speed,    \* speed_M1
          dir,      \* dir_M1
          pin,      \* the level of PIN_MOTOR1_DIR
          period,   \* the alarm value of timer1
          steps,    \* steps1
          enabled,  \* PIN_ENABLE_MOTORS is LOW
          slip, stops

vars == <<at, order, target, speed, dir, pin, period, steps, enabled, slip, stops>>

TypeOK ==
  /\ at \in {"loop", "speed", "dir", "pin", "alarm", "disable", "reset"}
  /\ order \in {"drive", "flat", "kill"}
  /\ target \in Speeds
  /\ speed \in Speeds
  /\ dir \in {-1, 0, 1}
  /\ pin \in BOOLEAN
  /\ period \in 0 .. ZERO_SPEED
  /\ steps \in Int
  /\ enabled \in BOOLEAN
  /\ slip \in Int
  /\ stops \in Nat

\* As setup() leaves them after initTimers() and enabling the motors.
Init ==
  /\ at = "loop" /\ order = "drive"
  /\ target = 0 /\ speed = 0 /\ dir = 0
  /\ pin = FALSE
  /\ period = ZERO_SPEED
  /\ steps = 0 /\ slip = 0 /\ stops = 0
  /\ enabled = TRUE

(***************************************************************************)
(* setMotorSpeedM1(target), store by store.                                *)
(***************************************************************************)

\* As Ramp, without the branch for a growing speed.
RampDown(s, t) == IF s - t > MAX_ACCEL THEN s - MAX_ACCEL ELSE t

\* As Ramp, without the last step to the target.
RampShort(s, t) == IF s - t > MAX_ACCEL THEN s - MAX_ACCEL
                   ELSE IF s - t < -MAX_ACCEL THEN s + MAX_ACCEL
                   ELSE s

\* MAX_ACCEL bounds the change of speed of one call.
Ramp(s, t) == IF s - t > MAX_ACCEL THEN s - MAX_ACCEL
              ELSE IF s - t < -MAX_ACCEL THEN s + MAX_ACCEL
              ELSE t

Int16(x) == ((x + HalfWord) % (2 * HalfWord)) - HalfWord

\* As StepRate, at a microstepping twice as fine.
StepRateFine(s) == Int16(s * 2 * Factor)

\* The local variable "speed" of setMotorSpeedM1(), an int16_t.
StepRate(s) == Int16(s * Factor)

\* As PeriodFor, without the check for the minimum speed.
PeriodForAny(rate) == IF rate = 0 THEN ZERO_SPEED ELSE TimerRate \div Abs(rate)

PeriodFor(rate) ==
  IF rate = 0 \/ TimerRate \div Abs(rate) > ZERO_SPEED
    THEN ZERO_SPEED
    ELSE TimerRate \div Abs(rate)

LevelFor(d) == IF d = 1 THEN ForwardLevel ELSE ~ForwardLevel

SetSpeed ==
  /\ at = "speed" /\ at' = "dir"
  /\ speed' = Ramp(speed, target)
  /\ stops' = IF target # 0 THEN 0
               ELSE IF stops < MAX_CONTROL_OUTPUT THEN stops + 1 ELSE stops
  /\ UNCHANGED <<order, target, dir, pin, period, steps, enabled, slip>>

\* As SetDir, but only a positive speed sets the pin.
SetDirForward ==
  /\ at = "dir"
  /\ dir' = Sign(StepRate(speed))
  /\ at' = IF dir' = 1 THEN "pin" ELSE "alarm"
  /\ UNCHANGED <<order, target, speed, pin, period, steps, enabled, slip, stops>>

\* As SetDir, but speed 0 leaves the direction alone.
SetDirMoving ==
  /\ at = "dir"
  /\ dir' = IF StepRate(speed) = 0 THEN dir ELSE Sign(StepRate(speed))
  /\ at' = IF StepRate(speed) = 0 THEN "alarm" ELSE "pin"
  /\ UNCHANGED <<order, target, speed, pin, period, steps, enabled, slip, stops>>

SetDir ==
  /\ at = "dir"
  /\ dir' = Sign(StepRate(speed))
  /\ at' = IF dir' = 0 THEN "alarm" ELSE "pin"
  /\ UNCHANGED <<order, target, speed, pin, period, steps, enabled, slip, stops>>

SetPin ==
  /\ at = "pin" /\ at' = "alarm"
  /\ pin' = LevelFor(dir)
  /\ UNCHANGED <<order, target, speed, dir, period, steps, enabled, slip, stops>>

\* As SetAlarm, but from the speed asked for, not the one of the ramp.
SetAlarmTarget ==
  /\ at = "alarm"
  /\ at' = IF order = "drive" THEN "loop" ELSE IF order = "flat" THEN "reset" ELSE "disable"
  /\ period' = PeriodFor(StepRate(target))
  /\ UNCHANGED <<order, target, speed, dir, pin, steps, enabled, slip, stops>>

SetAlarm ==
  /\ at = "alarm"
  /\ at' = IF order = "drive" THEN "loop" ELSE IF order = "flat" THEN "reset" ELSE "disable"
  /\ period' = PeriodFor(StepRate(speed))
  /\ UNCHANGED <<order, target, speed, dir, pin, steps, enabled, slip, stops>>

(***************************************************************************)
(* The callers: the control step of an upright robot, that of one that     *)
(* lies flat, and the kill loop of the settings screen.                    *)
(***************************************************************************)
Call(what, t) ==
  /\ at = "loop" /\ at' = "speed"
  /\ order' = what /\ target' = t
  /\ UNCHANGED <<speed, dir, pin, period, steps, slip, stops>>

Drive(t) == Call("drive", t) /\ enabled' = TRUE
Flat     == Call("flat", 0) /\ enabled' = FALSE
KillLoop == Call("kill", 0) /\ UNCHANGED enabled

\* The kill loop disables the driver after setting the speed.
Disable ==
  /\ at = "disable" /\ at' = "loop"
  /\ enabled' = FALSE
  /\ UNCHANGED <<order, target, speed, dir, pin, period, steps, slip, stops>>

\* "RESET steps"
ResetSteps ==
  /\ at = "reset" /\ at' = "loop"
  /\ steps' = 0 /\ slip' = 0
  /\ UNCHANGED <<order, target, speed, dir, pin, period, enabled, stops>>

(***************************************************************************)
(* timer1ISR(): one pulse.  The motor moves by the level of the direction  *)
(* pin, if the driver is enabled, the counter counts by dir_M1.            *)
(***************************************************************************)
Moved == IF ~enabled THEN 0 ELSE IF pin = ForwardLevel THEN 1 ELSE -1

Pulse ==
  /\ dir # 0
  /\ Abs(steps - dir) <= StepBound /\ Abs(slip + Moved - dir) <= SlipBound
  /\ steps' = IF dir > 0 THEN steps - 1 ELSE steps + 1
  /\ slip' = slip + Moved - dir
  /\ UNCHANGED <<at, order, target, speed, dir, pin, period, enabled, stops>>

Loop == \/ SetSpeed \/ SetDir \/ SetPin \/ SetAlarm \/ Disable \/ ResetSteps
        \/ Flat \/ KillLoop \/ \E t \in Commands : Drive(t)

Next == Loop \/ Pulse

\* loop() runs for ever; the sensor delivers data at 100 Hz.
Spec == Init /\ [][Next]_vars /\ WF_vars(Loop)

(***************************************************************************)
(* Properties                                                              *)
(***************************************************************************)

\* No call changes the speed by more than MAX_ACCEL, whatever was asked for and
\* whatever call came before: "WE LIMIT MAX ACCELERATION of the motors".
AccelerationLimited == [][Abs(speed' - speed) <= MAX_ACCEL]_vars

\* A stopped or fallen robot loses MAX_ACCEL of speed per call: after enough
\* stop commands in a row it is at rest.
StopsInTime == speed # 0 => Abs(speed) + MAX_ACCEL * stops <= MAX_CONTROL_OUTPUT

\* The direction is the sign of the speed: the conversion to steps/second does
\* not overflow its int16_t for any reachable speed.
DirectionOfSpeed == at \notin {"dir"} => dir = Sign(speed)

\* Between two calls the alarm value gives the commanded step rate, rounded up
\* to whole timer ticks, unless that is longer than the longest period.
RateAsCommanded ==
  at = "loop" =>
    /\ period * Abs(speed) * Factor <= TimerRate
    /\ period >= 1
    /\ period < ZERO_SPEED => (period + 1) * Abs(speed) * Factor > TimerRate

\* The step counter loses the true position only by a pulse that comes between
\* the new dir_M1 and the new level of the pin, or while the driver is off.
SlipOnlyAtReversal ==
  [][slip' # slip => at = "pin" \/ ~enabled \/ at = "reset"]_vars

\* A robot that is only told to stop comes to rest.
ComesToRest == <>[](order \in {"flat", "kill"}) => <>[](dir = 0)

=============================================================================
