-------------------------- MODULE StepperMotor_proofs --------------------------
(***************************************************************************)
(* Theorems about the stepper motor, for every speed limit, acceleration,  *)
(* microstepping factor and timer that satisfy the assumptions.            *)
(***************************************************************************)
EXTENDS StepperMotor, TLAPS

\* The ramp: the new speed is a speed, no call changes it by more than
\* MAX_ACCEL, and a stop command ends at 0 or takes MAX_ACCEL off.
LEMMA RampLemma ==
  ASSUME NEW s \in Speeds, NEW t \in Speeds
  PROVE  /\ Ramp(s, t) \in Speeds
         /\ Abs(Ramp(s, t) - s) <= MAX_ACCEL
         /\ t = 0 /\ Ramp(s, t) # 0 => Abs(Ramp(s, t)) = Abs(s) - MAX_ACCEL
BY DriveAssumption DEF Speeds, Ramp, Abs

\* A product with the factor is monotone: |s| * Factor stays within the word.
LEMMA ProductInWord ==
  ASSUME NEW s \in Speeds
  PROVE  /\ s * Factor \in Int
         /\ Abs(s) \in 0 .. MAX_CONTROL_OUTPUT
         /\ Abs(s) * Factor <= MAX_CONTROL_OUTPUT * Factor
         /\ Abs(s * Factor) = Abs(s) * Factor
         /\ Sign(s * Factor) = Sign(s)
<1>1. s \in Int /\ Factor \in Nat \ {0} /\ MAX_CONTROL_OUTPUT \in Nat
  BY DriveAssumption DEF Speeds
<1>2. Abs(s) \in 0 .. MAX_CONTROL_OUTPUT
  BY <1>1 DEF Speeds, Abs
<1>3. Abs(s) * Factor <= MAX_CONTROL_OUTPUT * Factor
  BY <1>1, <1>2
<1>4. CASE s < 0
  <2>1. s * Factor < 0
    BY <1>1, <1>4
  <2>2. -(s * Factor) = (-s) * Factor
    BY <1>1
  <2> QED BY <1>1, <1>2, <1>3, <1>4, <2>1, <2>2 DEF Abs, Sign
<1>5. CASE s = 0
  BY <1>1, <1>2, <1>3, <1>5 DEF Abs, Sign
<1>6. CASE s > 0
  <2>1. s * Factor > 0
    BY <1>1, <1>6
  <2> QED BY <1>1, <1>2, <1>3, <1>6, <2>1 DEF Abs, Sign
<1> QED BY <1>1, <1>4, <1>5, <1>6

\* The conversion to steps/second never wraps its int16_t.
LEMMA NoOverflow ==
  ASSUME NEW s \in Speeds
  PROVE  StepRate(s) = s * Factor
<1> DEFINE x == s * Factor
<1>1. x \in Int /\ HalfWord \in Nat /\ -HalfWord < x /\ x < HalfWord
  BY ProductInWord, DriveAssumption, WordAssumption DEF Abs
<1>2. x + HalfWord \in 0 .. (2 * HalfWord - 1)
  BY <1>1
<1>3. (x + HalfWord) % (2 * HalfWord) = x + HalfWord
  BY <1>1, <1>2
<1> QED BY <1>1, <1>3 DEF StepRate, Int16

\* What a division gives: the largest quotient that does not exceed.
LEMMA Quotient ==
  ASSUME NEW n \in Nat, NEW d \in Nat \ {0}
  PROVE  /\ n \div d \in Nat
         /\ (n \div d) * d <= n
         /\ (n \div d + 1) * d > n
         /\ d <= n => n \div d >= 1
OBVIOUS

\* The alarm value: within the timer, not 0, and the commanded rate rounded up.
LEMMA PeriodLemma ==
  ASSUME NEW s \in Speeds
  PROVE  LET p == PeriodFor(StepRate(s)) IN
         /\ p \in 1 .. ZERO_SPEED
         /\ p * Abs(s) * Factor <= TimerRate
         /\ p < ZERO_SPEED => (p + 1) * Abs(s) * Factor > TimerRate
<1> DEFINE r == Abs(s) * Factor
           p == PeriodFor(StepRate(s))
           q == TimerRate \div r
<1>1. r \in Nat /\ r <= TimerRate
  BY ProductInWord, DriveAssumption, TimerAssumption
<1>2. Abs(StepRate(s)) = r /\ (StepRate(s) = 0 <=> r = 0)
  BY NoOverflow, ProductInWord DEF Abs
<1>3. Abs(s) \in Nat
  BY ProductInWord, DriveAssumption
<1>4. \A k \in Nat : k * Abs(s) * Factor = k * r
  BY <1>3, DriveAssumption
<1>5. CASE r = 0
  BY <1>2, <1>4, <1>5, TimerAssumption DEF PeriodFor
<1>6. CASE r # 0
  <2>1. q \in Nat /\ q * r <= TimerRate /\ (q + 1) * r > TimerRate
    BY <1>1, <1>6, Quotient, TimerAssumption
  <2>2. q >= 1
    BY <1>1, <1>6, Quotient, TimerAssumption
  <2>3. p = IF q > ZERO_SPEED THEN ZERO_SPEED ELSE q
    BY <1>2, <1>6 DEF PeriodFor
  <2>4. p \in 1 .. ZERO_SPEED /\ p <= q
    BY <2>1, <2>2, <2>3, TimerAssumption
  <2>5. p * r <= q * r
    BY <1>1, <2>1, <2>4
  <2>6. p * r <= TimerRate
    BY <1>1, <2>1, <2>4, <2>5, TimerAssumption
  <2>7. p < ZERO_SPEED => p = q
    BY <2>1, <2>3, TimerAssumption
  <2>8. p < ZERO_SPEED => (p + 1) * r > TimerRate
    BY <2>1, <2>7
  <2>9. p * Abs(s) * Factor = p * r /\ (p + 1) * Abs(s) * Factor = (p + 1) * r
    BY <1>4, <2>4, TimerAssumption
  <2> HIDE DEF q, r
  <2> QED BY <2>4, <2>6, <2>8, <2>9
<1> QED BY <1>1, <1>5, <1>6

--------------------------------------------------------------------------------

\* The actions that only move a pulse, a pin or the program counter.
LEMMA OtherSteps ==
  ASSUME [Next]_vars, ~SetSpeed, ~SetDir
  PROVE  /\ UNCHANGED <<speed, dir, stops>>
         /\ at' = "dir" => at = "dir"
BY DEF Next, Loop, SetPin, SetAlarm, Disable, ResetSteps, Flat, KillLoop, Drive, Call,
       Pulse, vars

\* Types, for every value of the constants: the speed never leaves the range of
\* the control output and the alarm value fits the timer.
THEOREM TypeCorrect == Spec => []TypeOK
<1>1. Init => TypeOK
  <2> SUFFICES ASSUME Init PROVE TypeOK
    OBVIOUS
  <2>1. 0 \in Speeds /\ ZERO_SPEED \in 0 .. ZERO_SPEED
    BY DriveAssumption, TimerAssumption DEF Speeds
  <2>2. enabled \in BOOLEAN /\ pin \in BOOLEAN
    BY DEF Init
  <2> QED BY <2>1, <2>2 DEF Init, TypeOK
<1>2. TypeOK /\ [Next]_vars => TypeOK'
  <2> SUFFICES ASSUME TypeOK, [Next]_vars PROVE TypeOK'
    OBVIOUS
  <2> USE DEF TypeOK
  <2>1. CASE SetSpeed
    <3>1. speed' \in Speeds
      BY <2>1, RampLemma DEF SetSpeed
    <3>2. stops' \in Nat
      BY <2>1 DEF SetSpeed
    <3> QED BY <2>1, <3>1, <3>2 DEF SetSpeed
  <2>2. CASE SetDir
    BY <2>2 DEF SetDir, Sign
  <2>3. CASE SetPin
    BY <2>3, PinAssumption DEF SetPin, LevelFor
  <2>4. CASE SetAlarm
    <3>1. period' \in 0 .. ZERO_SPEED
      BY <2>4, PeriodLemma, TimerAssumption DEF SetAlarm
    <3> QED BY <2>4, <3>1 DEF SetAlarm
  <2>5. CASE Disable \/ ResetSteps
    <3>1. enabled' \in BOOLEAN
      BY <2>5 DEF Disable, ResetSteps
    <3> QED BY <2>5, <3>1 DEF Disable, ResetSteps
  <2>6. CASE Flat \/ KillLoop
    <3>1. enabled' \in BOOLEAN
      BY <2>6 DEF Flat, KillLoop
    <3>2. 0 \in Speeds
      BY DriveAssumption DEF Speeds
    <3> QED BY <2>6, <3>1, <3>2 DEF Flat, KillLoop, Call
  <2>7. CASE \E t \in Commands : Drive(t)
    BY <2>7, DriveAssumption DEF Drive, Call
  <2>8. CASE Pulse
    <3>1. Moved \in Int
      BY DEF Moved
    <3>2. steps' \in Int /\ slip' \in Int
      BY <2>8, <3>1 DEF Pulse
    <3> QED BY <2>8, <3>2 DEF Pulse
  <2>9. CASE UNCHANGED vars
    BY <2>9 DEF vars
  <2> QED BY <2>1, <2>2, <2>3, <2>4, <2>5, <2>6, <2>7, <2>8, <2>9 DEF Next, Loop
<1> QED BY <1>1, <1>2, PTL DEF Spec

\* No call of setMotorSpeed changes the speed by more than MAX_ACCEL.
THEOREM AccelerationIsLimited == Spec => AccelerationLimited
<1>1. TypeOK /\ [Next]_vars => [Abs(speed' - speed) <= MAX_ACCEL]_vars
  <2> SUFFICES ASSUME TypeOK, [Next]_vars PROVE Abs(speed' - speed) <= MAX_ACCEL
    OBVIOUS
  <2>1. CASE SetSpeed
    BY <2>1, RampLemma DEF SetSpeed, TypeOK
  <2>2. CASE speed' = speed
    BY <2>2, DriveAssumption DEF TypeOK, Speeds, Abs
  <2>3. CASE SetDir
    BY <2>2, <2>3 DEF SetDir
  <2> QED BY <2>1, <2>2, <2>3, OtherSteps
<1> QED BY <1>1, TypeCorrect, PTL DEF Spec, AccelerationLimited

\* A robot that is told to stop is at rest after MAX_CONTROL_OUTPUT / MAX_ACCEL
\* calls, rounded up, from whatever speed it had.
THEOREM StopsInTimeHolds == Spec => []StopsInTime
<1>1. Init => StopsInTime
  BY DEF Init, StopsInTime
<1>2. TypeOK /\ StopsInTime /\ [Next]_vars => StopsInTime'
  <2> SUFFICES ASSUME TypeOK, StopsInTime, [Next]_vars PROVE StopsInTime'
    OBVIOUS
  <2>1. CASE SetSpeed
    <3>1. /\ speed \in Speeds /\ target \in Speeds /\ stops \in Nat
          /\ speed' = Ramp(speed, target) /\ speed' \in Speeds
      BY <2>1, RampLemma DEF SetSpeed, TypeOK
    <3>2. Abs(speed') \in 0 .. MAX_CONTROL_OUTPUT /\ Abs(speed) \in 0 .. MAX_CONTROL_OUTPUT
      BY <3>1, ProductInWord
    <3>3. CASE target # 0
      BY <2>1, <3>2, <3>3, DriveAssumption DEF SetSpeed, StopsInTime
    <3>4. CASE target = 0 /\ speed' # 0
      <4>1. Abs(speed') = Abs(speed) - MAX_ACCEL
        BY <3>1, <3>4, RampLemma
      <4>2. speed # 0
        BY <3>1, <3>2, <4>1, DriveAssumption DEF Abs
      <4>3. Abs(speed) + MAX_ACCEL * stops <= MAX_CONTROL_OUTPUT
        BY <4>2 DEF StopsInTime
      <4>4. stops' = stops + 1 \/ stops' = stops
        BY <2>1, <3>4 DEF SetSpeed
      <4>5. MAX_ACCEL * (stops + 1) = MAX_ACCEL * stops + MAX_ACCEL
        BY <3>1, DriveAssumption
      <4>6. MAX_ACCEL * stops \in Nat
        BY <3>1, DriveAssumption
      <4> QED BY <3>2, <4>1, <4>3, <4>4, <4>5, <4>6, DriveAssumption DEF StopsInTime
    <3>5. CASE speed' = 0
      BY <3>5 DEF StopsInTime
    <3> QED BY <3>3, <3>4, <3>5
  <2>2. CASE SetDir
    BY <2>2 DEF SetDir, StopsInTime
  <2>3. CASE ~SetSpeed /\ ~SetDir
    BY <2>3, OtherSteps DEF StopsInTime
  <2> QED BY <2>1, <2>2, <2>3
<1> QED BY <1>1, <1>2, TypeCorrect, PTL DEF Spec

\* Outside the store of dir_M1 the direction is the sign of the speed: no
\* reachable speed overflows the int16_t of the conversion to steps/second.
THEOREM DirectionHolds == Spec => []DirectionOfSpeed
<1>1. Init => DirectionOfSpeed
  BY DEF Init, DirectionOfSpeed, Sign
<1>2. TypeOK /\ DirectionOfSpeed /\ [Next]_vars => DirectionOfSpeed'
  <2> SUFFICES ASSUME TypeOK, DirectionOfSpeed, [Next]_vars PROVE DirectionOfSpeed'
    OBVIOUS
  <2>1. CASE SetSpeed
    BY <2>1 DEF SetSpeed, DirectionOfSpeed
  <2>2. CASE SetDir
    BY <2>2, NoOverflow, ProductInWord DEF SetDir, DirectionOfSpeed, TypeOK
  <2>3. CASE ~SetSpeed /\ ~SetDir
    <3>1. UNCHANGED <<speed, dir>> /\ (at' # "dir" => at # "dir" \/ SetDir)
      BY <2>3, OtherSteps DEF Next, Loop, SetPin, SetAlarm, Disable, ResetSteps, Flat,
         KillLoop, Drive, Call, Pulse, vars
    <3> QED BY <2>3, <3>1 DEF DirectionOfSpeed
  <2> QED BY <2>1, <2>2, <2>3
<1> QED BY <1>1, <1>2, TypeCorrect, PTL DEF Spec

\* Between two calls the alarm value is that of the speed.
AlarmOfSpeed == at \in {"loop", "reset", "disable", "speed"} => period = PeriodFor(StepRate(speed))

\* Between two calls the timer gives the commanded step rate, never a faster
\* one, and its alarm value is never 0.
THEOREM RateHolds == Spec => []RateAsCommanded
<1>1. Init => AlarmOfSpeed
  <2>1. 0 \in Speeds /\ Abs(0) = 0
    BY DriveAssumption DEF Speeds, Abs
  <2>2. StepRate(0) = 0
    BY <2>1, NoOverflow, DriveAssumption
  <2> QED BY <2>2 DEF Init, AlarmOfSpeed, PeriodFor
<1>2. AlarmOfSpeed /\ [Next]_vars => AlarmOfSpeed'
  BY DEF AlarmOfSpeed, Next, Loop, SetSpeed, SetDir, SetPin, SetAlarm, Disable,
         ResetSteps, Flat, KillLoop, Drive, Call, Pulse, vars
<1>3. TypeOK /\ AlarmOfSpeed => RateAsCommanded
  <2> SUFFICES ASSUME TypeOK, AlarmOfSpeed, at = "loop" PROVE RateAsCommanded
    BY DEF RateAsCommanded
  <2>1. period = PeriodFor(StepRate(speed)) /\ speed \in Speeds
    BY DEF AlarmOfSpeed, TypeOK
  <2> QED BY <2>1, PeriodLemma, TimerAssumption DEF RateAsCommanded
<1> QED BY <1>1, <1>2, <1>3, TypeCorrect, PTL DEF Spec

\* The counter loses the position only in the window of a change of direction,
\* or while the driver is off.
THEOREM SlipHolds == Spec => SlipOnlyAtReversal
<1> DEFINE Follows == dir # 0 /\ at # "pin" => pin = LevelFor(dir)
           A == slip' # slip => at = "pin" \/ ~enabled \/ at = "reset"
<1>1. Init => Follows
  BY DEF Init
<1>2. Follows /\ [Next]_vars => Follows'
  BY DEF Next, Loop, SetSpeed, SetDir, SetPin, SetAlarm, Disable, ResetSteps, Flat,
         KillLoop, Drive, Call, Pulse, vars
<1>3. TypeOK /\ Follows /\ [Next]_vars => [A]_vars
  <2> SUFFICES ASSUME TypeOK, Follows, [Next]_vars, slip' # slip, at # "pin", enabled
               PROVE  at = "reset"
    OBVIOUS
  <2>1. CASE Pulse
    <3>1. dir \in {-1, 1} /\ pin = LevelFor(dir)
      BY <2>1 DEF Pulse, TypeOK
    <3>2. Moved = dir
      BY <3>1, PinAssumption DEF Moved, LevelFor
    <3> QED BY <2>1, <3>2 DEF Pulse, TypeOK
  <2>2. CASE ~Pulse
    BY <2>2 DEF Next, Loop, SetSpeed, SetDir, SetPin, SetAlarm, Disable, ResetSteps,
         Flat, KillLoop, Drive, Call, vars
  <2> QED BY <2>1, <2>2
<1> QED BY <1>1, <1>2, <1>3, TypeCorrect, PTL DEF Spec, SlipOnlyAtReversal
================================================================================
