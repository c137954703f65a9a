# A TLA+ model of the balancing robots

The repository is an Arduino sketchbook: a dozen sketches for two-wheeled
balancing robots and their remote controls, and the `libraries/` folder they are
built with. This directory holds TLA+ modules that model the parts of the
sketches whose correctness is not visible in one line of code, TLC
configurations that check them on small instances, and TLAPS proofs of the
properties that hold for every value of the constants.

    tlc -config OscRemote.cfg MCOscRemote            # one run
    tlapm OscRemote_proofs.tla                       # one module of proofs

`PROJECT.json` lists the components, the runs, which lines of the source each
definition stands for, the hazards of the code and the findings.

## 1. Inventory

| Part | State | Operations | What makes it correct |
|---|---|---|---|
| **ESP32 robot: remote control** (`esp32_wifi_balancing_robot.ino`, `globals.cpp`, `defines.h`) | `OSCnewMessage`, `OSCpage`, `OSCfader[4]`, `OSCpush[4]`, `OSCtoggle[4]`, shared by two tasks without a lock; `mode`, `max_*`, `throttle`, `steering`, `K*_user`, `modifing_control_parameters` | the HTTP GET handler (task of the web server); `processOSCMsg()` (task of `loop()`) | what the cells hold is applied; a slider of one page does not stay in the other; limits go with the mode; only a kill puts the robot to sleep, and it wakes |
| **ESP32 robot: stepper motors** (`Motors.cpp`, `Timers.cpp`) | `speed_M1/2`, `dir_M1/2`, `steps1/2`, the alarm value of each timer, direction, step and enable pins | `setMotorSpeedM1/2()`, `timer1ISR()`, `timer2ISR()` | acceleration limit, no overflow, direction and rate as commanded, step counter true |
| **ESP32 robot: balance loop** (`loop()`, `Control.cpp`) | `dt`, `timer_old`, `PID_errorSum`, `control_output`, gains | the 100 Hz control step, PI speed control, PD stability control | time base, wind-up, raise-up gains |
| **ESP32 robot: IMU** (`MPU6050.cpp`) | `accel_t_gyro`, `angle`, `x_gyro_offset` | `newData`, `read_3axis`, `calibrate`, `getAngle` | errors of the bus are noticed |
| **DMP sketches** (`Final_balance_code`, `Balance-robot`, `robo`, `Arduino_Main_Program`, `SELF_BALANCING_ROBOT`) | the FIFO and `INT_STATUS` of the sensor, `mpuInterrupt`, `mpuIntStatus`, `fifoCount`, `input` | `dmpDataReady()`, `loop()`, `clint()` | reads stay inside the FIFO and aligned; the PID uses the newest packet; overflow and backlog recover |
| **Bluetooth robot** (`SELF_BALANCING_ROBOT.ino`) | two controllers, setpoints, gains, unread bytes of the phone | `new_pid()`, `Bt_control()`, `change_pid()`, `compensate_slack()` | commands taken once, gains those of the last answer, no wait without an end but for a silent phone |
| **Nano + ESP8266** (`nanoCode`, `esp8266Code`) | two line buffers with a "complete" flag, gains, sampling interrupt | `serialEvent()`, `handleTuning()`, command dispatch, timer ISR | a reply belongs to its request; lines are not merged |
| **ESP8266 alone**, **WiFi car**, **HTTP GPIO sketches** | last command, pin levels | one polling loop each | a command acts once |
| **L298 controller, PID library** (`LMotorController`, `PID_v1`) | `_currentSpeed`; `lastTime`, `ITerm` | `move`, `turn*`, `stopMoving`; `Compute` | clamping, cached speed, time test |
| calibration and test sketches, vendored libraries | | | not modelled, see section 6 |

How the parts of the ESP32 robot interact: the handler and `loop()` share the OSC
globals; `processOSCMsg()` writes the throttle, the steering and the gains that
the control step reads, and in its kill loop calls the motors itself and sets
`timer_old`; the control
step calls `setMotorSpeedM1/2()`; the timer interrupts read `dir_M1/2`, which
these write, and write `steps1/2`, which the control step resets.

The hard behaviours are the two tasks without a lock, the reuse of the same four
fader cells by two screens, the interrupt between two stores of a motor call,
the sensor that goes on sampling while the loop is elsewhere, transfers that fail,
clocks that wrap, serial lines and Bluetooth messages that are cut and merged, and
functions that wait for a client with the robot unattended.

## 2. Modules

| Module | Models | Checked by | Proofs |
|---|---|---|---|
| `OscRemote` | handler and `processOSCMsg()`, one action per access to a shared global | `MCOscRemote`, `OscRemote*.cfg` | `OscRemote_proofs` |
| `StepperMotor` | `setMotorSpeedM1()` store by store, its three callers, `timer1ISR()` | `MCStepperMotor`, `StepperMotor.cfg` | `StepperMotor_proofs` |
| `Tuner` | what the tuning page of the Nano/ESP8266 robot promises | `SerialBridge` (refinement) | `SerialBridge_proofs` |
| `SerialBridge` | both ends of the serial line between ESP8266 and Nano | `MCSerialBridge`, `SerialBridge*.cfg` | `SerialBridge_proofs` |
| `DmpFifo` | the sensor's FIFO and `loop()` of the DMP sketches, one action per I2C transaction | `MCDmpFifo`, `DmpFifo*.cfg` | `DmpFifo_proofs` |
| `GyroCalibration` | `MPU6050_calibrate()` | `BalanceLoop`, which extends it | `GyroCalibration_proofs` |
| `BalanceLoop` | `loop()` of the ESP32 robot: clock, IMU driver, control step, kill loop | `MCBalanceLoop`, `BalanceLoop.cfg` | `BalanceLoop_proofs` |
| `MotorController` | the library `LMotorController`, one action per call | `MCMotorController`, `MotorController.cfg` | `MotorController_proofs` |
| `BluetoothRobot` | `SELF_BALANCING_ROBOT` with the library `PID_v1`, and the phone | `MCBluetoothRobot`, `BluetoothRobot.cfg` | `BluetoothRobot_proofs` |

### OscRemote

`handler` and `loop` are the program counters of the two tasks. The handler is
`Receive` (sets `OSCnewMessage` before anything else), `SelectPage` (`OSCpage`),
`Store` (the value). `loop()` is `TakeMessage`/`NoMessage`, then one action for each
statement of `processOSCMsg()` that reads or writes a shared global, then
`ControlStep`. Consecutive stores of `loop()` are one action: a request stores a
single cell, so a store of a request between them has the same effect before or
after them.

A fader value is a number of units of which `Half` make 0.5, and carries the
parameter it came from; the code has no such tag, the properties need it. A gain
is kept as the fader value it was computed from, because every gain is a constant
times that value. The page sliders send 0 to 1; other numbers are not modelled.
A request has one parameter, as the page sends them. `push3` and `push4` act on pins
only, but set the flag, and so cause the last page to be processed again.

The handler raises the flag first (line 148) and `loop()` looks at nothing but the flag,
so it may process a message of which neither the page nor the value is stored yet. No
client can prevent that. `Patient` = TRUE is the best a client can do: it sends the next
request when the loop polls and no flag is left; FALSE is any client. `Patient` is only
used by the three runs that end in a violation, which they show even of such a client.

Three history variables say what went out of order; no guard reads them. `early`: the
message taken last was not stored when it was taken. `inTurn`: since the shared cells
were last reset, every request came to an idle loop and every flag was taken after its
message was stored. `asked`: toggle1 was switched on while the settings were open.

### StepperMotor

`at` is the next store of `loop()`. `Drive`, `Flat` and `KillLoop` are the three
places that call `setMotorSpeedM1()`; `SetSpeed`, `SetDir`, `SetPin`, `SetAlarm` are
its stores in order, and `Disable` and `ResetSteps` what the callers do afterwards.
`Pulse` is the interrupt, enabled between any two of them. Motor 2 is the same code
with `ForwardLevel` the other way round. `slip` and `stops` are history variables.
The constants are small in TLC and arbitrary in the proofs, and satisfy the
assumptions that the code's own values satisfy: 500 * 25 (or 50) < 2^15, and
the timer at 2 MHz faster than any step rate.

### DmpFifo

`place` is the next transaction of `loop()`. The sensor (external) adds a packet and
raises the interrupt; when the FIFO is full it overwrites the oldest bytes, so that
the head no longer starts a packet (`aligned`), and sets the overflow bit. `Block`
is a call that waits for a client or the serial line for as long as it likes.
`newest` and `dropped` are history: whether `input` comes from the newest packet,
and whether packets were thrown away since it was set.

A first packet may have arrived during `setup()`, and the shortest counterexample of
`dmp_backlog` begins with it; stalls leave larger ones (`NeverAgain`).

`Paced` = TRUE is a sensor slow enough for two passes of `loop()` between two packets.

### SerialBridge and Tuner

`toNano` and `toEsp` are the two directions of the serial line. `HandleTuning` is the
handler of `/Tune` on the ESP8266 as one action: it prints the command, answers with
what the Nano printed before and prints a log line. On the Nano `turn` alternates
between `loop()` and `serialEvent()`, as the Arduino core calls them; `serialEvent()` takes
whatever has arrived, so a string may hold half a line or several. `StepGain`, `SetGain`,
`PrintGains` and `Ignore` are the branches of the command chain, of which one is taken,
followed by `Clear`. A line is a record with the name before the colon and the value;
`Mentions` is `indexOf()`, `Number` is `substring().toFloat()`. `InitialGain` is any
table of gains; in TLC it is 47 for each, so that a gain which is lost shows.

`Tuner` is the abstract specification: a queue of requests, of which the first takes
effect at some time, a command on its own gain, the query on none. `ImplementsTuner`
maps the queue to the requests among the pieces in the serial line and in
`inputString` (`Underway`): every fourth piece, because each request is two pieces and
followed by the two of a log line, behind the log line that may be left of the request
handled last. It holds when one line at a time is read and the Nano did not hear the
start messages (`Promised`); otherwise the mapping is a page that nobody uses. `link` is fixed by `Init` to one of the conditions in `Links`: `pace` = "line" is
one line per pass, "calm" a line that is cut and merged anywhere, under a
user who waits until the last request has been dealt with; `boot` starts the
Nano with the start messages of the ESP8266 on the line. `AbsoluteApplied` and
`OnlyItsOwnGain` are about "calm", `ImplementsTuner` about "line", `Answered` about both.

### GyroCalibration and BalanceLoop

`place` is where `setup()` or `loop()` stands: calibration, the poll for messages, the kill
loop, `micros()`, `INT_STATUS`, the data. In an attempt, `Reading` is a pass of the first
loop, `MeanValue` the division after it, `Deviation` a pass of the second loop and `Judge`
the test of the standard deviation, with both sides squared; the readings are arbitrary until the robot is held
`still`. A square is taken in a `long` that wraps (`Long`, `HalfLong` = 2^31) before it is added to the
float: two readings from opposite ends of the scale overflow it. A negative `dev` has no root, and fails the test. `sums` is history: the sums of the first readings of this attempt alone, without
what `value` began with. `ReadClock` is line 280, which every pass runs; `MPU6050_newData` and
`ControlStep` are the two transfers, each of which may fail: a failed status is
whatever the stack held, a failed sample is the old one with its bytes swapped, or a
mixture. `Tick` and `Sample` (external) come between any two of them, so a sample may
become ready after `INT_STATUS` was read and before the data are. `Kill` sets
`timer_old` to an arbitrary number, which is what `millis()` is to a counter of
microseconds. The two clock readings are signed longs of 2 * `HalfWord` values, so that `dt` is
the difference of their bits as a signed number (`Signed`): negative when half a turn of
the clock or more lies between. `since`, `ago`, `synced`, `elapsed` are the true times; `used`, `pass`,
`clean`, `stale` say whether a control step has a sample no step had before.

The state of `OscRemote` and of the motors is not repeated here: `Message` stands for
`processOSCMsg()`, of which only the kill loop touches this state. The angle is
an arbitrary `upright`, the error of the speed controller an arbitrary number.

### MotorController

One action per public function; each is atomic because nothing else touches the
pins. A pair of direction pins is "forward", "back" or "off", a duty is the number before
the constant of its motor. `Drive` is the common part of the two `move()`s with
one speed, with their different order of the comparison with `_currentSpeed` and the
clamping. `asked` and `apart` are history variables.

### BluetoothRobot

`place` is the next call of `loop()`: the two `Compute()`, the motors, the phone, or the
wait of `change_pid()`. A controller that is due returns any output within its limits:
what is modelled of `PID_v1` is its mode, its limits and its clock, from the
constructor to `setup()` (`Set`). Each message of the app is one unit in `blue`: `readString()` takes any number of those
that have arrived and obeys the first, `change_pid()` takes the numbers of the first
unless the app hurried. `wanted` is what the phone asked for, and `hurried` records
that it sent before the last message was dealt with.

## 3. Runs

| Run | Constants | Shows |
|---|---|---|
| `osc` | one request of every kind that competes for a cell, any client | what the cells hold has been applied, but for a flag taken early; the screens stay apart while client and loop take turns; only a kill puts the robot to sleep; PRO mode has PRO limits, limits change with the mode only, the settings screen never drives, every flag is taken, a cleared toggle wakes the robot |
| `osc_normal_mode` | the same requests, `Patient` | **violated**: mode 0 with PRO limits |
| `osc_crossed` | the same, `Patient` | **violated**: a settings slider becomes the throttle |
| `osc_sliders` | the four settings sliders, `Patient` | **violated**: `Kp_user` is set by the D-Stability slider |
| `stepper` | speeds to 5, acceleration 2, a 5-bit word, periods to 5 | acceleration limited, direction and rate as commanded, slips only at a reversal, a stopped robot comes to rest |
| `dmp_fifo` | packets of 2, FIFO of 7 | no read outside the FIFO, no computation from old or misaligned data, recovery from an overflow |
| `dmp_backlog` | the same, `Paced` | **violated**: a backlog of one packet lasts for ever |
| `bridge` | five commands and the query, 3 requests; one line per pass, or any number of bytes and start messages | the pair implements `Tuner` line by line; no answer is delivered twice; absolute gains get through and no other gain changes |
| `bridge_merged` | the same, "calm" without start messages | **violated**: a merged relative command is lost and its gain set to 0 |
| `balance` | clock of 6 ticks, 3 readings, a long of 6 bits, integral of 1 | dt is the true time below half a turn of the clock, clean passes have new samples, no old integral when the motors start, the calibration ends, near the mean unless a square overflows |
| `motor_controller` | duties to 6, speeds to 7, minimum 0, 2 and 6 | duties in range, `move()` applied after any sequence of calls |
| `bluetooth` | clock of 4 ticks, sample time 2, 3 messages | dead zone added once, controllers on time, a waiting phone gets what it asked for, only a silent phone stops the controllers |

Why the bounds are enough. In `OscRemote` nothing counts, and any
number of requests may be sent; the properties tell fader values apart by the slider
they come from and from the neutral one, so that one value of each suffices, and there is a
request for each cell of the faders, for the toggle both ways, for a button with a cell of its own and for one
that raises the flag and stores nothing. In `StepperMotor` the speed range is large enough
for a ramp of three calls and a reversal, and a factor one larger would overflow the
word; `StepBound` and `SlipBound` cut off the pulses that are looked at, and no
property depends on how many there were. In `DmpFifo` three packets and a
remainder stand for 24 packets of 42 bytes in 1024: empty, one, several, full
and overflowing are all different. In `SerialBridge` the Nano keeps nothing between two
strings and the ESP8266 one line, so three requests show a line with its predecessor and
its successor; the commands are one of each form, two on the same gain and two with
names of the same length. In `BalanceLoop` `HalfWord` = 3 is large enough for passes without a sample
between two control steps, before and after the wrap of the clock, and for gaps below and beyond half a turn; `Tick` is cut off when a whole turn of the clock
(71 minutes) would pass without a control step. An attempt of three readings shows one that is accepted and one
that is repeated with something left in `value`, and with `HalfLong` = 32 the readings of a shaken robot overflow
while those near each other do not; that the calibration ends
needs |`Rest`| < `MaxDev` * (`Samples` - 1), as a resting gyro has with 50 * 99.
In `MotorController` there are speeds beyond both limits, below the
minimum, at it and 0, and minimum speeds 0, between and full; the state is
finite and every sequence of calls is explored. In `BluetoothRobot` `Word` is two sample times, so that
deadlines wrap; the dead zones are larger than the rotation limit, as 32 and 39 are than 20;
`MaxSends` = 3 lets a message be merged, lost and answered, and a controller that
is not computed for a whole turn of the clock (49 days) is cut off (`Tick`).

Fairness. `OscRemote`: weak fairness of each task, which the preemptive scheduler
of the ESP32 gives; nothing obliges a client to send anything. `StepperMotor`:
weak fairness of `loop()`, none of the interrupt. `DmpFifo`: the sensor samples for
ever and `loop()` runs; a call that blocks for ever is excluded in the one property
that needs it (`CatchesUp`). `SerialBridge`: both chips run for ever; no user need do
anything. `BalanceLoop`: `setup()` goes on; nobody need hold the robot still, which
`Calibrated` presupposes. `BluetoothRobot`: `loop()` runs; nothing obliges the
phone to answer, so that the system may stop in `change_pid()` (deadlock is not checked),
which is the one exception of `KeepsBalancing`; that property also needs the clock to tick. `MotorController` has no liveness.

Every action of every module is reached by a passing run, and each property has a
mutant of a mapped definition that violates it: the definitions whose comment says
"As X, but ..." are these mutants and are used by nothing else.

## 4. Findings

1. **PRO limits in normal mode** (`.ino:408`). Leaving the settings screen sets
   `mode = 0` and leaves the three limits. If they were those of PRO mode the robot
   now runs "normal" at 780 instead of 550, until PRO is switched on and off again.
2. **One cell for four sliders** (`.ino:222`, `229`, `236`). All settings sliders
   store `OSCfader[0]`: each sets `Kp_user`, none sets anything else (`osc_sliders`).
   `SpeedGainsNeverChange` proves that no request ever changes the two speed gains.
3. **Crossed screens** (`.ino:148`, `215`/`425`). With no lock, and a flag that is raised before
   the message is stored, a settings slider can become the throttle even if the client
   waits for the loop each time: the loop takes the flag, the handler stores the slider, the loop
   reads it with the page of the message before. In the same way a gain can come from a drive slider, and
   a PRO toggle that arrives while the settings are open puts the robot to sleep.
   A command whose flag was taken early is not applied until another message comes (`CommandApplied`).
4. **Backlog of the FIFO** (`Final_balance_code.ino:197`). After `setup()` or a stall one or more packets
   stay in the FIFO. Every pass then skips the wait loop because `fifoCount` is a packet
   or more, but reads only when `INT_STATUS` shows a new one. The wait loop is the only
   place that computes the PID, so the motors keep their last command.
   `BacklogLasts` proves it for a backlog of any number of packets, once the calls that left it are over.
5. **Merged lines** (`nanoCode.ino:192`). `p:H` read together with the log line that
   follows every command is not equal to `p:H` and mentions `p:`, so `Kp` becomes 0.
   "Server ip:", printed when the ESP8266 starts, does the same (`nanoCode.ino:196`).
6. **Milliseconds as microseconds** (`.ino:480`). The first dt after the kill loop is a
   difference of two clocks, and negative in every second 35.8 minutes, because both are signed
   longs (`globals.cpp:25`); `DtIsElapsed` excepts that step, and gaps of 35.8 minutes or more.
7. **IMU driver**. A sample that becomes ready between `INT_STATUS` and the data is used
   twice (`MPU6050.cpp:210`); a failed transfer leaves the old sample with its bytes
   exchanged (`:147`); a repeated calibration starts from the mean of the failed one (`:63`);
   a square of its deviation can overflow (`:84`), so that shaken readings may be accepted.
8. **L298 controller** (`LMotorController.cpp`). `move()` of two speeds exchanges the duties
   (`:59`); 0 drives at the minimum speed (`:77`); a `move()` at the speed from before a turn is lost (`:98`).
9. **Gains that go nowhere** (`SELF_BALANCING_ROBOT.ino:316`). `change_pid()` never calls `SetTunings()`.
10. **Buttons that add instead of subtract** (`esp8266Alone.ino:78`, `93`, `108`). Found by reading.

## 5. Proofs

`OscRemote_proofs`. `TypeCorrect` is by one step per action. It carries
`ProModeHolds`, `LimitsFollowModeHolds` and `SettingsKeepDriveHolds`, whose invariants are
inductive with it. `SpeedGainsNeverChange` needs the stronger invariant that cells
2 and 3 are neutral as soon as `setup()` is past (`StoreSpeedFaders`). `AsleepByToggleHolds`
is by `AskedInv`: while the settings are open a toggle that is on was switched on there.
`TurnInvHolds` proves what `inTurn` means: a screen other than the one processed last has its
message still pending, and the processing of that message resets the shared cells before it
reads them; `ScreensApartHolds` follows. `CommandAppliedHolds` is by `AppliedInv`: at every
place of the loop, and unless a flag is up or a message half stored, what its remaining
statements are about to store is the only part of the command that is not yet applied. None
of them assumes anything of the client: `Patient` may be either.
Assumptions: `Half` is positive, the limits are natural numbers, the requests are
well formed.

`StepperMotor_proofs`. `RampLemma` says what the ramp returns; `ProductInWord` and
`NoOverflow` that `speed * Factor` fits the word, so that `StepRate` is the product;
`Quotient` and `PeriodLemma` what the division returns. `TypeCorrect`,
`AccelerationIsLimited`, `StopsInTimeHolds`, `DirectionHolds`, `RateHolds` and `SlipHolds` are
the safety properties of the run, for every value of the constants that satisfies
the assumptions.

`DmpFifo_proofs`. The four safety properties of the run follow from one inductive
invariant, `TypeOK /\ FifoInv`. None is inductive alone: that the PID never sees a
misaligned FIFO needs to know who knows of the misalignment (first the sensor's
overflow bit, then the status the pass has read, then the pass about to reset), that
an overflow nobody has looked at has its interrupt pending, and that a pass which may
read unaware of the overflow finds the FIFO still full; that the data are the newest
needs that without a pending interrupt `fifoCount` is the true count or packets were
thrown away; and both need that an aligned FIFO holds whole packets
(`WholeMore`, `WholeLess`, `WholeNone`: the only facts about multiplication).
Assumption: the FIFO holds at least three packets (the real one holds 24).
`BacklogLasts` is finding 4 for every size of packet and FIFO: `Backlog` describes the
states in which, apart from the packet that a pass has been or will be told of (`Owed`), a
packet or more is left and shows in `fifoCount`; with `Paced` every step but a blocking
call leads from such a state to such a state, and in none of them the PID computes. The
theorem speaks of every moment after which no call blocks; what blocked before is free.

`BalanceLoop_proofs`. `LoopInv`, stated in the module, is inductive: a clock reading
lies as many ticks back as its history says (`TimerInv`), which survives the wrap
because no history reaches `Word`, and makes `dt` the elapsed time while that is less
than `HalfWord`; and a sample that `DATA_RDY` announces was not
used, unless a pass was not clean (`SampleInv`). From it `TypeCorrect`, `DtCorrect`,
`SamplesNew` and `IntegralOff`, for every `HalfWord`, every limit and all readings.
Its part about the calibration, `DeviationInv`, is proved in `GyroCalibration_proofs`: after
`i` passes of the second loop, the square of the gap between `i * value` and the sum of
the first `i` readings is at most `i * dev`, if none of the `i` squares overflowed. One pass keeps it (`CauchyStep`, Cauchy's inequality
for one more number), so no induction over the readings is needed; at the end the test
`dev < Samples * MaxDev * MaxDev` bounds the gap (`WithinLimit`), which is `OffsetHolds`.
`OffsetHolds` therefore excepts an attempt with an overflow. `OffsetOfSlowTurns` removes the exception
for two readings or more, if all readings lie within a bound of which nine squares fit the long (15446, or
236 degrees a second, of the 500 the gyro is set to): the mean that an attempt starts with is
within twice the bound (`WithinTwice`), so that no difference exceeds three times it.

`MotorController_proofs`. `MoveApplied` needs that the cached speed is the one asked
for (`CacheInv`); `ScaleType` is the fact about `map()` (a product and a division)
that keeps the duties in range. Assumption: the minimum speeds lie within `Full`.

`BluetoothRobot_proofs`. `TimeInv` says that the time since a controller computed is the
unsigned difference of the clock and `lastTime`; `Unsigned` and `NextMillis` are the facts about `%`.
With it `ComputedOnTimeHolds`. `TurnLimit` keeps the rotation output within the limit of `setup()`,
smaller than both dead zones, which is what `DeadZone` needs for `SlackOnceHolds`.
`AsAskedHolds` is by `AskedInv`: as long as the phone has not hurried there is at most one
unread message, and carrying it out turns `settings` into `wanted`.

`SerialBridge_proofs`. `TypeCorrect` needs that a complete string is not empty; `AnsweredHolds`
that the numbers on the line to the ESP8266 grow, and lie after the one it holds and
up to the last printed (`AnswerInv`). Both for every set of requests and any cutting of lines.
`AbsoluteHolds` and `OwnGainHolds` are by `CalmInv`: what the Nano has not handled of the last
request is a tail of the request's two pieces and the log line's two; a complete string
holds the end of a line (`EndInv`), so that one which begins with the request's name also
has its number; and once the request has been handled, and pieces of the log line are all
that is left, the gain is the value. `RequestHandled` and `TextHandled` say what the chain of comparisons does with a string
that begins with a request, and with one in which only log lines and start messages are left.
`TunerImplemented` is the safety of the refinement, `Spec => T!Safety`. `LineInv` says that the
pieces are whole requests, each with its log line, and that the string is empty or one
line; `RequestsIn` is then the queue, to which a request sent adds one at the end
(`LinedSent`) and a request handled takes one from the front (`LinedRequest`), while a log line
handled changes nothing (`LinedLog`): every step is `Send`, `Carry` or a stutter (`PageStep`).
Because the queue is read off the positions of the pieces and not filtered from them, no
induction over the line is needed. Assumption: the requests are well formed.

Only model-checked, because tlapm does not prove fairness and `ENABLED`: the liveness
properties `MessageTaken`, `Wakes`, `ComesToRest`, `OverflowRecovers`, `Calibrated` and
`KeepsBalancing`, and that `Tuner` carries out every request at last (the `WF` of
`ImplementsTuner`). All safety and action properties of the passing runs are proved.

## 6. Not modelled

- **The libraries**: nearly all lines of the repository are third-party code under
  `libraries/` (FreeRTOS, WiFiManager, the MPU drivers, AsyncTCP, displays) and examples of them, most of
  it used by no sketch here. The modules cover the sketches and the two
  libraries whose state the sketches rely on, `LMotorController` and `PID_v1`; what the
  sketches use of the others is modelled as external. The map is therefore a
  small part of the repository by lines.
- **Arithmetic on floats**: the complementary filter, the PD controller, the output of
  `PID::Compute()`, `control_output`. No guard depends on them but
  `upright`; whether the robot balances is not a question of these modules.
- **The position controller** of the ESP32 robot: dead code, nothing sets `OSCmove_mode`.
- **The sampling interrupt of the Nano** (`nanoCode.ino`), which shares 16-bit variables with
  `loop()`: what is torn depends on the code of the compiler.
- **ESP8266 alone** (`esp8266Alone.ino`): the same commands in one cooperative loop, without a
  line between; its time test is the one of `PID_v1`.
- **WiFi car**, **HTTP GPIO sketches**: a table from a letter or a path to pin levels; applied
  again it changes nothing, so there is nothing to go wrong between two steps.
- **Calibration and test sketches**, web pages, WiFi and OTA set-up: filters run by
  hand, and pure I/O.

Two compositions are left open. `BalanceLoop` with `OscRemote`: they share the kill
loop, which both have, and the throttle, which the control step only passes on. `BalanceLoop` with
`StepperMotor`: the control step is one call of the motors, which `StepperMotor` already makes
at any time with any speed.
