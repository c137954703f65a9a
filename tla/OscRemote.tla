------------------------------ MODULE OscRemote ------------------------------
(***************************************************************************)
(* The remote control of the ESP32 balancing robot: the HTTP GET handler   *)
(* that setup() installs, which runs in the task of the web server, and    *)
(* processOSCMsg(), which the Arduino loop() calls.  The two share the     *)
(* globals OSCnewMessage, OSCpage, OSCfader, OSCpush and OSCtoggle and no  *)
(* lock.  One action is the code between two accesses to a shared global;  *)
(* stores of loop() in a row are one action, assuming that they take less  *)
(* time than two requests: the store of one has the same effect before or  *)
(* after them.  OSCfader[2] and [3], which no request stores, are read     *)
(* together with OSCfader[1].                                              *)
(*                                                                         *)
(* A fader value v stands for v / (2 * Half), so Half is 0.5.  A fader     *)
(* cell also carries the request parameter it came from ("from"): the code *)
(* keeps no such tag, the properties need it.  So it is with the history   *)
(* variables, which no guard reads: they tell the properties whether the   *)
(* loop took a message before it was stored.                               *)
(***************************************************************************)
EXTENDS Integers

CONSTANTS Half,             \* fader units in 0.5
          Requests,         \* the requests of the client: [param, value]
          Patient,          \* TRUE: the client waits until the loop is through
          MAX_THROTTLE, MAX_STEERING, MAX_TARGET_ANGLE,
          MAX_THROTTLE_PRO, MAX_STEERING_PRO, MAX_TARGET_ANGLE_PRO

Faders  == {"fader1", "fader2", "fader3", "fader4", "fader5", "fader6"}
Buttons == {"push1", "push2", "push3", "push4", "toggle1"}
Params  == Faders \cup Buttons \cup {"none"}

Request == [param : Faders, value : 0 .. 2 * Half]
             \cup [param : Buttons \cup {"none"}, value : 0 .. 1]

ASSUME HalfAssumption     == Half \in Nat \ {0}
ASSUME PatientAssumption  == Patient \in BOOLEAN
ASSUME RequestsAssumption == Requests \subseteq Request
ASSUME LimitsAssumption   ==
         /\ MAX_THROTTLE \in Nat /\ MAX_THROTTLE_PRO \in Nat
         /\ MAX_STEERING \in Nat /\ MAX_STEERING_PRO \in Nat
         /\ MAX_TARGET_ANGLE \in Nat /\ MAX_TARGET_ANGLE_PRO \in Nat

NormalLimits == [throttle |-> MAX_THROTTLE, steering |-> MAX_STEERING,
                 angle |-> MAX_TARGET_ANGLE]
ProLimits    == [throttle |-> MAX_THROTTLE_PRO, steering |-> MAX_STEERING_PRO,
                 angle |-> MAX_TARGET_ANGLE_PRO]

Origins == Faders \cup {"boot", "neutral", "default", "stop"}
Cell    == [from : Origins, val : 0 .. 2 * Half]
Drive   == [from : Origins, val : Int]
Neutral == [from |-> "neutral", val |-> Half]
Stop    == [from |-> "stop", val |-> 0]

VARIABLES handler,        \* where the request handler stands
          request,        \* the request it is handling, if any
          OSCnewMessage, OSCpage, OSCfader, OSCpush, OSCtoggle,
          loop,           \* where setup() and loop() stand
          modifing,       \* modifing_control_parameters
          mode, max,      \* max_throttle, max_steering, max_target_angle
          throttle, steering,
          gain,           \* Kp_user, Kd_user, Kp_thr_user, Ki_thr_user, each in
                          \* fader units of its default KP, KD, KP_/KI_THROTTLE
          angle_offset,
          early,          \* history: the message taken last was not stored yet
          inTurn,         \* history: client and loop took turns since the cells
                          \* were reset
          asked           \* history: toggle1 was switched on in the settings that are
                          \* open

shared  == <<OSCnewMessage, OSCpage, OSCfader, OSCpush, OSCtoggle>>
local   == <<modifing, mode, max, throttle, steering, gain, angle_offset>>
history == <<early, inTurn, asked>>
vars    == <<handler, request, shared, loop, local, history>>

NoRequest  == [param |-> "none", value |-> 0]
Gains      == {"Kp", "Kd", "Kp_thr", "Ki_thr"}
LoopPlaces == {"setup", "poll", "page1", "leave", "throttle", "steering", "pro",
               "normal", "page2", "enter", "Kp", "Kd", "calibrate", "kill",
               "asleep", "control"}

TypeOK ==
  /\ handler \in {"idle", "flagged", "paged"}
  /\ request \in Request
  /\ OSCnewMessage \in BOOLEAN
  /\ OSCpage \in 0 .. 2
  /\ OSCfader \in [0 .. 3 -> Cell]
  /\ OSCpush \in [{0, 2} -> 0 .. 1]
  /\ OSCtoggle \in 0 .. 1
  /\ loop \in LoopPlaces
  /\ modifing \in BOOLEAN
  /\ mode \in 0 .. 1
  /\ max \in {NormalLimits, ProLimits}
  /\ throttle \in Drive
  /\ steering \in Drive
  /\ gain \in [Gains -> Cell]
  /\ angle_offset \in {"ANGLE_OFFSET", "angle_adjusted_filtered"}
  /\ early \in BOOLEAN /\ inTurn \in BOOLEAN /\ asked \in BOOLEAN

\* The zero-initialised globals; no request is being handled.
Init ==
  /\ handler = "idle"
  /\ request = NoRequest
  /\ OSCnewMessage = FALSE
  /\ OSCpage = 0
  /\ OSCfader = [i \in 0 .. 3 |-> [from |-> "boot", val |-> 0]]
  /\ OSCpush = [i \in {0, 2} |-> 0]
  /\ OSCtoggle = 0
  /\ loop = "setup"
  /\ modifing = FALSE
  /\ mode = 0
  /\ max = NormalLimits
  /\ throttle = Stop
  /\ steering = Stop
  /\ gain = [g \in Gains |-> [from |-> "default", val |-> Half]]
  /\ angle_offset = "ANGLE_OFFSET"
  /\ early = FALSE /\ inTurn = TRUE /\ asked = FALSE

(***************************************************************************)
(* The request handler.  One task serves the requests, one after another.  *)
(***************************************************************************)
PageOf(param) ==
  CASE param \in {"fader1", "fader2", "push1", "toggle1"} -> 1
    [] param \in {"push2", "fader3", "fader4", "fader5", "fader6"} -> 2
    [] OTHER -> 0     \* push3, push4 and no parameter leave the page alone

\* The elements of OSCfader that the branches of the handler assign.
FaderOf(param) == IF param = "fader2" THEN 1 ELSE 0

\* OSCnewMessage is set before anything of the request is stored.  A patient
\* client sends when loop() has handled what the flag announced last.
Receive(r) ==
  /\ handler = "idle"
  /\ Patient => loop = "poll" /\ ~OSCnewMessage
  /\ OSCnewMessage' = TRUE
  /\ IF PageOf(r.param) = 0
       THEN UNCHANGED <<handler, request>>
       ELSE handler' = "flagged" /\ request' = r
  /\ inTurn' = (inTurn /\ loop = "poll" /\ ~OSCnewMessage)
  /\ UNCHANGED <<OSCpage, OSCfader, OSCpush, OSCtoggle, loop, local, early, asked>>

SelectPage ==
  /\ handler = "flagged"
  /\ OSCpage' = PageOf(request.param)
  /\ handler' = "paged"
  /\ UNCHANGED <<request, OSCnewMessage, OSCfader, OSCpush, OSCtoggle, loop, local,
                 history>>

StoreFader ==
  /\ request.param \in Faders
  /\ OSCfader' = [OSCfader EXCEPT ![FaderOf(request.param)] =
                    [from |-> request.param, val |-> request.value]]
  /\ UNCHANGED <<OSCpush, OSCtoggle, asked>>

StorePush ==
  /\ request.param \in {"push1", "push2"}
  /\ OSCpush' = [OSCpush EXCEPT ![IF request.param = "push1" THEN 0 ELSE 2] =
                   request.value]
  /\ UNCHANGED <<OSCfader, OSCtoggle, asked>>

StoreToggle ==
  /\ request.param = "toggle1"
  /\ OSCtoggle' = request.value
  /\ asked' = IF request.value = 1 THEN modifing ELSE asked
  /\ UNCHANGED <<OSCfader, OSCpush>>

Store ==
  /\ handler = "paged"
  /\ StoreFader \/ StorePush \/ StoreToggle
  /\ handler' = "idle"
  /\ request' = NoRequest
  /\ UNCHANGED <<OSCnewMessage, OSCpage, loop, local, early, inTurn>>

Handler == SelectPage \/ Store

(***************************************************************************)
(* setup() and loop().  The web server already runs when setup() stores    *)
(* the neutral values of the faders.                                       *)
(***************************************************************************)
At(place)   == loop = place
GoTo(place) == loop' = place

NeutralFaders == [i \in 0 .. 3 |-> Neutral]

SetupDefaults ==
  /\ At("setup") /\ GoTo("poll")
  /\ OSCfader' = NeutralFaders
  /\ UNCHANGED <<handler, request, history, OSCnewMessage, OSCpage, OSCpush, OSCtoggle,
                 local>>

\* loop() looks at the flag alone: the handler may not have stored the page or
\* the value yet.
TakeFlag(flag) ==
  /\ At("poll") /\ OSCnewMessage /\ GoTo("page1")
  /\ OSCnewMessage' = flag
  /\ early' = (handler # "idle")
  /\ inTurn' = (inTurn /\ handler = "idle")
  /\ UNCHANGED <<handler, request, OSCpage, OSCfader, OSCpush, OSCtoggle, local, asked>>

\* As TakeMessage, but the flag is not cleared.
TakeMessageKeepsFlag == TakeFlag(TRUE)

TakeMessage == TakeFlag(FALSE)

NoMessage ==
  /\ At("poll") /\ ~OSCnewMessage /\ GoTo("control")
  /\ UNCHANGED <<handler, request, history, shared, local>>

\* What the control step of loop() does to the state modelled here: a robot
\* that lies flat has its drive commands cleared.
ControlStep(flat) ==
  /\ At("control") /\ GoTo("poll")
  /\ throttle' = IF flat THEN Stop ELSE throttle
  /\ steering' = IF flat THEN Stop ELSE steering
  /\ UNCHANGED <<handler, request, history, shared, modifing, mode, max, gain,
                 angle_offset>>

\* As TestPage1, without the test of modifing_control_parameters.
TestPage1Only ==
  /\ At("page1")
  /\ GoTo(IF OSCpage # 1 THEN "page2" ELSE "throttle")
  /\ UNCHANGED <<handler, request, history, shared, local>>

TestPage1 ==
  /\ At("page1")
  /\ GoTo(IF OSCpage # 1 THEN "page2" ELSE IF modifing THEN "leave" ELSE "throttle")
  /\ UNCHANGED <<handler, request, history, shared, local>>

\* History: the toggle is cleared, and the faders are reset for the screen of page
\* p; turns begin anew if nothing is on its way.
Reset(p) ==
  /\ asked' = FALSE
  /\ inTurn' = (inTurn \/ (handler = "idle" /\ ~OSCnewMessage /\ OSCpage = p))

LeaveSettingsWith(faders) ==
  /\ At("leave") /\ GoTo("throttle")
  /\ OSCfader' = faders
  /\ OSCtoggle' = 0
  /\ mode' = 0
  /\ modifing' = FALSE
  /\ Reset(1)
  /\ UNCHANGED <<handler, request, early, OSCnewMessage, OSCpage, OSCpush,
                 max, throttle, steering, gain, angle_offset>>

\* As LeaveSettings, but the sliders of the settings stay in the cells.
LeaveSettingsKeepsFaders == LeaveSettingsWith(OSCfader)

\* "We came from the settings screen"
LeaveSettings == LeaveSettingsWith([OSCfader EXCEPT ![0] = Neutral, ![1] = Neutral])

\* Conversion of a float to int16_t: towards zero.
Truncate(n, d) == IF n >= 0 THEN n \div d ELSE -((-n) \div d)

\* (OSCfader[0] - 0.5) * max_throttle
ThrottleFor(val, limit) == Truncate((val - Half) * limit, 2 * Half)

\* The centre band of the steering is smoothed; in units of 1 / (4 * Half^2).
SteeringFor(val, limit) ==
  LET s == val - Half
  IN  IF s > 0 THEN (s * s + Half * s) * limit ELSE (-(s * s) + Half * s) * limit

SetThrottle ==
  /\ At("throttle") /\ GoTo("steering")
  /\ throttle' = [from |-> OSCfader[0].from,
                  val  |-> ThrottleFor(OSCfader[0].val, max.throttle)]
  /\ UNCHANGED <<handler, request, history, shared, modifing, mode, max, steering, gain,
                 angle_offset>>

SetSteering ==
  /\ At("steering") /\ GoTo("pro")
  /\ steering' = [from |-> OSCfader[1].from,
                  val  |-> SteeringFor(OSCfader[1].val, max.steering)]
  /\ UNCHANGED <<handler, request, history, shared, modifing, mode, max, throttle, gain,
                 angle_offset>>

ChangeMode(m, limits) ==
  /\ mode' = m
  /\ max' = limits
  /\ UNCHANGED <<handler, request, history, shared, modifing, throttle, steering, gain,
                 angle_offset>>

\* As TestPro, but max_steering is forgotten.
TestProTwoLimits ==
  /\ At("pro") /\ GoTo("normal")
  /\ IF mode = 0 /\ OSCtoggle = 1
       THEN ChangeMode(1, [ProLimits EXCEPT !.steering = MAX_STEERING])
       ELSE ChangeMode(mode, max)

\* As TestPro, but the limits are forgotten.
TestProNoLimits ==
  /\ At("pro") /\ GoTo("normal")
  /\ IF mode = 0 /\ OSCtoggle = 1 THEN ChangeMode(1, max) ELSE ChangeMode(mode, max)

TestPro ==
  /\ At("pro") /\ GoTo("normal")
  /\ IF mode = 0 /\ OSCtoggle = 1 THEN ChangeMode(1, ProLimits) ELSE ChangeMode(mode, max)

\* As TestNormal, without the test of the mode.
TestNormalAnyMode ==
  /\ At("normal") /\ GoTo("control")
  /\ IF OSCtoggle = 0 THEN ChangeMode(0, NormalLimits) ELSE ChangeMode(mode, max)

\* As TestNormal, but the flag is cleared here, after the processing.
TestNormalClearsFlag ==
  /\ At("normal") /\ GoTo("control")
  /\ OSCnewMessage' = FALSE
  /\ mode' = IF OSCtoggle = 0 THEN 0 ELSE mode
  /\ max' = IF mode = 1 /\ OSCtoggle = 0 THEN NormalLimits ELSE max
  /\ UNCHANGED <<handler, request, history, OSCpage, OSCfader, OSCpush, OSCtoggle,
                 modifing, throttle, steering, gain, angle_offset>>

TestNormal ==
  /\ At("normal") /\ GoTo("control")
  /\ IF mode = 1 /\ OSCtoggle = 0 THEN ChangeMode(0, NormalLimits) ELSE ChangeMode(mode, max)

\* A page that is neither 1 nor 2 ends processOSCMsg().
TestPage2 ==
  /\ At("page2")
  /\ GoTo(IF OSCpage # 2 THEN "control" ELSE IF modifing THEN "Kp" ELSE "enter")
  /\ UNCHANGED <<handler, request, history, shared, local>>

EnterSettingsWith(toggle) ==
  /\ At("enter") /\ GoTo("Kp")
  /\ OSCfader' = NeutralFaders
  /\ OSCtoggle' = toggle
  /\ modifing' = TRUE
  /\ Reset(2)
  /\ UNCHANGED <<handler, request, early, OSCnewMessage, OSCpage, OSCpush,
                 mode, max, throttle, steering, gain, angle_offset>>

\* As EnterSettings, but the toggle of PRO mode stays on.
EnterSettingsKeepsToggle == EnterSettingsWith(OSCtoggle)

EnterSettings == EnterSettingsWith(0)

\* Kp_user = KP * 2 * OSCfader[0]
SetKp ==
  /\ At("Kp") /\ GoTo("Kd")
  /\ gain' = [gain EXCEPT !["Kp"] = OSCfader[0]]
  /\ UNCHANGED <<handler, request, history, shared, modifing, mode, max, throttle, steering,
                 angle_offset>>

\* Kd_user from OSCfader[1] and the speed gains from OSCfader[2] and [3]
SetOtherGains ==
  /\ At("Kd") /\ GoTo("calibrate")
  /\ gain' = [gain EXCEPT !["Kd"] = OSCfader[1], !["Kp_thr"] = OSCfader[2],
                          !["Ki_thr"] = OSCfader[3]]
  /\ UNCHANGED <<handler, request, history, shared, modifing, mode, max, throttle, steering,
                 angle_offset>>

Calibrate ==
  /\ At("calibrate") /\ GoTo("kill")
  /\ angle_offset' = IF OSCpush[2] = 1 THEN "angle_adjusted_filtered" ELSE angle_offset
  /\ UNCHANGED <<handler, request, history, shared, modifing, mode, max, throttle,
                 steering, gain>>

\* As Kill, but the toggle is not read again.
KillOnce ==
  /\ loop \in {"kill", "asleep"}
  /\ GoTo(IF At("asleep") \/ OSCtoggle = 1 THEN "asleep" ELSE "control")
  /\ UNCHANGED <<handler, request, history, shared, local>>

\* "Kill robot => Sleep": the loop body runs while the toggle is on.
Kill ==
  /\ loop \in {"kill", "asleep"}
  /\ GoTo(IF OSCtoggle = 1 THEN "asleep" ELSE "control")
  /\ UNCHANGED <<handler, request, history, shared, local>>

Loop == \/ SetupDefaults \/ TakeMessage \/ NoMessage
        \/ \E flat \in BOOLEAN : ControlStep(flat)
        \/ TestPage1 \/ LeaveSettings \/ SetThrottle \/ SetSteering
        \/ TestPro \/ TestNormal
        \/ TestPage2 \/ EnterSettings \/ SetKp \/ SetOtherGains
        \/ Calibrate \/ Kill

Next == Loop \/ Handler \/ \E r \in Requests : Receive(r)

\* Both tasks are scheduled; nothing obliges a client to send a request.
Fairness == WF_vars(Loop) /\ WF_vars(Handler)

Spec == Init /\ [][Next]_vars /\ Fairness

(***************************************************************************)
(* What holds however the two tasks interleave, for every client.          *)
(***************************************************************************)

\* PRO mode has the PRO limits: mode 1 and the three limits of the PRO mode
\* never come apart, whatever pages the user visits in between.
ProMode == mode = 1 => max = ProLimits

\* The limits change only by a change of mode: an already running command is
\* never rescaled by anything but the PRO toggle.
LimitsFollowMode == [][max' # max => mode' # mode]_vars

\* The settings screen freezes the drive: while page 2 is processed neither
\* throttle nor steering is computed from a fader; only the control step of a
\* fallen robot clears them.
SettingsKeepDrive ==
  [][modifing /\ modifing' /\ <<throttle, steering>>' # <<throttle, steering>>
       => throttle' = Stop /\ steering' = Stop]_vars

\* Every message flag is taken, unless the loop sleeps in the kill loop.
MessageTaken == OSCnewMessage ~> (~OSCnewMessage \/ At("asleep"))

\* A toggle that stays off wakes the robot: loop() polls again and again.
Wakes == <>[](OSCtoggle = 0) => []<>At("poll")

Quiet == At("poll") /\ ~OSCnewMessage /\ handler = "idle"

\* The drive, the gains and the mode were computed from the cells as they are.
Throttled == throttle \in {[from |-> OSCfader[0].from, val |-> ThrottleFor(OSCfader[0].val, m)] :
                             m \in {MAX_THROTTLE, MAX_THROTTLE_PRO}}
Steered   == steering \in {[from |-> OSCfader[1].from, val |-> SteeringFor(OSCfader[1].val, m)] :
                             m \in {MAX_STEERING, MAX_STEERING_PRO}}
Applied ==
  IF modifing
    THEN OSCpage = 2 /\ gain["Kp"] = OSCfader[0] /\ gain["Kd"] = OSCfader[1]
    ELSE /\ OSCpage = 1 /\ mode = OSCtoggle
         /\ (throttle = Stop /\ steering = Stop) \/ (Throttled /\ Steered)

\* No command is lost but by the early flag: when nothing is left to do, and the
\* message taken last was stored when it was taken, the screen, the drive or
\* gains and the mode are those of the shared cells, whatever requests crossed
\* the processing of earlier ones.  So a message that was taken early is made
\* good by the next one, whatever it asks.  (A robot that lies flat has had its
\* drive cleared.)
CommandApplied == Quiet /\ ~early /\ OSCpage # 0 => Applied

DriveFrom(origins1, origins2) == throttle.from \in origins1 /\ steering.from \in origins2

\* The two screens share OSCfader[0]: where an early flag or a hurried client let
\* a slider of one screen into the other, the next change of screens puts it
\* right.  From a reset of the cells on, and for as long as client and loop take
\* turns, the robot is driven by the drive sliders and the gains are tuned by
\* those of the settings, whichever of the two screens is open.
ScreensApart ==
  loop \in {"poll", "control"} /\ inTurn =>
    IF modifing
      THEN \A g \in Gains : gain[g].from \notin {"fader1", "fader2", "boot", "stop"}
      ELSE DriveFrom({"fader1", "neutral", "stop"}, {"fader2", "neutral", "stop"})

\* The kill loop obeys a toggle1 that was switched on since the settings were
\* opened: one that was left on for PRO mode, or that comes before the settings
\* are entered, never puts the robot to sleep.
AsleepByToggle == At("asleep") => asked

(***************************************************************************)
(* What the code or its comments say and the code does not do.             *)
(***************************************************************************)

\* "mode = 0 Normal mode": between two requests mode 0 has the normal limits.
NormalMode == Quiet /\ mode = 0 => max = NormalLimits

\* "Get value for Forward/Backward", "Right/Left": the throttle and the steering
\* are those of fader1 and fader2, never of a slider of the settings.
DriveFromDriveFaders ==
  DriveFrom({"fader1", "neutral", "stop"}, {"fader2", "neutral", "stop"})

\* "User could adjust KP, KD, KP_THROTTLE and KI_THROTTLE (fadder3,4,5,6)": each
\* gain is set by its own slider.
OwnSlider ==
  LET slider == [Kp |-> "fader3", Kd |-> "fader4", Kp_thr |-> "fader5", Ki_thr |-> "fader6"]
  IN  \A g \in Gains : gain[g].from \in {slider[g], "neutral", "default"}

=============================================================================
