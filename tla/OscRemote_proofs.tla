--------------------------- MODULE OscRemote_proofs ---------------------------
(***************************************************************************)
(* Theorems about the remote control, for every set of requests and every  *)
(* value of the limits, for patient clients and for others, however the    *)
(* request handler and loop() interleave.                                  *)
(***************************************************************************)
EXTENDS OscRemote, TLAPS

\* A truncated quotient is an integer.
LEMMA TruncateInt ==
  ASSUME NEW n \in Int, NEW d \in Nat \ {0}
  PROVE  Truncate(n, d) \in Int
BY DEF Truncate

\* The two conversions of a fader value to a drive command give integers.
LEMMA DriveInt ==
  ASSUME NEW v \in 0 .. 2 * Half, NEW m \in Nat
  PROVE  ThrottleFor(v, m) \in Int /\ SteeringFor(v, m) \in Int
<1> v \in Int /\ Half \in Int /\ 2 * Half \in Nat \ {0}
  BY HalfAssumption
<1>1. ThrottleFor(v, m) \in Int
  <2>1. (v - Half) * m \in Int
    OBVIOUS
  <2> QED BY <2>1, TruncateInt DEF ThrottleFor
<1>2. SteeringFor(v, m) \in Int
  <2> DEFINE s == v - Half
  <2>1. s \in Int /\ s * s \in Int /\ Half * s \in Int
    OBVIOUS
  <2>2. (s * s + Half * s) * m \in Int /\ (-(s * s) + Half * s) * m \in Int
    <3> HIDE DEF s
    <3>1. s * s + Half * s \in Int /\ -(s * s) + Half * s \in Int
      BY <2>1
    <3> QED BY <3>1
  <2> QED BY <2>2 DEF SteeringFor
<1> QED BY <1>1, <1>2

\* The initial state has the types of the globals.
LEMMA TypeInit == Init => TypeOK
<1> SUFFICES ASSUME Init PROVE TypeOK
  OBVIOUS
<1>1. Half \in 0 .. 2 * Half /\ 0 \in 0 .. 2 * Half
  BY HalfAssumption
<1>2. [from |-> "boot", val |-> 0] \in Cell /\ [from |-> "default", val |-> Half] \in Cell
  BY <1>1 DEF Cell, Origins
<1>3. Stop \in Drive
  BY DEF Stop, Drive, Origins
<1>4. NoRequest \in Request
  BY DEF NoRequest, Request, Buttons
<1>5. OSCfader \in [0 .. 3 -> Cell] /\ gain \in [Gains -> Cell]
  BY <1>2 DEF Init
<1>6. OSCpush \in [{0, 2} -> 0 .. 1]
  BY DEF Init
<1>7. loop \in LoopPlaces
  BY DEF Init, LoopPlaces
<1>8. /\ OSCnewMessage \in BOOLEAN /\ modifing \in BOOLEAN
      /\ early \in BOOLEAN /\ inTurn \in BOOLEAN /\ asked \in BOOLEAN
  BY DEF Init
<1> QED BY <1>3, <1>4, <1>5, <1>6, <1>7, <1>8 DEF Init, TypeOK

USE DEF Loop, Handler, At, GoTo, TakeFlag, LeaveSettingsWith, EnterSettingsWith,
        NeutralFaders, Reset, history

\* Every step of the two tasks keeps the types of the globals.
LEMMA TypeNext == TypeOK /\ [Next]_vars => TypeOK'
<1> SUFFICES ASSUME TypeOK, [Next]_vars PROVE TypeOK'
  OBVIOUS
<1> USE DEF TypeOK
<1> Neutral \in Cell /\ Stop \in Drive
  BY HalfAssumption DEF Neutral, Stop, Cell, Drive, Origins
<1> max.throttle \in Nat /\ max.steering \in Nat
  BY LimitsAssumption DEF NormalLimits, ProLimits
<1>1. CASE \E r \in Requests : Receive(r)
  BY <1>1, RequestsAssumption DEF Receive, local
<1>2. CASE SelectPage
  BY <1>2 DEF SelectPage, PageOf, local
<1>3. CASE Store
  <2> handler' = "idle" /\ request' \in Request
    BY <1>3 DEF Store, NoRequest, Request, Buttons
  <2>1. CASE StoreFader
    <3>1. [from |-> request.param, val |-> request.value] \in Cell
      BY <2>1 DEF StoreFader, Request, Cell, Origins, Faders, Buttons
    <3>2. FaderOf(request.param) \in 0 .. 3
      BY DEF FaderOf
    <3> QED BY <1>3, <2>1, <3>1, <3>2 DEF Store, StoreFader, local
  <2>2. CASE StorePush
    <3>1. request.value \in 0 .. 1
      BY <2>2 DEF StorePush, Request, Faders, Buttons
    <3> QED BY <1>3, <2>2, <3>1 DEF Store, StorePush, local
  <2>3. CASE StoreToggle
    <3>1. request.value \in 0 .. 1
      BY <2>3 DEF StoreToggle, Request, Faders, Buttons
    <3> QED BY <1>3, <2>3, <3>1 DEF Store, StoreToggle, local
  <2> QED BY <1>3, <2>1, <2>2, <2>3 DEF Store
<1>4. CASE SetupDefaults
  BY <1>4 DEF SetupDefaults, local, LoopPlaces
<1>5. CASE TakeMessage \/ NoMessage \/ TestPage1 \/ TestPage2 \/ Kill
  BY <1>5 DEF TakeMessage, NoMessage, TestPage1, TestPage2, Kill, shared, local,
              LoopPlaces
<1>6. CASE \E flat \in BOOLEAN : ControlStep(flat)
  BY <1>6 DEF ControlStep, shared, LoopPlaces
<1>7. CASE LeaveSettings \/ EnterSettings
  <2>1. OSCfader' \in [0 .. 3 -> Cell]
    BY <1>7 DEF LeaveSettings, EnterSettings
  <2>2. loop' \in LoopPlaces
    BY <1>7 DEF LeaveSettings, EnterSettings, LoopPlaces
  <2>3. modifing' \in BOOLEAN
    BY <1>7 DEF LeaveSettings, EnterSettings
  <2>4. inTurn' \in BOOLEAN /\ asked' \in BOOLEAN
    BY <1>7 DEF LeaveSettings, EnterSettings
  <2>5. OSCtoggle' \in 0 .. 1 /\ mode' \in 0 .. 1
    BY <1>7 DEF LeaveSettings, EnterSettings
  <2>6. UNCHANGED <<handler, request, early, OSCnewMessage, OSCpage, OSCpush, max,
                    throttle, steering, gain, angle_offset>>
    BY <1>7 DEF LeaveSettings, EnterSettings
  <2> QED BY <2>1, <2>2, <2>3, <2>4, <2>5, <2>6
<1>8. CASE SetThrottle \/ SetSteering
  <2>1. OSCfader[0] \in Cell /\ OSCfader[1] \in Cell
    OBVIOUS
  <2>2. OSCfader[0].from \in Origins /\ OSCfader[1].from \in Origins
    BY <2>1 DEF Cell
  <2>3. /\ ThrottleFor(OSCfader[0].val, max.throttle) \in Int
        /\ SteeringFor(OSCfader[1].val, max.steering) \in Int
    BY <2>1, DriveInt DEF Cell
  <2> QED BY <1>8, <2>2, <2>3 DEF SetThrottle, SetSteering, shared, Drive, LoopPlaces
<1>9. CASE TestPro \/ TestNormal
  BY <1>9 DEF TestPro, TestNormal, ChangeMode, shared, LoopPlaces
<1>10. CASE SetKp \/ SetOtherGains
  BY <1>10 DEF SetKp, SetOtherGains, shared, Gains, LoopPlaces
<1>11. CASE Calibrate
  BY <1>11 DEF Calibrate, shared, LoopPlaces
<1>12. CASE UNCHANGED vars
  BY <1>12 DEF vars, shared, local
<1> QED BY <1>1, <1>2, <1>3, <1>4, <1>5, <1>6, <1>7, <1>8, <1>9, <1>10, <1>11, <1>12
        DEF Next

\* Every reachable state has the types of the globals: in particular every
\* fader and gain stays within the range of the sliders, and the mode and the
\* limits are one of the two the code knows.
THEOREM TypeCorrect == Spec => []TypeOK
<1> QED BY TypeInit, TypeNext, PTL DEF Spec

--------------------------------------------------------------------------------
(* The modes, the drive and the speed gains                                     *)

\* PRO mode has the PRO limits in every reachable state: no visit to the
\* settings screen, and no toggle that arrives in the middle of processOSCMsg(),
\* leaves mode = 1 with other limits.
THEOREM ProModeHolds == Spec => []ProMode
<1>1. Init => ProMode
  BY DEF Init, ProMode
<1>2. ProMode /\ [Next]_vars => ProMode'
  <2> SUFFICES ASSUME ProMode, [Next]_vars PROVE ProMode'
    OBVIOUS
  <2>1. CASE TestPro \/ TestNormal
    BY <2>1 DEF TestPro, TestNormal, ChangeMode, ProMode
  <2>2. CASE LeaveSettings
    BY <2>2 DEF LeaveSettings, ProMode
  <2>3. CASE UNCHANGED <<mode, max>>
    BY <2>3 DEF ProMode
  <2>4. TestPro \/ TestNormal \/ LeaveSettings \/ UNCHANGED <<mode, max>>
    BY DEF Next, Receive, SelectPage, Store, SetupDefaults, TakeMessage, NoMessage,
           ControlStep, TestPage1, TestPage2, SetThrottle, SetSteering, EnterSettings,
           SetKp, SetOtherGains, Calibrate, Kill, vars, local
  <2> QED BY <2>1, <2>2, <2>3, <2>4
<1> QED BY <1>1, <1>2, PTL DEF Spec

\* The limits change only together with the mode.
THEOREM LimitsFollowModeHolds == Spec => LimitsFollowMode
<1>1. [Next]_vars => [max' # max => mode' # mode]_vars
  <2> SUFFICES ASSUME [Next]_vars, max' # max PROVE mode' # mode
    OBVIOUS
  <2>1. TestPro \/ TestNormal
    BY DEF Next, Receive, SelectPage, Store, SetupDefaults, TakeMessage, NoMessage,
           ControlStep, TestPage1, TestPage2, LeaveSettings, SetThrottle, SetSteering,
           EnterSettings, SetKp, SetOtherGains, Calibrate, Kill, vars, local
  <2> QED BY <2>1 DEF TestPro, TestNormal, ChangeMode
<1> QED BY <1>1, PTL DEF Spec, LimitsFollowMode

\* While the settings screen is open no fader value reaches throttle or steering.
THEOREM SettingsKeepDriveHolds == Spec => SettingsKeepDrive
<1> DEFINE A == modifing /\ modifing' /\ <<throttle, steering>>' # <<throttle, steering>>
                  => throttle' = Stop /\ steering' = Stop
           I == loop \in {"throttle", "steering"} => ~modifing
<1>1. Init => I
  BY DEF Init
<1>2. I /\ [Next]_vars => I'
  BY DEF Next, Receive, SelectPage, Store, SetupDefaults, TakeMessage, NoMessage,
         ControlStep, TestPage1, TestPage2, LeaveSettings, SetThrottle, SetSteering,
         TestPro, TestNormal, ChangeMode, EnterSettings, SetKp, SetOtherGains,
         Calibrate, Kill, vars, local
<1>3. I /\ [Next]_vars => [A]_vars
  BY DEF Next, Receive, SelectPage, Store, SetupDefaults, TakeMessage, NoMessage,
         ControlStep, TestPage1, TestPage2, LeaveSettings, SetThrottle, SetSteering,
         TestPro, TestNormal, ChangeMode, EnterSettings, SetKp, SetOtherGains,
         Calibrate, Kill, vars, local
<1> QED BY <1>1, <1>2, <1>3, PTL DEF Spec, SettingsKeepDrive

\* Kp_thr_user and Ki_thr_user have their defaults.
SpeedGainsFrozen == gain["Kp_thr"].val = Half /\ gain["Ki_thr"].val = Half

\* The faders behind the speed gains: once setup() stored the neutral values,
\* nothing but a reset to neutral is ever written to them.
SpeedFaders ==
  /\ loop # "setup" => OSCfader[2] = Neutral /\ OSCfader[3] = Neutral
  /\ SpeedGainsFrozen

\* A store of the handler leaves OSCfader[2] and OSCfader[3] alone.
LEMMA StoreSpeedFaders ==
  ASSUME TypeOK, Store
  PROVE  OSCfader'[2] = OSCfader[2] /\ OSCfader'[3] = OSCfader[3]
BY DEF Store, StoreFader, StorePush, StoreToggle, FaderOf, TypeOK

\* The P-Speed and I-Speed sliders never change a gain, in any interleaving and
\* for any requests: Kp_thr_user and Ki_thr_user keep their defaults for ever.
THEOREM SpeedGainsNeverChange == Spec => []SpeedGainsFrozen
<1>1. Init => SpeedFaders
  BY DEF Init, SpeedFaders, SpeedGainsFrozen, Gains
<1>2. TypeOK /\ SpeedFaders /\ [Next]_vars => SpeedFaders'
  <2> SUFFICES ASSUME TypeOK, SpeedFaders, [Next]_vars PROVE SpeedFaders'
    OBVIOUS
  <2> USE DEF SpeedFaders, SpeedGainsFrozen
  <2>1. CASE Store
    BY <2>1, StoreSpeedFaders DEF Store, local
  <2>2. CASE SetupDefaults \/ LeaveSettings \/ EnterSettings
    BY <2>2 DEF SetupDefaults, LeaveSettings, EnterSettings, TypeOK, local
  <2>3. CASE SetKp
    BY <2>3 DEF SetKp, TypeOK, Gains, shared
  <2>4. CASE SetOtherGains
    BY <2>4 DEF SetOtherGains, TypeOK, Gains, Neutral, shared
  <2>5. CASE NoMessage \/ TakeMessage \/ Kill \/ Calibrate \/ TestPage1 \/ TestPage2
               \/ SetThrottle \/ SetSteering \/ TestPro \/ TestNormal
               \/ \E flat \in BOOLEAN : ControlStep(flat)
    BY <2>5 DEF NoMessage, TakeMessage, Kill, Calibrate, TestPage1, TestPage2,
                SetThrottle, SetSteering, TestPro, TestNormal, ChangeMode, ControlStep,
                shared, local
  <2>6. CASE SelectPage \/ \E r \in Requests : Receive(r)
    BY <2>6 DEF SelectPage, Receive, local
  <2>7. CASE UNCHANGED vars
    BY <2>7 DEF vars, shared, local
  <2> QED BY <2>1, <2>2, <2>3, <2>4, <2>5, <2>6, <2>7 DEF Next
<1>3. SpeedFaders => SpeedGainsFrozen
  BY DEF SpeedFaders
<1> QED BY <1>1, <1>2, <1>3, TypeCorrect, PTL DEF Spec

--------------------------------------------------------------------------------
(* The kill loop                                                                *)

\* While the settings are open the toggle is on only if it was switched on there.
AskedInv ==
  /\ modifing /\ OSCtoggle = 1 => asked
  /\ loop \in {"Kp", "Kd", "calibrate", "kill", "asleep"} => modifing
  /\ At("asleep") => asked

\* Only a toggle that was switched on while the settings were open puts the robot
\* to sleep, in any interleaving: entering and leaving the settings clear it.
THEOREM AsleepByToggleHolds == Spec => []AsleepByToggle
<1>1. Init => AskedInv
  BY DEF Init, AskedInv
<1>2. TypeOK /\ AskedInv /\ [Next]_vars => AskedInv'
  <2> SUFFICES ASSUME TypeOK, AskedInv, [Next]_vars PROVE AskedInv'
    OBVIOUS
  <2> USE DEF AskedInv
  <2>1. CASE Store
    BY <2>1 DEF Store, StoreFader, StorePush, StoreToggle, local, TypeOK
  <2>2. CASE LeaveSettings \/ EnterSettings
    BY <2>2 DEF LeaveSettings, EnterSettings, TypeOK
  <2>3. CASE TestPage1 \/ TestPage2 \/ Kill
    BY <2>3 DEF TestPage1, TestPage2, Kill, shared, local
  <2>4. CASE \/ SetupDefaults \/ TakeMessage \/ NoMessage \/ SetThrottle \/ SetSteering
             \/ TestPro \/ TestNormal \/ SetKp \/ SetOtherGains \/ Calibrate
             \/ \E flat \in BOOLEAN : ControlStep(flat)
    BY <2>4 DEF SetupDefaults, TakeMessage, NoMessage, SetThrottle, SetSteering, TestPro,
                TestNormal, ChangeMode, SetKp, SetOtherGains, Calibrate, ControlStep,
                shared, local
  <2>5. CASE SelectPage \/ \E r \in Requests : Receive(r)
    BY <2>5 DEF SelectPage, Receive, local
  <2>6. CASE UNCHANGED vars
    BY <2>6 DEF vars, shared, local
  <2> QED BY <2>1, <2>2, <2>3, <2>4, <2>5, <2>6 DEF Next
<1>3. AskedInv => AsleepByToggle
  BY DEF AskedInv, AsleepByToggle
<1> QED BY <1>1, <1>2, <1>3, TypeCorrect, PTL DEF Spec

--------------------------------------------------------------------------------
(* The screens                                                                  *)

OnPage1 == {"leave", "throttle", "steering", "pro", "normal"}
OnPage2 == {"enter", "Kp", "Kd", "calibrate", "kill"}

\* A page whose screen differs from the one processed last is still waiting for
\* its first processing, which resets what the other screen left in the cells.
Pending == At("poll") /\ OSCnewMessage /\ handler # "flagged"

\* While client and loop take turns, the page agrees with the place of the loop,
Pages ==
  /\ handler # "idle" => At("poll") /\ OSCnewMessage /\ PageOf(request.param) # 0
  /\ handler = "paged" => OSCpage = PageOf(request.param)
  /\ At("setup") => ~modifing /\ OSCpage = 0
  /\ ~At("asleep")
  /\ loop \in OnPage1 => OSCpage = 1 /\ (modifing <=> At("leave"))
  /\ loop \in OnPage2 => OSCpage = 2 /\ (~modifing <=> At("enter"))
  /\ At("page2") => OSCpage # 1
  /\ modifing /\ OSCpage # 2 => OSCpage = 1 /\ (Pending \/ loop \in {"page1", "leave"})
  /\ ~modifing /\ OSCpage = 2 => Pending \/ loop \in {"page1", "page2", "enter"}

\* the cells hold what the screen that was processed last may store in them,
SettingsOrigins == Origins \ {"fader1", "fader2", "boot", "stop"}

Cells ==
  /\ modifing /\ OSCpage = 2 => /\ OSCtoggle = 0
                                /\ OSCfader[0].from \in SettingsOrigins
                                /\ OSCfader[1].from = "neutral"
  /\ ~modifing /\ OSCpage # 2 /\ ~At("setup") => OSCfader[0].from \in {"fader1", "neutral"}
  /\ ~At("setup") => /\ OSCfader[1].from \in {"fader2", "neutral"}
                     /\ OSCfader[2].from = "neutral" /\ OSCfader[3].from = "neutral"

\* and what the loop has computed from them so far has its origin there.
Thrown == throttle.from \in {"fader1", "neutral", "stop"}
Turned == steering.from \in {"fader2", "neutral", "stop"}
Tuned  == \A g \in Gains : gain[g].from \in SettingsOrigins

Computed ==
  /\ At("steering") => Thrown
  /\ loop \in {"pro", "normal"} => Thrown /\ Turned
  /\ At("Kd") => gain["Kp"].from \in SettingsOrigins
  /\ loop \in {"calibrate", "kill"} => Tuned
  /\ loop \in {"setup", "poll", "page1", "page2", "control"} =>
       IF modifing THEN Tuned ELSE Thrown /\ Turned

\* The two cells that no request stores, and the handler's request.
TurnInv ==
  /\ ~At("setup") => OSCfader[2] = Neutral /\ OSCfader[3] = Neutral
  /\ inTurn => Pages /\ Cells /\ Computed

LEMMA TurnInit == Init => TurnInv
BY DEF Init, TurnInv, Pages, Cells, Computed, Thrown, Turned, Pending, OnPage1, OnPage2, Stop

LEMMA SettingsOriginsAre ==
  SettingsOrigins = {"fader3", "fader4", "fader5", "fader6", "neutral", "default"}
BY DEF SettingsOrigins, Origins, Faders

\* The turn-taking is kept by every action that continues it, and is begun anew
\* by the reset of the cells when a screen is entered.
LEMMA TurnStep ==
  ASSUME TypeOK, TurnInv, [Next]_vars
  PROVE  TurnInv'
<1> USE SettingsOriginsAre DEF TurnInv, Pages, Cells, Computed, Thrown, Turned, Tuned,
        Pending, OnPage1, OnPage2
<1>1. ASSUME NEW r \in Requests, Receive(r) PROVE TurnInv'
  <2>1. inTurn' = (inTurn /\ loop = "poll" /\ ~OSCnewMessage)
    BY <1>1 DEF Receive
  <2>2. inTurn' => inTurn /\ loop = "poll" /\ ~OSCnewMessage
    BY <2>1
  <2>3. /\ handler = "idle" /\ OSCnewMessage'
        /\ \/ handler' = handler /\ request' = request
           \/ handler' = "flagged" /\ PageOf(request'.param) # 0
        /\ UNCHANGED <<OSCpage, OSCfader, OSCtoggle, loop, modifing, throttle, steering, gain>>
    <3> HIDE DEF TurnInv, Pages, Cells, Computed
    <3>1. CASE PageOf(r.param) = 0
      BY <1>1, <3>1 DEF Receive, local
    <3>2. CASE PageOf(r.param) # 0
      BY <1>1, <3>2 DEF Receive, local
    <3> QED BY <3>1, <3>2
  <2> QED BY <2>2, <2>3
<1>2. CASE SelectPage
  BY <1>2 DEF SelectPage, local, PageOf
<1>3. CASE Store
  BY <1>3 DEF Store, StoreFader, StorePush, StoreToggle, local, PageOf, FaderOf, TypeOK,
              Faders, Buttons, Params
<1>4. CASE SetupDefaults
  BY <1>4 DEF SetupDefaults, Neutral, local
<1>5. CASE TakeMessage \/ NoMessage
  <2>1. CASE TakeMessage
    <3>1. inTurn' = (inTurn /\ handler = "idle")
      BY <2>1 DEF TakeMessage
    <3>2. inTurn' => inTurn /\ handler = "idle"
      BY <3>1
    <3>3. /\ loop = "poll" /\ OSCnewMessage /\ loop' = "page1"
          /\ UNCHANGED <<handler, request, OSCpage, OSCfader, OSCtoggle, modifing,
                         throttle, steering, gain>>
      BY <2>1 DEF TakeMessage, local
    <3> QED BY <3>2, <3>3
  <2>2. CASE NoMessage
    BY <2>2 DEF NoMessage, shared, local
  <2> QED BY <1>5, <2>1, <2>2
<1>6. CASE \E flat \in BOOLEAN : ControlStep(flat)
  BY <1>6 DEF ControlStep, Stop, shared
<1>7. CASE TestPage1 \/ TestPage2
  BY <1>7 DEF TestPage1, TestPage2, shared, local
<1>8. CASE LeaveSettings
  BY <1>8 DEF LeaveSettings, Neutral, TypeOK
<1>9. CASE EnterSettings
  BY <1>9 DEF EnterSettings, Neutral, TypeOK
<1>10. CASE SetThrottle \/ SetSteering
  BY <1>10 DEF SetThrottle, SetSteering, shared
<1>11. CASE TestPro \/ TestNormal
  BY <1>11 DEF TestPro, TestNormal, ChangeMode, shared
<1>12. CASE SetKp \/ SetOtherGains
  BY <1>12 DEF SetKp, SetOtherGains, Gains, TypeOK, shared, Neutral
<1>13. CASE Calibrate \/ Kill
  BY <1>13 DEF Calibrate, Kill, shared, local
<1>14. CASE UNCHANGED vars
  BY <1>14 DEF vars, shared, local
<1> QED BY <1>1, <1>2, <1>3, <1>4, <1>5, <1>6, <1>7, <1>8, <1>9, <1>10, <1>11, <1>12,
           <1>13, <1>14 DEF Next

\* In every reachable state, from the last reset of the cells on and for as long as
\* client and loop take turns, a screen that was not processed yet is still
\* flagged, and its processing resets the shared cells before it reads them.
THEOREM TurnInvHolds == Spec => []TurnInv
<1>1. TypeOK /\ TurnInv /\ [Next]_vars => TurnInv'
  BY TurnStep
<1> QED BY <1>1, TurnInit, TypeCorrect, PTL DEF Spec

\* Drive and settings sliders stay apart from the last reset of the cells on, and
\* for as long as client and loop take turns, whatever crossed before it.
THEOREM ScreensApartHolds == Spec => []ScreensApart
<1>1. TurnInv => ScreensApart
  BY SettingsOriginsAre DEF TurnInv, Computed, Thrown, Turned, Tuned, ScreensApart, DriveFrom
<1> QED BY <1>1, TurnInvHolds, PTL

--------------------------------------------------------------------------------
(* Commands are applied                                                         *)

\* No message waits, and the one taken last had been stored when it was taken.
Settled == ~OSCnewMessage /\ ~early

\* A handler at work has left its flag, or has lost it to an early loop().
FlagInv == handler # "idle" /\ ~OSCnewMessage => early

\* Where the loop is while nothing arrives, and what is applied there, on the way
\* to the control step.
AppliedInv ==
  /\ FlagInv
  /\ Settled =>
       /\ At("setup") => OSCpage = 0
       /\ loop \in {"leave", "throttle"} => OSCpage = 1
       /\ At("throttle") => ~modifing
       /\ loop \in {"steering", "pro", "normal"} => OSCpage = 1 /\ ~modifing /\ Throttled
       /\ loop \in {"pro", "normal"} => Steered
       /\ At("normal") => (mode = 0 => OSCtoggle = 0)
       /\ At("page2") => OSCpage # 1
       /\ At("enter") => OSCpage = 2
       /\ loop \in {"Kp", "Kd", "calibrate", "kill", "asleep"} => OSCpage = 2 /\ modifing
       /\ loop \in {"Kd", "calibrate", "kill", "asleep"} => gain["Kp"] = OSCfader[0]
       /\ loop \in {"calibrate", "kill", "asleep"} => gain["Kd"] = OSCfader[1]
       /\ loop \in {"control", "poll"} /\ OSCpage # 0 => Applied

\* A request in the shared cells is announced by the flag, or was taken early.
LEMMA HandlerStep ==
  ASSUME TypeOK, AppliedInv,
         (\E r \in Requests : Receive(r)) \/ SelectPage \/ Store
  PROVE  AppliedInv'
<1>1. \/ (OSCnewMessage \/ early) /\ UNCHANGED <<early, OSCnewMessage>>
      \/ OSCnewMessage'
  BY DEF Receive, SelectPage, Store, AppliedInv, FlagInv
<1>2. FlagInv' /\ ~Settled'
  BY <1>1 DEF FlagInv, Settled, TypeOK
<1> QED BY <1>2 DEF AppliedInv

\* A statement of loop() that leaves the cells, the gains and the drive alone.
LEMMA AppliedSame ==
  ASSUME AppliedInv,
         UNCHANGED <<handler, early, OSCnewMessage, OSCfader, OSCtoggle, throttle,
                     steering, gain, modifing, mode, OSCpage>>
  PROVE  /\ FlagInv'
         /\ Settled' = Settled /\ Applied' = Applied
         /\ Throttled' = Throttled /\ Steered' = Steered
BY DEF AppliedInv, FlagInv, Settled, Applied, Throttled, Steered

LEMMA AppliedStep ==
  ASSUME TypeOK, AppliedInv, [Next]_vars
  PROVE  AppliedInv'
<1>1. CASE (\E r \in Requests : Receive(r)) \/ SelectPage \/ Store
  BY <1>1, HandlerStep
<1>2. CASE SetupDefaults
  <2>1. /\ At("setup") /\ loop' = "poll"
        /\ UNCHANGED <<handler, early, OSCnewMessage, OSCpage>>
    BY <1>2 DEF SetupDefaults
  <2>2. Settled' => OSCpage' = 0
    BY <2>1 DEF AppliedInv, Settled
  <2> QED BY <2>1, <2>2 DEF AppliedInv, FlagInv
<1>3. CASE TakeMessage
  <2>1. loop' = "page1" /\ early' = (handler # "idle") /\ handler' = handler
    BY <1>3 DEF TakeMessage
  <2> QED BY <2>1 DEF AppliedInv, FlagInv
<1>4. CASE NoMessage \/ TestPage1 \/ TestPage2 \/ Calibrate \/ Kill
  <2>1. UNCHANGED <<handler, early, OSCnewMessage, OSCfader, OSCtoggle, throttle,
                    steering, gain, modifing, mode, OSCpage>>
    BY <1>4 DEF NoMessage, TestPage1, TestPage2, Calibrate, Kill, shared, local
  <2>2. /\ FlagInv' /\ Settled' = Settled /\ Applied' = Applied
        /\ Throttled' = Throttled /\ Steered' = Steered
    BY <2>1, AppliedSame
  <2>3. CASE NoMessage
    BY <2>1, <2>2, <2>3 DEF NoMessage, AppliedInv
  <2>4. CASE TestPage1 \/ TestPage2
    BY <2>1, <2>2, <2>4 DEF TestPage1, TestPage2, AppliedInv, TypeOK
  <2>5. CASE Calibrate
    BY <2>1, <2>2, <2>5 DEF Calibrate, AppliedInv
  <2>6. CASE Kill
    <3>1. Settled => Applied
      BY <2>6 DEF Kill, AppliedInv, Applied
    <3> QED BY <2>1, <2>2, <2>6, <3>1 DEF Kill, AppliedInv
  <2> QED BY <1>4, <2>3, <2>4, <2>5, <2>6
<1>5. ASSUME NEW flat \in BOOLEAN, ControlStep(flat) PROVE AppliedInv'
  <2>1. /\ At("control") /\ loop' = "poll"
        /\ \/ throttle' = throttle /\ steering' = steering
           \/ throttle' = Stop /\ steering' = Stop
        /\ UNCHANGED <<handler, early, OSCnewMessage, OSCfader, OSCtoggle, gain, modifing,
                       mode, OSCpage>>
    <3>1. CASE flat
      BY <1>5, <3>1 DEF ControlStep, shared
    <3>2. CASE ~flat
      BY <1>5, <3>2 DEF ControlStep, shared
    <3> QED BY <3>1, <3>2
  <2>2. Settled' = Settled /\ FlagInv'
    BY <2>1 DEF Settled, AppliedInv, FlagInv
  <2>3. Applied => Applied'
    BY <2>1 DEF Applied, Throttled, Steered
  <2> QED BY <2>1, <2>2, <2>3 DEF AppliedInv
<1>6. CASE LeaveSettings \/ EnterSettings
  <2>1. UNCHANGED <<handler, early, OSCnewMessage, OSCpage>>
    BY <1>6 DEF LeaveSettings, EnterSettings
  <2>2. Settled' = Settled /\ FlagInv'
    BY <2>1 DEF Settled, AppliedInv, FlagInv
  <2>3. CASE LeaveSettings
    BY <2>1, <2>2, <2>3 DEF LeaveSettings, AppliedInv
  <2>4. CASE EnterSettings
    BY <2>1, <2>2, <2>4 DEF EnterSettings, AppliedInv
  <2> QED BY <1>6, <2>3, <2>4
<1>7. CASE SetThrottle
  <2>1. /\ At("throttle") /\ loop' = "steering"
        /\ UNCHANGED <<handler, early, OSCnewMessage, OSCfader, modifing, OSCpage>>
        /\ throttle' = [from |-> OSCfader[0].from,
                        val |-> ThrottleFor(OSCfader[0].val, max.throttle)]
    BY <1>7 DEF SetThrottle, shared
  <2>2. max.throttle \in {MAX_THROTTLE, MAX_THROTTLE_PRO}
    BY DEF TypeOK, NormalLimits, ProLimits
  <2>3. Throttled'
    BY <2>1, <2>2 DEF Throttled
  <2> QED BY <2>1, <2>3 DEF AppliedInv, FlagInv, Settled
<1>8. CASE SetSteering
  <2>1. /\ At("steering") /\ loop' = "pro"
        /\ UNCHANGED <<handler, early, OSCnewMessage, OSCfader, throttle, modifing, OSCpage>>
        /\ steering' = [from |-> OSCfader[1].from,
                        val |-> SteeringFor(OSCfader[1].val, max.steering)]
    BY <1>8 DEF SetSteering, shared
  <2>2. max.steering \in {MAX_STEERING, MAX_STEERING_PRO}
    BY DEF TypeOK, NormalLimits, ProLimits
  <2>3. Steered' /\ Throttled' = Throttled
    BY <2>1, <2>2 DEF Steered, Throttled
  <2> QED BY <2>1, <2>3 DEF AppliedInv, FlagInv, Settled
<1>9. CASE TestPro \/ TestNormal
  <2>1. UNCHANGED <<handler, early, OSCnewMessage, OSCfader, OSCtoggle, throttle, steering,
                    modifing, OSCpage>>
    BY <1>9 DEF TestPro, TestNormal, ChangeMode, shared
  <2>2. /\ FlagInv' /\ Settled' = Settled
        /\ Throttled' = Throttled /\ Steered' = Steered
    BY <2>1 DEF AppliedInv, FlagInv, Settled, Throttled, Steered
  <2>3. CASE TestPro
    <3>1. loop = "pro" /\ loop' = "normal" /\ (mode' = 0 => OSCtoggle = 0)
      BY <2>3 DEF TestPro, ChangeMode, TypeOK
    <3> QED BY <2>1, <2>2, <3>1 DEF AppliedInv
  <2>4. CASE TestNormal
    <3>1. /\ loop = "normal" /\ loop' = "control"
          /\ Settled => mode' = OSCtoggle
      BY <2>4 DEF TestNormal, ChangeMode, TypeOK, AppliedInv
    <3>2. Settled => Applied'
      BY <2>1, <2>2, <3>1 DEF AppliedInv, Applied
    <3> QED BY <2>1, <2>2, <3>1, <3>2 DEF AppliedInv
  <2> QED BY <1>9, <2>3, <2>4
<1>10. CASE SetKp \/ SetOtherGains
  <2>1. UNCHANGED <<handler, early, OSCnewMessage, OSCfader, modifing, OSCpage>>
    BY <1>10 DEF SetKp, SetOtherGains, shared
  <2>2. FlagInv' /\ Settled' = Settled
    BY <2>1 DEF AppliedInv, FlagInv, Settled
  <2>3. CASE SetKp
    <3>1. loop = "Kp" /\ loop' = "Kd" /\ gain'["Kp"] = OSCfader[0]
      BY <2>3 DEF SetKp, TypeOK, Gains
    <3> QED BY <2>1, <2>2, <3>1 DEF AppliedInv
  <2>4. CASE SetOtherGains
    <3>1. /\ loop = "Kd" /\ loop' = "calibrate"
          /\ gain'["Kp"] = gain["Kp"] /\ gain'["Kd"] = OSCfader[1]
      BY <2>4 DEF SetOtherGains, TypeOK, Gains
    <3> QED BY <2>1, <2>2, <3>1 DEF AppliedInv
  <2> QED BY <1>10, <2>3, <2>4
<1>11. CASE UNCHANGED vars
  <2>1. UNCHANGED <<handler, early, OSCnewMessage, OSCfader, OSCtoggle, throttle,
                    steering, gain, modifing, mode, OSCpage, loop>>
    BY <1>11 DEF vars, shared, local
  <2> QED BY <2>1, AppliedSame DEF AppliedInv
<1> QED BY <1>1, <1>2, <1>3, <1>4, <1>5, <1>6, <1>7, <1>8, <1>9, <1>10, <1>11 DEF Next

\* Between two requests, and unless the flag was taken before the message was
\* stored, what the shared cells hold has been applied: for every client, and
\* however its requests cross the processing of earlier ones.
THEOREM CommandAppliedHolds == Spec => []CommandApplied
<1>1. Init => AppliedInv
  BY DEF Init, AppliedInv, FlagInv
<1>2. TypeOK /\ AppliedInv /\ [Next]_vars => AppliedInv'
  BY AppliedStep
<1>3. AppliedInv => CommandApplied
  BY DEF AppliedInv, CommandApplied, Settled, Quiet
<1> QED BY <1>1, <1>2, <1>3, TypeCorrect, PTL DEF Spec
===============================================================================
