----------------------------- MODULE BluetoothRobot -----------------------------
(***************************************************************************)
(* SELF_BALANCING_ROBOT: two controllers of the PID library drive two      *)
(* motors, and a phone steers and tunes the robot over Bluetooth.          *)
(*                                                                         *)
(* loop() computes the two controllers, sets the motors and then reads the *)
(* phone.  Reading a packet of the sensor is module DmpFifo; here its      *)
(* result is arbitrary, so that a controller that computes may return      *)
(* anything within its output limits.  The app on the phone (external) is  *)
(* not in the repository: it may send a command at any time, and answers   *)
(* the question of change_pid() with three gains.                          *)
(***************************************************************************)
EXTENDS Integers, Sequences, Functions

CONSTANTS Word,                \* millis() wraps at Word (2^32)
          DefaultTime,         \* the sample time of the constructor (100)
          SampleTime,          \* the one setup() sets (10)
          PwmMax,              \* BALANCE_PID_MAX (255)
          OutLimit, RotLimit,  \* the output limits setup() sets (210 and 20)
          SlackA, SlackB,      \* MOTORSLACK_A, MOTORSLACK_B (32 and 39)
          MaxTurn,             \* the limit of ysetpoint (180)
          Commands,            \* what the app sends unasked: [kind, value]
          Answers,             \* the triples of gains it answers with
          MaxSends, MaxUnread  \* bounds on the messages sent, and not yet read

ASSUME TimeAssumption == /\ Word \in Nat /\ DefaultTime \in 1 .. Word - 1
                         /\ SampleTime \in 1 .. Word - 1
ASSUME LimitAssumption == /\ {PwmMax, OutLimit, RotLimit} \subseteq Nat \ {0}
                          /\ OutLimit <= PwmMax
ASSUME SlackAssumption == /\ SlackA \in Nat /\ SlackB \in Nat
                          /\ RotLimit < SlackA /\ RotLimit < SlackB
ASSUME BoundAssumption == MaxTurn \in Nat /\ MaxSends \in Nat /\ MaxUnread \in Nat

Controllers == {"balance", "rotation"}
Directions  == {"F", "B", "L", "R"}
Kinds       == Directions \cup {"S", "D", "change balance", "change rotation", "update"}

ASSUME CommandAssumption ==
  \A c \in Commands : c.kind \in Kinds /\ c.value \in Int

ASSUME AnswerAssumption == Answers \cap {"default", "mixed"} = {}

VARIABLES pid,             \* the two controllers
          millis,          \* the clock
          motor,           \* MotorAspeed and MotorBspeed
          place,           \* what loop() does next
          blue,            \* the messages that have arrived
          settings,        \* setpoints, d_speed, d_dir and the gains
          age,             \* history: time since each controller last computed
          wanted,          \* history: the settings it asked for until it hurried
          hurried,         \* history: it once sent before the last was dealt with
          sent             \* messages so far

remote  == <<blue, settings, wanted, hurried, sent>>
control == <<pid, motor, age>>
vars    == <<pid, millis, motor, place, blue, settings, age, wanted, hurried, sent>>

Constrain(x, lo, hi) == IF x < lo THEN lo ELSE IF x > hi THEN hi ELSE x

(***************************************************************************)
(* The PID library                                                         *)
(***************************************************************************)

\* The constructor, at millis() = 0; now - lastTime is DefaultTime at once.
NewPID == [mode |-> "MANUAL", outMin |-> 0, outMax |-> PwmMax, period |-> DefaultTime,
           lastTime |-> (0 - DefaultTime) % Word, out |-> 0]

SetMode(p) == [p EXCEPT !.mode = "AUTOMATIC"]

\* As SetOutputLimits, but with the test the wrong way round.
RefuseOutputLimits(p, lo, hi) ==
  IF lo < hi THEN p ELSE [p EXCEPT !.outMin = lo, !.outMax = hi]

SetOutputLimits(p, lo, hi) ==
  IF lo >= hi THEN p
  ELSE [p EXCEPT !.outMin = lo, !.outMax = hi,
                 !.out = IF p.mode = "AUTOMATIC" THEN Constrain(@, lo, hi) ELSE @]

SetPeriod(p, time) == IF time > 0 THEN [p EXCEPT !.period = time] ELSE p

\* As Due, but the deadline may wrap before the clock does.
DueAtDeadline(p) == p.mode = "AUTOMATIC" /\ millis >= (p.lastTime + p.period) % Word

\* Compute() works when a sample time has passed: an unsigned difference.
Due(p) == p.mode = "AUTOMATIC" /\ (millis - p.lastTime) % Word >= p.period

Set(limit) ==
  SetPeriod(SetOutputLimits(SetMode(NewPID), -limit, limit), SampleTime)

(***************************************************************************)
(* The control part of loop()                                              *)
(***************************************************************************)

\* The order of the calls in loop().
After == [balance |-> "rotation", rotation |-> "motors", motors |-> "phone",
          phone |-> "balance"]

Compute(c) ==
  /\ place = c /\ place' = After[c]
  /\ IF Due(pid[c])
       THEN /\ \E out \in pid[c].outMin .. pid[c].outMax :
                 pid' = [pid EXCEPT ![c].out = out, ![c].lastTime = millis]
            /\ age' = [age EXCEPT ![c] = 0]
       ELSE UNCHANGED <<pid, age>>
  /\ UNCHANGED <<millis, motor, remote>>

\* compensate_slack(): the second "if" tests the result of the first.
Compensate(out, slack, turn) ==
  LET first == IF out >= 0 THEN out + slack + turn ELSE out
      both  == IF first < 0 THEN first - slack + turn ELSE first
  IN  Constrain(both, -PwmMax, PwmMax)

\* motorspeed(); MotorAspeed is computed with A = 1, where yOutput counts negative.
SetMotors ==
  /\ place = "motors" /\ place' = After[place]
  /\ motor' = [A |-> Compensate(pid["balance"].out, SlackA, -pid["rotation"].out),
               B |-> Compensate(pid["balance"].out, SlackB, pid["rotation"].out)]
  /\ UNCHANGED <<pid, millis, age, remote>>

(***************************************************************************)
(* The phone                                                               *)
(***************************************************************************)

\* What a command does to the settings; originalSetpoint and yoriginalSetpoint are 0.
Effect(s, c) ==
  CASE c.kind = "F" -> [s EXCEPT !.setpoint = -s.d_speed]
    [] c.kind = "B" -> [s EXCEPT !.setpoint = s.d_speed]
    [] c.kind = "L" -> [s EXCEPT !.ysetpoint = Constrain(@ - s.d_dir, -MaxTurn, MaxTurn)]
    [] c.kind = "R" -> [s EXCEPT !.ysetpoint = Constrain(@ + s.d_dir, -MaxTurn, MaxTurn)]
    [] c.kind = "S" -> [s EXCEPT !.d_speed = c.value]
    [] c.kind = "D" -> [s EXCEPT !.d_dir = c.value]
    [] OTHER -> s

Changing == {"change balance", "change rotation"}
Waiting  == place \in Changing
Asked(s, gains) == IF place = "change balance" THEN [s EXCEPT !.balance = gains]
                                               ELSE [s EXCEPT !.rotation = gains]

\* The message arrives; only one that finds the robot through with the last one,
\* and is a command if and only if the robot is not waiting for gains, is in time.
Arrive(message, asked) ==
  /\ sent < MaxSends /\ sent' = sent + 1
  /\ Len(blue) < MaxUnread /\ blue' = Append(blue, message)
  /\ hurried' = (hurried \/ blue # <<>> \/ Waiting # (message.kind = "gains"))
  /\ wanted' = IF hurried' THEN wanted ELSE asked
  /\ UNCHANGED <<control, millis, place, settings>>

Send(c) == Arrive(c, Effect(wanted, c))

\* The app answers the "O" that change_pid() printed.
Answer(gains) ==
  Waiting /\ Arrive([kind |-> "gains", value |-> gains], Asked(wanted, gains))

\* Bt_control(): readString() takes what arrives until a pause.  The first message
\* decides: the others are lost.  change_pid() asks and waits; what return_pid() prints
\* is left out, and so are the gains an app sends when it is not asked.
ReadString ==
  /\ place = "phone" /\ blue # <<>>
  /\ \E n \in 1 .. Len(blue) : blue' = SubSeq(blue, n + 1, Len(blue))
  /\ LET content == Head(blue)
     IN  /\ settings' = Effect(settings, content)
         /\ place' = IF content.kind \in Changing THEN content.kind ELSE After[place]
  /\ UNCHANGED <<control, millis, wanted, hurried, sent>>

NothingArrived ==
  /\ place = "phone" /\ blue = <<>>
  /\ place' = After[place]
  /\ UNCHANGED <<control, millis, remote>>

\* As ChangePid, but parseFloat() runs out of time: there is no wait before it.
ChangePidAtOnce ==
  /\ Waiting /\ place' = After["phone"]
  /\ IF blue = <<>> THEN settings' = Asked(settings, "mixed") /\ UNCHANGED blue
     ELSE settings' = Asked(settings, Head(blue).value) /\ blue' = Tail(blue)
  /\ UNCHANGED <<control, millis, wanted, hurried, sent>>

\* As ChangePid, but it waits for each of the three numbers.
ChangePidWaitsOften ==
  /\ Waiting /\ Len(blue) >= 3 /\ blue' = <<>>
  /\ settings' = Asked(settings, "mixed")
  /\ place' = After["phone"]
  /\ UNCHANGED <<control, millis, wanted, hurried, sent>>

\* Gains that come first are read as they are.  Behind another message some of the
\* three numbers may be its own, or 0 because parseFloat() ran out of time.
Parsed(read) ==
  IF Head(read).kind = "gains" THEN {Head(read).value}
  ELSE {"mixed"} \cup {m.value : m \in {x \in Range(read) : x.kind = "gains"}}

\* change_pid() waits for a byte without a limit, and then parseFloat() three times
\* for 10 ms.  What remains of a message is ignored.
ChangePid ==
  /\ Waiting /\ blue # <<>>
  /\ \E n \in 1 .. Len(blue) :
       /\ blue' = SubSeq(blue, n + 1, Len(blue))
       /\ \E gains \in Parsed(SubSeq(blue, 1, n)) : settings' = Asked(settings, gains)
  /\ place' = After["phone"]
  /\ UNCHANGED <<control, millis, wanted, hurried, sent>>

(***************************************************************************)
(* The specification                                                       *)
(***************************************************************************)

\* A controller that is not computed for a whole turn of the clock (49 days) is cut off.
Tick ==
  /\ \A c \in Controllers : age[c] < Word - 1
  /\ millis' = (millis + 1) % Word
  /\ age' = [c \in Controllers |-> age[c] + 1]
  /\ UNCHANGED <<pid, motor, place, remote>>

Init ==
  /\ pid = [balance |-> Set(OutLimit), rotation |-> Set(RotLimit)]
  /\ millis = 0 /\ age = [c \in Controllers |-> DefaultTime]
  /\ motor = [A |-> 0, B |-> 0] /\ place = "balance"
  /\ blue = <<>> /\ sent = 0 /\ hurried = FALSE
  /\ settings = [setpoint |-> 0, ysetpoint |-> 0, d_speed |-> 0, d_dir |-> 0,
                 balance |-> "default", rotation |-> "default"]
  /\ wanted = settings

Robot == \/ \E c \in Controllers : Compute(c)
         \/ SetMotors \/ ReadString \/ NothingArrived \/ ChangePid

Next == \/ Robot \/ Tick
        \/ \E c \in Commands : Send(c)
        \/ \E gains \in Answers : Answer(gains)

\* The robot runs and the clock ticks; nothing obliges the phone to answer.
Spec == Init /\ [][Next]_vars /\ WF_vars(Robot) /\ WF_vars(Tick)

(***************************************************************************)
(* Properties                                                              *)
(***************************************************************************)

\* Across the wrap of the clock: no controller computes before a sample time is
\* over, and a pass leaves none without computing that is due.
ComputedOnTime ==
  [][\A c \in Controllers :
       /\ age'[c] < age[c] => age[c] >= SampleTime
       /\ place = c /\ place' # c => age'[c] < SampleTime]_vars

\* The two "if"s of compensate_slack() in a row never both act: the motors get the
\* output with the dead zone added once, on the side of its sign.
Once(out, slack, turn) ==
  Constrain((IF out >= 0 THEN out + slack ELSE out - slack) + turn, -PwmMax, PwmMax)

SlackOnce ==
  place = "phone" =>
    /\ motor.A = Once(pid["balance"].out, SlackA, -pid["rotation"].out)
    /\ motor.B = Once(pid["balance"].out, SlackB, pid["rotation"].out)

\* A phone that waits its turn gets what it asked for: every command carried out
\* once, and the gains those of its last answer.
AsAsked == ~hurried /\ blue = <<>> /\ ~Waiting => settings = wanted

\* The wait of change_pid() is the only one without an end, and only while nothing comes:
\* else both controllers compute again and again, whatever was sent, merged or lost.
KeepsBalancing ==
  <>[](Waiting /\ blue = <<>>) \/ \A c \in Controllers : []<>(age[c] = 0)
================================================================================
