-------------------------- MODULE BluetoothRobot_proofs -------------------------
(***************************************************************************)
(* Theorems about the Bluetooth robot, for every clock width, sample time, *)
(* output limit and dead zone, and for every set of commands: the          *)
(* controllers keep their sample time across the wrap of the clock, the    *)
(* dead zone is added once, and a phone that waits gets what it asked for. *)
(***************************************************************************)
EXTENDS BluetoothRobot, SequenceTheorems, TLAPS

USE TimeAssumption, LimitAssumption, SlackAssumption

\* An unsigned difference is the time that has passed since b.
Elapsed(a, b) == IF a >= b THEN a - b ELSE a - b + Word

LEMMA Unsigned ==
  ASSUME NEW a \in 0 .. Word - 1, NEW b \in 0 .. Word - 1
  PROVE  (a - b) % Word = Elapsed(a, b)
<1>1. CASE a >= b BY <1>1 DEF Elapsed
<1>2. CASE a < b BY <1>2 DEF Elapsed
<1> QED BY <1>1, <1>2

\* The clock wraps to 0.
LEMMA NextMillis ==
  ASSUME NEW t \in 0 .. Word - 1
  PROVE  (t + 1) % Word = IF t < Word - 1 THEN t + 1 ELSE 0
OBVIOUS

\* The first computation is due at once.
LEMMA FirstTime == (0 - DefaultTime) % Word = Word - DefaultTime
OBVIOUS

\* The dead zone is added once, as long as the turn is smaller than it.
LEMMA DeadZone ==
  ASSUME NEW out \in Int, NEW slack \in Int, NEW turn \in Int,
         -slack < turn, turn < slack
  PROVE  Compensate(out, slack, turn) = Once(out, slack, turn)
<1>1. CASE out >= 0 BY <1>1 DEF Compensate, Once
<1>2. CASE out < 0 BY <1>2 DEF Compensate, Once
<1> QED BY <1>1, <1>2

--------------------------------------------------------------------------------
(* The controllers                                                              *)

Places == {"balance", "rotation", "motors", "phone"} \cup Changing

Controller == [mode : {"AUTOMATIC"}, outMin : Int, outMax : Int, period : {SampleTime},
               lastTime : 0 .. Word - 1, out : Int]

TimeInv ==
  /\ place \in Places
  /\ millis \in 0 .. Word - 1
  /\ age \in [Controllers -> 0 .. Word - 1]
  /\ pid \in [Controllers -> Controller]
  /\ \A c \in Controllers : age[c] = Elapsed(millis, pid[c].lastTime)

TurnLimit ==
  /\ pid["rotation"].outMin = -RotLimit /\ pid["rotation"].outMax = RotLimit
  /\ pid["rotation"].out \in -RotLimit .. RotLimit

LEMMA ControlInit == Init => TimeInv /\ TurnLimit /\ SlackOnce
<1> SUFFICES ASSUME Init PROVE TimeInv /\ TurnLimit /\ SlackOnce
  OBVIOUS
<1>1. ASSUME NEW limit \in Nat \ {0}
      PROVE  Set(limit) = [mode |-> "AUTOMATIC", outMin |-> -limit, outMax |-> limit,
                           period |-> SampleTime, lastTime |-> Word - DefaultTime, out |-> 0]
  <2> DEFINE new == [mode |-> "AUTOMATIC", outMin |-> 0, outMax |-> PwmMax, period |-> DefaultTime,
                     lastTime |-> Word - DefaultTime, out |-> 0]
             set == [mode |-> "AUTOMATIC", outMin |-> -limit, outMax |-> limit,
                     period |-> DefaultTime, lastTime |-> Word - DefaultTime, out |-> 0]
  <2>1. SetMode(NewPID) = new
    <3>1. NewPID = [new EXCEPT !.mode = "MANUAL"]
      BY FirstTime DEF NewPID
    <3>2. SetMode(NewPID) = [[new EXCEPT !.mode = "MANUAL"] EXCEPT !.mode = "AUTOMATIC"]
      BY <3>1 DEF SetMode
    <3> QED BY <3>2
  <2>2. Constrain(0, -limit, limit) = 0 /\ ~(-limit >= limit)
    BY DEF Constrain
  <2>3. SetOutputLimits(new, -limit, limit) = set
    BY <2>2 DEF SetOutputLimits
  <2>4. SetPeriod(set, SampleTime) = [set EXCEPT !.period = SampleTime]
    BY DEF SetPeriod
  <2> QED BY <2>1, <2>3, <2>4 DEF Set
<1>2. /\ pid = [balance |-> Set(OutLimit), rotation |-> Set(RotLimit)]
      /\ millis = 0 /\ age = [c \in Controllers |-> DefaultTime] /\ place = "balance"
  BY DEF Init
<1>3. Set(OutLimit) \in Controller /\ Set(RotLimit) \in Controller
  <2>1. \A limit \in Nat : limit \in Int /\ -limit \in Int
    OBVIOUS
  <2>2. Word - DefaultTime \in 0 .. Word - 1 /\ OutLimit \in Nat \ {0} /\ RotLimit \in Nat \ {0}
    OBVIOUS
  <2>3. ASSUME NEW limit \in Nat \ {0} PROVE Set(limit) \in Controller
    BY <1>1, <2>1, <2>2 DEF Controller
  <2> QED BY <2>2, <2>3
<1>4. pid \in [Controllers -> Controller]
  BY <1>2, <1>3 DEF Controllers
<1>5. \A c \in Controllers : pid[c].lastTime = Word - DefaultTime
  BY <1>1, <1>2 DEF Controllers
<1>6. Elapsed(0, Word - DefaultTime) = DefaultTime
  BY DEF Elapsed
<1>7. TimeInv
  BY <1>2, <1>4, <1>5, <1>6 DEF TimeInv, Places
<1>8. TurnLimit
  BY <1>1, <1>2 DEF TurnLimit
<1> QED BY <1>2, <1>7, <1>8 DEF SlackOnce

\* A computation starts a new sample time; without one nothing changes.
LEMMA ComputeStep ==
  ASSUME TimeInv, TurnLimit, NEW c \in Controllers, Compute(c)
  PROVE  /\ TimeInv' /\ TurnLimit' /\ SlackOnce'
         /\ \A d \in Controllers : /\ age'[d] < age[d] => age[d] >= SampleTime
                                   /\ place = d => age'[d] < SampleTime
<1> USE DEF TimeInv
<1>1. place' \in {"rotation", "motors"}
  BY DEF Compute, After, Controllers
<1>2. Due(pid[c]) <=> age[c] >= SampleTime
  <2>1. pid[c] \in Controller OBVIOUS
  <2>2. (millis - pid[c].lastTime) % Word = age[c]
    BY <2>1, Unsigned DEF Controller
  <2> QED BY <2>1, <2>2 DEF Due, Controller
<1>3. CASE Due(pid[c])
  <2> PICK out \in pid[c].outMin .. pid[c].outMax :
              pid' = [pid EXCEPT ![c].out = out, ![c].lastTime = millis]
    BY <1>3 DEF Compute
  <2>1. age' = [age EXCEPT ![c] = 0] /\ millis' = millis
    BY <1>3 DEF Compute
  <2>2. pid' = [pid EXCEPT ![c] = [pid[c] EXCEPT !.out = out, !.lastTime = millis]]
    OBVIOUS
  <2>3. pid[c] \in Controller /\ out \in Int
    <3>1. pid[c] \in Controller OBVIOUS
    <3>2. pid[c].outMin \in Int /\ pid[c].outMax \in Int BY <3>1 DEF Controller
    <3> QED BY <3>1, <3>2
  <2>4. [pid[c] EXCEPT !.out = out, !.lastTime = millis] \in Controller
    BY <2>3 DEF Controller
  <2>5. pid' \in [Controllers -> Controller]
    BY <2>2, <2>4
  <2>6. \A d \in Controllers : age'[d] = Elapsed(millis', pid'[d].lastTime)
    BY <2>1, <2>2, <2>3 DEF Elapsed, Controller
  <2>7. TurnLimit'
    BY <2>2, <2>3 DEF TurnLimit, Controllers, Controller
  <2>8. TimeInv'
    BY <1>1, <2>1, <2>5, <2>6 DEF Places
  <2>9. place = c
    BY DEF Compute
  <2> QED BY <1>1, <1>2, <1>3, <2>1, <2>7, <2>8, <2>9 DEF SlackOnce, Controllers
<1>4. CASE ~Due(pid[c])
  <2>1. UNCHANGED <<pid, age, millis>> /\ place = c
    BY <1>4 DEF Compute
  <2>2. \A d \in Controllers : age[d] \in Int BY TimeAssumption
  <2> QED BY <1>1, <1>2, <1>4, <2>1, <2>2 DEF SlackOnce, TurnLimit, Places
<1> QED BY <1>3, <1>4

\* The motors are set from outputs within their limits.
LEMMA MotorStep ==
  ASSUME TimeInv, TurnLimit, SetMotors
  PROVE  TimeInv' /\ TurnLimit' /\ SlackOnce'
<1>1. UNCHANGED <<pid, age, millis>> /\ place' = "phone"
  BY DEF SetMotors, After
<1>2. pid["balance"].out \in Int
  <2> pid["balance"] \in Controller BY DEF TimeInv, Controllers
  <2> QED BY DEF Controller
<1> DEFINE turn == pid["rotation"].out
<1>3. /\ turn \in Int /\ -turn \in Int /\ SlackA \in Int /\ SlackB \in Int
      /\ -SlackA < -turn /\ -turn < SlackA /\ -SlackB < turn /\ turn < SlackB
  BY DEF TurnLimit
<1>4. motor' = [A |-> Compensate(pid["balance"].out, SlackA, -turn),
                B |-> Compensate(pid["balance"].out, SlackB, turn)]
  BY DEF SetMotors
<1> HIDE DEF turn
<1>5. /\ Compensate(pid["balance"].out, SlackA, -turn) = Once(pid["balance"].out, SlackA, -turn)
      /\ Compensate(pid["balance"].out, SlackB, turn) = Once(pid["balance"].out, SlackB, turn)
  BY <1>2, <1>3, DeadZone
<1>6. SlackOnce' BY <1>1, <1>4, <1>5 DEF SlackOnce, turn
<1> QED BY <1>1, <1>6 DEF TimeInv, TurnLimit, Places

\* The clock makes both controllers older.
LEMMA ClockStep ==
  ASSUME TimeInv, TurnLimit, SlackOnce, Tick
  PROVE  TimeInv' /\ TurnLimit' /\ SlackOnce' /\ \A c \in Controllers : age'[c] > age[c]
<1> USE DEF TimeInv
<1>1. /\ millis' = IF millis < Word - 1 THEN millis + 1 ELSE 0
      /\ UNCHANGED <<pid, motor, place>>
  BY NextMillis DEF Tick
<1>2. ASSUME NEW c \in Controllers
      PROVE  age'[c] = age[c] + 1 /\ age'[c] \in 0 .. Word - 1
             /\ age'[c] = Elapsed(millis', pid'[c].lastTime)
  <2>1. age[c] \in 0 .. Word - 1 /\ age[c] < Word - 1 /\ age'[c] = age[c] + 1
    BY DEF Tick
  <2>2. pid[c].lastTime \in 0 .. Word - 1
    <3> pid[c] \in Controller OBVIOUS
    <3> QED BY DEF Controller
  <2> QED BY <1>1, <2>1, <2>2 DEF Elapsed
<1>3. age' \in [Controllers -> 0 .. Word - 1]
  BY <1>2 DEF Tick
<1>4. \A c \in Controllers : age'[c] > age[c]
  BY <1>2
<1>5. TimeInv'
  BY <1>1, <1>2, <1>3
<1> QED BY <1>1, <1>4, <1>5 DEF TurnLimit, SlackOnce

\* The phone only takes the loop from reading it back to the controllers.
LEMMA PhoneStep ==
  ASSUME TimeInv, TurnLimit, SlackOnce,
         \/ ReadString \/ NothingArrived \/ ChangePid
         \/ (\E c \in Commands : Send(c)) \/ \E gains \in Answers : Answer(gains)
  PROVE  /\ TimeInv' /\ TurnLimit' /\ SlackOnce' /\ age' = age
         /\ \A c \in Controllers : place = c => place' = c
<1>1. UNCHANGED <<pid, motor, age, millis>>
  BY DEF ReadString, NothingArrived, ChangePid, Send, Answer, Arrive, control
<1>2. CASE place' = place
  BY <1>1, <1>2 DEF TimeInv, TurnLimit, SlackOnce
<1>3. CASE ReadString \/ NothingArrived \/ ChangePid
  <2>1. place = "phone" \/ place \in Changing
    BY <1>3 DEF ReadString, NothingArrived, ChangePid, Waiting
  <2>2. After["phone"] = "balance"
    BY DEF After
  <2>3. place' \in {"balance"} \cup Changing
    BY <1>3, <2>2 DEF ReadString, NothingArrived, ChangePid
  <2>4. place \notin Controllers
    BY <2>1 DEF Changing, Controllers
  <2> QED BY <1>1, <2>3, <2>4 DEF TimeInv, TurnLimit, SlackOnce, Places, Changing, Controllers
<1>4. CASE (\E c \in Commands : Send(c)) \/ \E gains \in Answers : Answer(gains)
  <2> place' = place BY <1>4 DEF Send, Answer, Arrive
  <2> QED BY <1>2
<1> QED BY <1>3, <1>4

LEMMA ControlStep ==
  TimeInv /\ TurnLimit /\ SlackOnce /\ [Next]_vars => TimeInv' /\ TurnLimit' /\ SlackOnce'
<1> SUFFICES ASSUME TimeInv, TurnLimit, SlackOnce, [Next]_vars
             PROVE  TimeInv' /\ TurnLimit' /\ SlackOnce'
  OBVIOUS
<1>1. CASE UNCHANGED vars
  BY <1>1 DEF vars, TimeInv, TurnLimit, SlackOnce
<1> QED BY <1>1, ComputeStep, MotorStep, ClockStep, PhoneStep DEF Next, Robot

\* The dead zone is added once, on the side of the output's sign, for all limits
\* of rotation below the dead zone: the two "if"s of compensate_slack() never both act.
THEOREM SlackOnceHolds == Spec => []SlackOnce
<1> QED BY ControlInit, ControlStep, PTL DEF Spec

\* No controller computes before its sample time is over, and none that is due is
\* passed over, wherever the clock wraps.
THEOREM ComputedOnTimeHolds == Spec => ComputedOnTime
<1> DEFINE OnTime == \A c \in Controllers :
                       /\ age'[c] < age[c] => age[c] >= SampleTime
                       /\ place = c /\ place' # c => age'[c] < SampleTime
<1>1. TimeInv /\ TurnLimit /\ SlackOnce /\ [Next]_vars => [OnTime]_vars
  <2> SUFFICES ASSUME TimeInv, TurnLimit, SlackOnce, Next PROVE OnTime
    OBVIOUS
  <2>0. \A c \in Controllers : age[c] \in Int
    BY DEF TimeInv
  <2>1. CASE \E c \in Controllers : Compute(c)
    BY <2>1, ComputeStep
  <2>2. CASE SetMotors
    <3> place = "motors" /\ age' = age BY <2>2 DEF SetMotors
    <3> QED BY <2>0 DEF Controllers
  <2>3. CASE Tick
    <3> place' = place BY <2>3 DEF Tick
    <3>1. \A c \in Controllers : age'[c] = age[c] + 1
      BY <2>3 DEF Tick
    <3> QED BY <2>0, <3>1
  <2>4. CASE \/ ReadString \/ NothingArrived \/ ChangePid
             \/ (\E c \in Commands : Send(c)) \/ \E gains \in Answers : Answer(gains)
    BY <2>0, <2>4, PhoneStep
  <2> QED BY <2>1, <2>2, <2>3, <2>4 DEF Next, Robot
<1> QED BY <1>1, ControlInit, ControlStep, PTL DEF Spec, ComputedOnTime

--------------------------------------------------------------------------------
(* The phone                                                                    *)

\* A phone that waits has at most one message under way, which makes the settings
\* what it wants them to be.
AskedInv ==
  ~hurried =>
    \/ blue = <<>> /\ settings = wanted
    \/ \E m : /\ blue = <<m>>
              /\ IF Waiting THEN m.kind = "gains" /\ wanted = Asked(settings, m.value)
                            ELSE wanted = Effect(settings, m)

\* A line with one message.
LEMMA Single ==
  ASSUME NEW m
  PROVE  /\ Append(<<>>, m) = <<m>> /\ Len(<<m>>) = 1 /\ Head(<<m>>) = m
         /\ SubSeq(<<m>>, 2, 1) = <<>> /\ SubSeq(<<m>>, 1, 1) = <<m>> /\ <<m>> # <<>>
<1>1. <<>> \in Seq({m}) /\ <<m>> \in Seq({m}) /\ Len(<<m>>) = 1 /\ Head(<<m>>) = m
  OBVIOUS
<1>2. Append(<<>>, m) = <<m>> /\ <<m>> # <<>>
  BY <1>1
<1>3. SubSeq(<<m>>, 2, 1) = <<>>
  BY <1>1
<1>4. SubSeq(<<m>>, 1, 1) = <<m>>
  BY <1>1, SubSeqFull
<1> QED BY <1>1, <1>2, <1>3, <1>4

LEMMA AskedStep == AskedInv /\ [Next]_vars => AskedInv'
<1> SUFFICES ASSUME AskedInv, [Next]_vars, ~hurried' PROVE AskedInv'
  BY DEF AskedInv
<1>1. ASSUME NEW c \in Commands, Send(c) PROVE AskedInv'
  <2>1. /\ ~hurried /\ blue = <<>> /\ Waiting = (c.kind = "gains")
        /\ blue' = Append(blue, c) /\ wanted' = Effect(wanted, c)
        /\ UNCHANGED <<place, settings>>
    BY <1>1 DEF Send, Arrive
  <2>2. ~Waiting
    BY <2>1, CommandAssumption DEF Kinds, Directions
  <2>3. blue' = <<c>> /\ ~Waiting'
    BY <2>1, <2>2, Single DEF Waiting
  <2> QED BY <2>1, <2>3 DEF AskedInv
<1>2. ASSUME NEW gains \in Answers, Answer(gains) PROVE AskedInv'
  <2> DEFINE m == [kind |-> "gains", value |-> gains]
  <2>1. /\ ~hurried /\ blue = <<>> /\ blue' = Append(blue, m)
        /\ wanted' = Asked(wanted, gains) /\ UNCHANGED <<place, settings>> /\ Waiting
    BY <1>2 DEF Answer, Arrive
  <2>2. blue' = <<m>> /\ Waiting' /\ m.kind = "gains" /\ m.value = gains
    BY <2>1, Single DEF Waiting
  <2>3. wanted' = Asked(settings, gains)'
    BY <2>1 DEF AskedInv, Asked
  <2> QED BY <2>2, <2>3 DEF AskedInv
<1>3. CASE ReadString
  <2>1. /\ ~hurried /\ ~Waiting /\ blue # <<>> /\ UNCHANGED wanted
        /\ settings' = Effect(settings, Head(blue))
    BY <1>3 DEF ReadString, Waiting, Changing
  <2>2. PICK m : blue = <<m>> /\ wanted = Effect(settings, m)
    BY <2>1 DEF AskedInv
  <2>3. blue' = <<>>
    BY <1>3, <2>2, Single DEF ReadString
  <2> QED BY <2>1, <2>2, <2>3, Single DEF AskedInv
<1>4. CASE ChangePid
  <2>1. ~hurried /\ Waiting /\ blue # <<>> /\ UNCHANGED wanted
    BY <1>4 DEF ChangePid
  <2>2. PICK m : blue = <<m>> /\ m.kind = "gains" /\ wanted = Asked(settings, m.value)
    BY <2>1 DEF AskedInv
  <2>3. blue' = <<>> /\ \E gains \in Parsed(<<m>>) : settings' = Asked(settings, gains)
    <3> PICK n \in 1 .. Len(blue) :
               /\ blue' = SubSeq(blue, n + 1, Len(blue))
               /\ \E gains \in Parsed(SubSeq(blue, 1, n)) : settings' = Asked(settings, gains)
      BY <1>4 DEF ChangePid
    <3>1. n = 1 /\ Len(blue) = 1
      BY <2>2, Single
    <3>2. SubSeq(blue, n + 1, Len(blue)) = <<>>
      BY <2>2, <3>1, Single
    <3>3. SubSeq(blue, 1, n) = <<m>>
      BY <2>2, <3>1, Single
    <3> QED BY <3>2, <3>3
  <2>4. Parsed(<<m>>) = {m.value}
    BY <2>2, Single, Zenon DEF Parsed
  <2> QED BY <2>1, <2>2, <2>3, <2>4 DEF AskedInv
<1>5. CASE NothingArrived
  <2> UNCHANGED <<blue, settings, wanted, hurried>> /\ blue = <<>>
    BY <1>5 DEF NothingArrived, remote
  <2> QED BY DEF AskedInv
<1>6. CASE \/ (\E c \in Controllers : Compute(c)) \/ SetMotors \/ Tick \/ UNCHANGED vars
  <2>1. UNCHANGED <<blue, settings, wanted, hurried>>
    BY <1>6 DEF Compute, SetMotors, Tick, vars, remote
  <2>2. UNCHANGED place \/ (~Waiting /\ ~Waiting')
    <3>1. CASE Tick \/ UNCHANGED vars
      BY <3>1 DEF Tick, vars
    <3>2. CASE SetMotors
      BY <3>2 DEF SetMotors, After, Waiting, Changing
    <3>3. ASSUME NEW c \in Controllers, Compute(c) PROVE ~Waiting /\ ~Waiting'
      <4>1. After["balance"] = "rotation" /\ After["rotation"] = "motors"
        BY DEF After
      <4>2. place = c /\ place' = After[c]
        BY <3>3 DEF Compute
      <4>3. place \in {"balance", "rotation"} /\ place' \in {"rotation", "motors"}
        BY <4>1, <4>2 DEF Controllers
      <4> QED BY <4>3 DEF Waiting, Changing
    <3> QED BY <1>6, <3>1, <3>2, <3>3
  <2>3. CASE UNCHANGED place
    BY <2>1, <2>3 DEF AskedInv, Waiting, Asked
  <2>4. CASE ~Waiting /\ ~Waiting'
    BY <2>1, <2>4 DEF AskedInv
  <2> QED BY <2>2, <2>3, <2>4
<1> QED BY <1>1, <1>2, <1>3, <1>4, <1>5, <1>6 DEF Next, Robot

\* A phone that waits its turn gets what it asked for, whatever the commands are.
THEOREM AsAskedHolds == Spec => []AsAsked
<1>1. Init => AskedInv
  BY DEF Init, AskedInv
<1>2. AskedInv => AsAsked
  BY DEF AskedInv, AsAsked
<1> QED BY <1>1, <1>2, AskedStep, PTL DEF Spec
================================================================================
