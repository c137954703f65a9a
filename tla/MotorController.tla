---------------------------- MODULE MotorController ----------------------------
(***************************************************************************)
(* LMotorController, the library that drives the two motors of the DMP      *)
(* sketches through an L298 bridge.  _currentSpeed caches the speed of the  *)
(* last move(), which returns early when it is asked for the same again.    *)
(* A pair of direction pins is "forward", "back" or "off"; a duty is kept   *)
(* before it is scaled by the constant of its motor.                        *)
(***************************************************************************)
EXTENDS Integers

CONSTANTS Full,        \* the largest duty (255)
          Speeds,      \* speeds that a sketch may ask for
          MinSpeeds    \* minAbsSpeed arguments

ASSUME FullAssumption  == Full \in Nat \ {0}
ASSUME SpeedAssumption == Speeds \subseteq Int /\ MinSpeeds \subseteq 0 .. Full

VARIABLES left, right,      \* IN1 and IN2; IN3 and IN4
          ena, enb,
          _currentSpeed,
          asked,            \* history: the speed the last call wants of both motors
          apart             \* history: a call that sets the motors apart came since
                            \* they were last driven together

vars == <<left, right, ena, enb, _currentSpeed, asked, apart>>

TypeOK ==
  /\ left \in {"forward", "back", "off"} /\ right \in {"forward", "back", "off"}
  /\ ena \in 0 .. Full /\ enb \in 0 .. Full
  /\ _currentSpeed \in -Full .. Full
  /\ asked \in -Full .. Full
  /\ apart \in BOOLEAN

\* The controller is a global object: its members start as 0.
Init ==
  /\ left = "off" /\ right = "off" /\ ena = 0 /\ enb = 0
  /\ _currentSpeed = 0 /\ asked = 0 /\ apart = FALSE

Abs(x)         == IF x < 0 THEN -x ELSE x
Lower(a, b)    == IF a < b THEN a ELSE b
Higher(a, b)   == IF a > b THEN a ELSE b
Way(speed)     == IF speed > 0 THEN "forward" ELSE "back"
Clamp(speed)   == Higher(-Full, Lower(speed, Full))

\* At least min, at most Full, in the direction of the speed; 0 counts as forward.
AtLeast(speed, min) ==
  IF speed < 0 THEN Higher(Lower(speed, -min), -Full) ELSE Lower(Higher(speed, min), Full)

\* Both motors at a speed, which is remembered as "cached"; nothing is done if the
\* call is for the speed that was remembered before.
Drive(call, speed, cached) ==
  /\ asked' = speed
  /\ IF call = _currentSpeed
       THEN UNCHANGED <<left, right, ena, enb, _currentSpeed, apart>>
       ELSE /\ left' = Way(speed) /\ right' = Way(speed)
            /\ ena' = Abs(speed) /\ enb' = Abs(speed)
            /\ _currentSpeed' = cached /\ apart' = FALSE

\* As MoveAtLeast, but the speed that is remembered is the one before the minimum.
MoveForgetsMin(speed, min) == Drive(AtLeast(speed, min), AtLeast(speed, min), Clamp(speed))

\* move(speed, minAbsSpeed)
MoveAtLeast(speed, min) ==
  LET wanted == AtLeast(speed, min) IN Drive(wanted, wanted, wanted)

\* move(speed): the comparison comes before the limit.
Move(speed) == Drive(speed, Clamp(speed), Clamp(speed))

\* As Scale, but the range starts at 0.
ScaleAll(speed, min) == Abs(speed) + min

\* map(|speed|, 0, 255, minAbsSpeed, 255)
Scale(speed, min) == ((Abs(speed) * (Full - min)) \div Full) + min

\* move(leftSpeed, rightSpeed, minAbsSpeed): each duty goes to the other motor.
MoveBoth(l, r, min) ==
  LET raised(speed) == IF speed = 0 THEN 0 ELSE AtLeast(speed, min)
  IN  /\ left' = Way(raised(l)) /\ right' = Way(raised(r))
      /\ ena' = Scale(raised(r), min) /\ enb' = Scale(raised(l), min)
      /\ apart' = TRUE
      /\ UNCHANGED <<_currentSpeed, asked>>

\* The duties of a turn: one motor at the speed, the other at what is left of Full.
Turn(ways, speed, min) ==
  LET fast == Abs(AtLeast(speed, min))
      slow == Lower(min, Full - fast)
      onA  == (speed >= 0) = (ways[1] = "forward")
  IN  /\ left' = ways[1] /\ right' = ways[2]
      /\ ena' = IF onA THEN fast ELSE slow
      /\ enb' = IF onA THEN slow ELSE fast
      /\ apart' = TRUE
      /\ UNCHANGED <<_currentSpeed, asked>>

turnLeft(speed, min)  == Turn(<<"forward", "back">>, speed, min)
turnRight(speed, min) == Turn(<<"back", "forward">>, speed, min)

stopMoving ==
  /\ left' = "off" /\ right' = "off" /\ ena' = Full /\ enb' = Full
  /\ _currentSpeed' = 0 /\ asked' = 0 /\ apart' = FALSE

Next ==
  \/ \E speed \in Speeds, min \in MinSpeeds : MoveAtLeast(speed, min)
  \/ \E speed \in Speeds : Move(speed)
  \/ \E l, r \in Speeds, min \in MinSpeeds : MoveBoth(l, r, min)
  \/ \E speed \in Speeds, min \in MinSpeeds : turnLeft(speed, min) \/ turnRight(speed, min)
  \/ stopMoving

Spec == Init /\ [][Next]_vars

\* Both motors run at "speed"; at 0 they stand, with the bridge off or without a duty.
Runs(speed) ==
  IF speed = 0 THEN \/ left = "off" /\ right = "off"
                    \/ ena = 0 /\ enb = 0
               ELSE /\ left = Way(speed) /\ right = Way(speed)
                    /\ ena = Abs(speed) /\ enb = Abs(speed)

\* The early return of move() never drops a command: after any sequence of calls both
\* motors run at the speed that was asked for last, within its limits, unless they were
\* set apart: turnLeft(), turnRight() and move() of two speeds leave the cached speed
\* alone, and a move() at that speed is then lost.
MoveApplied == ~apart => Runs(asked)

\* What makes it inductive: the cached speed is the one that was asked for.
CacheInv == ~apart => _currentSpeed = asked
================================================================================
