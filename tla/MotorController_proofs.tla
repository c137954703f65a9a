------------------------ MODULE MotorController_proofs -------------------------
(***************************************************************************)
(* For every range of duties and every set of calls: duties and cached      *)
(* speed stay in their ranges, and no command of move() is lost unless the  *)
(* motors were set apart.                                                   *)
(***************************************************************************)
EXTENDS MotorController, TLAPS

Speed == -Full .. Full
Inv   == TypeOK /\ MoveApplied /\ CacheInv

\* A speed that was raised to the minimum is within the limits.
LEMMA AtLeastType == ASSUME NEW speed \in Int, NEW min \in 0 .. Full
                     PROVE  /\ AtLeast(speed, min) \in Speed
                            /\ Abs(AtLeast(speed, min)) \in 0 .. Full
BY FullAssumption DEF AtLeast, Higher, Lower, Speed, Abs

\* A limited speed, and one that needs no limit.
LEMMA ClampType == ASSUME NEW speed \in Int
                   PROVE  /\ Clamp(speed) \in Speed
                          /\ Abs(Clamp(speed)) \in 0 .. Full
                          /\ speed \in Speed => Clamp(speed) = speed
BY FullAssumption DEF Clamp, Higher, Lower, Speed, Abs

\* map() maps the magnitudes 0 .. Full into min .. Full.
LEMMA ScaleType == ASSUME NEW speed \in Speed, NEW min \in 0 .. Full
                   PROVE  Scale(speed, min) \in min .. Full
<1> DEFINE a == Abs(speed)
           b == Full - min
<1>1. a \in 0 .. Full /\ b \in Nat /\ Full \in Nat /\ Full > 0
  BY FullAssumption DEF Abs, Speed
<1> HIDE DEF a, b
<1>2. a * b \in Nat /\ a * b <= Full * b
  <2>1. a \in Nat /\ Full - a \in Nat BY <1>1
  <2>2. a * b \in Nat BY <2>1, <1>1
  <2>3. (Full - a) * b \in Nat BY <2>1, <1>1
  <2>4. (Full - a) * b = Full * b - a * b BY <2>1, <1>1
  <2> QED BY <2>1, <2>2, <2>3, <2>4, <1>1
<1> DEFINE q == (a * b) \div Full
<1>3. q \in Int /\ Full * q <= a * b /\ a * b < Full * q + Full
  BY <1>1, <1>2
<1> HIDE DEF q
<1>4. q >= 0
  <2> SUFFICES ASSUME q < 0 PROVE FALSE BY <1>3
  <2>1. Full * q <= -Full BY <1>1, <1>3
  <2> QED BY <2>1, <1>1, <1>2, <1>3
<1>5. q <= b
  <2> SUFFICES ASSUME q > b PROVE FALSE BY <1>1, <1>3
  <2>1. q - b - 1 \in Nat BY <1>1, <1>3
  <2>2. Full * (q - b - 1) \in Nat BY <1>1, <2>1
  <2>3. Full * (q - b - 1) = Full * q - Full * b - Full BY <1>1, <1>3
  <2> QED BY <1>1, <1>2, <1>3, <2>2, <2>3
<1>6. Scale(speed, min) = q + min BY DEF Scale, q, a, b
<1> QED BY <1>1, <1>3, <1>4, <1>5, <1>6 DEF b

\* A call that drives both motors, or finds that they run already.
LEMMA DriveStep ==
  ASSUME Inv, NEW call \in Int, NEW speed \in Speed, Abs(speed) \in 0 .. Full,
         call \in Speed => call = speed, Drive(call, speed, speed)
  PROVE  Inv'
<1> USE FullAssumption DEF Drive, Inv
<1>1. CASE call = _currentSpeed
  <2>1. speed = _currentSpeed BY <1>1 DEF TypeOK, Speed
  <2>2. UNCHANGED <<left, right, ena, enb, _currentSpeed, apart>> /\ asked' = speed BY <1>1
  <2>3. ~apart => asked' = asked BY <2>1, <2>2 DEF CacheInv
  <2> QED BY <2>1, <2>2, <2>3 DEF TypeOK, MoveApplied, CacheInv, Runs, Speed, Way
<1>2. CASE call # _currentSpeed
  <2>1. Way(speed) \in {"forward", "back"} BY DEF Way
  <2>2. /\ left' = Way(speed) /\ right' = Way(speed)
        /\ ena' = Abs(speed) /\ enb' = Abs(speed)
        /\ _currentSpeed' = speed /\ asked' = speed /\ apart' = FALSE
    BY <1>2
  <2>3. TypeOK' BY <2>1, <2>2 DEF TypeOK, Speed
  <2>4. Runs(asked)' BY <2>2 DEF Runs, Abs
  <2> QED BY <2>2, <2>3, <2>4 DEF MoveApplied, CacheInv
<1> QED BY <1>1, <1>2

\* A call that sets the motors apart only has to keep the duties in range.
LEMMA ApartStep ==
  ASSUME Inv, apart' = TRUE, UNCHANGED <<_currentSpeed, asked>>,
         left' \in {"forward", "back"}, right' \in {"forward", "back"},
         ena' \in 0 .. Full, enb' \in 0 .. Full
  PROVE  Inv'
BY DEF Inv, TypeOK, MoveApplied, CacheInv

LEMMA TurnStep ==
  ASSUME Inv, NEW speed \in Int, NEW min \in 0 .. Full,
         NEW ways \in {<<"forward", "back">>, <<"back", "forward">>}, Turn(ways, speed, min)
  PROVE  Inv'
<1> DEFINE fast == Abs(AtLeast(speed, min))
           slow == Lower(min, Full - fast)
<1>1. fast \in 0 .. Full BY AtLeastType
<1> HIDE DEF fast
<1>2. slow \in 0 .. Full BY <1>1, FullAssumption DEF Lower
<1> HIDE DEF slow
<1>3. ena' \in {fast, slow} /\ enb' \in {fast, slow} BY DEF Turn, fast, slow
<1>4. left' \in {"forward", "back"} /\ right' \in {"forward", "back"} BY DEF Turn
<1>5. apart' = TRUE /\ UNCHANGED <<_currentSpeed, asked>> BY DEF Turn
<1> QED BY <1>1, <1>2, <1>3, <1>4, <1>5, ApartStep

LEMMA BothStep ==
  ASSUME Inv, NEW l \in Int, NEW r \in Int, NEW min \in 0 .. Full, MoveBoth(l, r, min)
  PROVE  Inv'
<1> DEFINE raised(speed) == IF speed = 0 THEN 0 ELSE AtLeast(speed, min)
<1>1. 0 \in Speed BY FullAssumption DEF Speed
<1>2. raised(l) \in Speed /\ raised(r) \in Speed BY <1>1, AtLeastType
<1>3. Scale(raised(l), min) \in min .. Full /\ Scale(raised(r), min) \in min .. Full
  BY <1>2, ScaleType
<1>4. /\ left' = Way(raised(l)) /\ right' = Way(raised(r))
      /\ ena' = Scale(raised(r), min) /\ enb' = Scale(raised(l), min)
      /\ apart' = TRUE /\ UNCHANGED <<_currentSpeed, asked>>
  BY DEF MoveBoth
<1> HIDE DEF raised
<1>5. ena' \in 0 .. Full /\ enb' \in 0 .. Full BY <1>3, <1>4, FullAssumption
<1>6. left' \in {"forward", "back"} /\ right' \in {"forward", "back"} BY <1>4 DEF Way
<1> QED BY <1>4, <1>5, <1>6, ApartStep

LEMMA InitInv == Init => Inv
<1> SUFFICES ASSUME Init PROVE Inv
  OBVIOUS
<1>1. apart \in BOOLEAN BY Zenon DEF Init
<1>2. TypeOK BY <1>1, FullAssumption DEF Init, TypeOK
<1> QED BY <1>2 DEF Init, Inv, MoveApplied, CacheInv, Runs

LEMMA NextInv == Inv /\ [Next]_vars => Inv'
<1> SUFFICES ASSUME Inv, [Next]_vars PROVE Inv'
  OBVIOUS
<1>1. ASSUME NEW speed \in Speeds, NEW min \in MinSpeeds, MoveAtLeast(speed, min) PROVE Inv'
  <2>1. speed \in Int /\ min \in 0 .. Full BY SpeedAssumption
  <2>2. AtLeast(speed, min) \in Speed /\ Abs(AtLeast(speed, min)) \in 0 .. Full
    BY <2>1, AtLeastType
  <2>3. AtLeast(speed, min) \in Int BY <2>2, FullAssumption DEF Speed
  <2>4. Drive(AtLeast(speed, min), AtLeast(speed, min), AtLeast(speed, min))
    BY <1>1 DEF MoveAtLeast
  <2> QED BY <2>2, <2>3, <2>4, DriveStep
<1>2. ASSUME NEW speed \in Speeds, Move(speed) PROVE Inv'
  <2>1. speed \in Int BY SpeedAssumption
  <2>2. /\ Clamp(speed) \in Speed /\ Abs(Clamp(speed)) \in 0 .. Full
        /\ speed \in Speed => speed = Clamp(speed)
    BY <2>1, ClampType
  <2>3. Drive(speed, Clamp(speed), Clamp(speed)) BY <1>2 DEF Move
  <2> QED BY <2>1, <2>2, <2>3, DriveStep
<1>3. ASSUME NEW l \in Speeds, NEW r \in Speeds, NEW min \in MinSpeeds, MoveBoth(l, r, min)
      PROVE  Inv'
  <2>1. l \in Int /\ r \in Int /\ min \in 0 .. Full BY SpeedAssumption
  <2> QED BY <1>3, <2>1, BothStep
<1>4. ASSUME NEW speed \in Speeds, NEW min \in MinSpeeds,
             turnLeft(speed, min) \/ turnRight(speed, min)
      PROVE  Inv'
  <2>1. speed \in Int /\ min \in 0 .. Full BY SpeedAssumption
  <2> QED BY <1>4, <2>1, TurnStep DEF turnLeft, turnRight
<1>5. CASE stopMoving
  <2>1. apart' \in BOOLEAN BY <1>5, Zenon DEF stopMoving
  <2>2. TypeOK' BY <1>5, <2>1, FullAssumption DEF stopMoving, TypeOK
  <2> QED BY <1>5, <2>2 DEF stopMoving, Inv, MoveApplied, CacheInv, Runs
<1>6. CASE UNCHANGED vars
  BY <1>6 DEF vars, Inv, TypeOK, MoveApplied, CacheInv, Runs
<1> QED BY <1>1, <1>2, <1>3, <1>4, <1>5, <1>6 DEF Next

THEOREM Invariant == Spec => []Inv
BY InitInv, NextInv, PTL DEF Spec

\* analogWrite() never gets a value beyond the duties, whatever the library is asked for
\* (LMotorController.cpp:27-175).
THEOREM DutiesInRange == Spec => []TypeOK
BY Invariant, PTL DEF Inv

\* The early return of move() (LMotorController.cpp:81 and 98) loses no command, unless
\* the motors were set apart by a call that does not know the cached speed.
THEOREM MovesApplied == Spec => []MoveApplied
BY Invariant, PTL DEF Inv
================================================================================
