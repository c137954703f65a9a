-------------------------------- MODULE DmpFifo --------------------------------
(***************************************************************************)
(* The sensor loop of the DMP sketches (Balance-robot, robo,               *)
(* Final_balance_code, Arduino_Main_Program): the MPU6050 puts a packet    *)
(* into its FIFO and raises an interrupt, loop() waits for it, computes    *)
(* the PID while it waits, and reads the FIFO over I2C.  One action is one *)
(* I2C transaction or one access to mpuInterrupt.                          *)
(*                                                                         *)
(* The sensor is external: INT_STATUS clears on a read, a full FIFO loses  *)
(* its oldest bytes, so its head no longer starts a packet.  The contents  *)
(* of a packet do not matter, only whether it is whole and the newest one. *)
(***************************************************************************)
EXTENDS Integers

CONSTANTS packetSize,   \* bytes of a packet
          Capacity,     \* bytes of the FIFO: 1024
          Paced         \* TRUE: two passes of loop() fit between two packets

ASSUME SizeAssumption == /\ packetSize \in Nat \ {0} /\ Capacity \in Nat
                         /\ 3 * packetSize <= Capacity
ASSUME PacedAssumption == Paced \in BOOLEAN

VARIABLES fifo,          \* bytes in the FIFO of the sensor
          aligned,       \* its head starts a packet
          dmpBit,        \* INT_STATUS 0x02
          oflowBit,      \* INT_STATUS 0x10
          mpuInterrupt,
          place,         \* the next transaction of loop()
          mpuIntStatus,  \* [dmp, oflow]: the copy of INT_STATUS
          fifoCount,     \* the copy of the FIFO count
          newest,        \* history: "input" is of the newest packet
          dropped,       \* history: the FIFO was reset, or never read, since "input" was set
          passes         \* history: passes of loop() since the last packet, up to 2

sensor == <<fifo, aligned, dmpBit, oflowBit>>
vars == <<sensor, mpuInterrupt, place, mpuIntStatus, fifoCount, newest, dropped, passes>>

TypeOK ==
  /\ fifo \in 0 .. Capacity
  /\ aligned \in BOOLEAN
  /\ dmpBit \in BOOLEAN
  /\ oflowBit \in BOOLEAN
  /\ mpuInterrupt \in BOOLEAN
  /\ place \in {"wait", "status", "count", "decide", "short", "read", "reset", "rest", "stall"}
  /\ mpuIntStatus \in [dmp : BOOLEAN, oflow : BOOLEAN]
  /\ fifoCount \in 0 .. Capacity
  /\ newest \in BOOLEAN
  /\ dropped \in BOOLEAN
  /\ passes \in 0 .. 2

\* After setup(): a packet may have come between setDMPEnabled() and the
\* getIntStatus() of setup(), which cleared its status; the interrupt may
\* already have been attached.
Init ==
  /\ fifo \in {0, packetSize}
  /\ mpuInterrupt \in {FALSE, fifo = packetSize}
  /\ aligned = TRUE
  /\ dmpBit = FALSE /\ oflowBit = FALSE
  /\ place = "wait"
  /\ mpuIntStatus = [dmp |-> FALSE, oflow |-> FALSE]
  /\ fifoCount = 0
  /\ newest = FALSE /\ dropped = TRUE
  /\ passes = 0

(***************************************************************************)
(* The sensor: a packet and its interrupt, dmpDataReady().                 *)
(***************************************************************************)
Sample ==
  /\ Paced => place = "stall" \/ passes = 2
  /\ IF fifo + packetSize > Capacity
       THEN fifo' = Capacity /\ aligned' = FALSE /\ oflowBit' = TRUE
       ELSE fifo' = fifo + packetSize /\ UNCHANGED <<aligned, oflowBit>>
  /\ dmpBit' = TRUE
  /\ mpuInterrupt' = TRUE
  /\ newest' = FALSE
  /\ passes' = 0
  /\ UNCHANGED <<place, mpuIntStatus, fifoCount, dropped>>

(***************************************************************************)
(* loop()                                                                  *)
(***************************************************************************)
Step(from, to) == place = from /\ place' = to

\* As Computing, when only the interrupt is looked at.
ComputingNoInterrupt == place = "wait" /\ ~mpuInterrupt

\* As Computing, when only the count is looked at.
ComputingNoPacket == place = "wait" /\ fifoCount < packetSize

\* The condition of the wait loop, whose body computes the PID and moves.
Computing == place = "wait" /\ ~mpuInterrupt /\ fifoCount < packetSize

LeaveWait ==
  /\ Step("wait", "status")
  /\ ~Computing
  /\ mpuInterrupt' = FALSE
  /\ UNCHANGED <<sensor, mpuIntStatus, fifoCount, newest, dropped, passes>>

GetIntStatus ==
  /\ Step("status", "count")
  /\ mpuIntStatus' = [dmp |-> dmpBit, oflow |-> oflowBit]
  /\ dmpBit' = FALSE /\ oflowBit' = FALSE
  /\ UNCHANGED <<fifo, aligned, mpuInterrupt, fifoCount, newest, dropped, passes>>

\* As GetFIFOCount, but only if the last count holds no packet.
GetFIFOCountIfNone ==
  /\ Step("count", "decide")
  /\ fifoCount' = IF fifoCount < packetSize THEN fifo ELSE fifoCount
  /\ UNCHANGED <<sensor, mpuInterrupt, mpuIntStatus, newest, dropped, passes>>

GetFIFOCount ==
  /\ Step("count", "decide")
  /\ fifoCount' = fifo
  /\ UNCHANGED <<sensor, mpuInterrupt, mpuIntStatus, newest, dropped, passes>>

Overflowed == mpuIntStatus.oflow \/ fifoCount = Capacity

\* As Decide, but a ready packet is tested before the overflow.
DecideReadyFirst ==
  /\ place = "decide"
  /\ place' = IF mpuIntStatus.dmp THEN "short" ELSE IF Overflowed THEN "reset" ELSE "rest"
  /\ UNCHANGED <<sensor, mpuInterrupt, mpuIntStatus, fifoCount, newest, dropped, passes>>

\* As Decide, without the short wait.
DecideNoWait ==
  /\ place = "decide"
  /\ place' = IF Overflowed THEN "reset" ELSE IF mpuIntStatus.dmp THEN "read" ELSE "rest"
  /\ UNCHANGED <<sensor, mpuInterrupt, mpuIntStatus, fifoCount, newest, dropped, passes>>

Decide ==
  /\ place = "decide"
  /\ place' = IF Overflowed THEN "reset" ELSE IF mpuIntStatus.dmp THEN "short" ELSE "rest"
  /\ UNCHANGED <<sensor, mpuInterrupt, mpuIntStatus, fifoCount, newest, dropped, passes>>

\* As ResetFIFO, but the reset does not reach the sensor.
ResetFIFOLost ==
  /\ Step("reset", "rest")
  /\ dropped' = TRUE
  /\ UNCHANGED <<sensor, mpuInterrupt, mpuIntStatus, fifoCount, newest, passes>>

\* fifoCount keeps its value: the next pass does not wait.
ResetFIFO ==
  /\ Step("reset", "rest")
  /\ fifo' = 0 /\ aligned' = TRUE
  /\ dropped' = TRUE
  /\ UNCHANGED <<dmpBit, oflowBit, mpuInterrupt, mpuIntStatus, fifoCount, newest, passes>>

\* "should be a VERY short wait"
ShortWait ==
  /\ Step("short", "short")
  /\ fifoCount < packetSize
  /\ fifoCount' = fifo
  /\ UNCHANGED <<sensor, mpuInterrupt, mpuIntStatus, newest, dropped, passes>>

LeaveShortWait ==
  /\ Step("short", "read")
  /\ fifoCount >= packetSize
  /\ UNCHANGED <<sensor, mpuInterrupt, mpuIntStatus, fifoCount, newest, dropped, passes>>

GetFIFOBytes ==
  /\ Step("read", "rest")
  /\ fifo' = fifo - packetSize
  /\ fifoCount' = fifoCount - packetSize
  /\ newest' = (aligned /\ fifo' = 0)
  /\ dropped' = FALSE
  /\ UNCHANGED <<aligned, dmpBit, oflowBit, mpuInterrupt, mpuIntStatus, passes>>

\* The end of loop(): the next pass, or a blocking call after the pass, such as
\* clint() waiting for a client or printval() waiting for the serial port.
EndPass ==
  /\ Step("rest", "wait")
  /\ passes' = IF passes < 2 THEN passes + 1 ELSE 2
  /\ UNCHANGED <<sensor, mpuInterrupt, mpuIntStatus, fifoCount, newest, dropped>>

Block ==
  /\ Step("rest", "stall")
  /\ UNCHANGED <<sensor, mpuInterrupt, mpuIntStatus, fifoCount, newest, dropped, passes>>

Unblock ==
  /\ Step("stall", "wait")
  /\ UNCHANGED <<sensor, mpuInterrupt, mpuIntStatus, fifoCount, newest, dropped, passes>>

\* A pass of the wait loop that computes and finds nothing new.
Compute ==
  /\ Computing /\ place' = place
  /\ passes' = 2
  /\ UNCHANGED <<sensor, mpuInterrupt, mpuIntStatus, fifoCount, newest, dropped>>

Loop == \/ Compute \/ LeaveWait \/ GetIntStatus \/ GetFIFOCount \/ Decide \/ ResetFIFO
        \/ ShortWait \/ LeaveShortWait \/ GetFIFOBytes \/ EndPass \/ Block \/ Unblock

Next == Sample \/ Loop

\* The sensor samples for ever and the processor runs loop().
Spec == Init /\ [][Next]_vars /\ WF_vars(Sample) /\ WF_vars(Loop)

(***************************************************************************)
(* Properties                                                              *)
(***************************************************************************)

\* A packet is only read from a FIFO that holds one: getFIFOBytes() never runs
\* into an empty FIFO, whatever came between the count and the read.
ReadWithinFifo == place = "read" => fifoCount <= fifo /\ packetSize <= fifo

\* The PID computes from the newest packet, unless packets were thrown away
\* since: waiting on mpuInterrupt and fifoCount together leaves no older data.
ComputeUsesNewest == Computing => newest \/ dropped

\* A packet that does not start at its first byte is only read if the FIFO
\* overflowed after the pass looked at the status and the count.
GarbageOnlyIfLate == place = "read" /\ ~aligned => oflowBit

\* A misaligned FIFO is noticed: it is reset before the PID computes again.
NoComputeMisaligned == Computing => aligned

\* The pass was not told of an overflow that it may read after.
Unaware == \/ place \in {"short", "read"}
           \/ place \in {"count", "decide"} /\ ~mpuIntStatus.oflow

\* What makes the four inductive.  An aligned FIFO holds whole packets; a
\* misaligned one is known to the sensor, then to the pass, and is still full
\* while a pass may read it unaware; an unseen overflow has its interrupt
\* pending; without a pending interrupt fifoCount is the true count, or the
\* FIFO was reset; an empty FIFO has been read to the end or reset.
FifoInv ==
  /\ aligned => \E k \in 0 .. Capacity : fifo = k * packetSize
  /\ ~aligned => \/ oflowBit
                 \/ place = "reset"
                 \/ place \in {"count", "decide"} /\ mpuIntStatus.oflow
  /\ ~aligned /\ Unaware => fifo = Capacity
  /\ oflowBit => mpuInterrupt \/ place = "status"
  /\ place \in {"decide", "short", "read"} =>
       fifoCount <= fifo /\ (~mpuInterrupt => fifoCount = fifo)
  /\ place = "read" => packetSize <= fifoCount
  /\ place \in {"rest", "stall", "wait"} /\ ~mpuInterrupt => fifoCount = fifo \/ dropped
  /\ fifo = 0 => newest \/ dropped

\* The loop recovers from an overflow.
OverflowRecovers == oflowBit ~> (fifo = 0 \/ place = "stall")

\* "track FIFO count here in case there is > 1 packet available (this lets us
\* immediately read more without waiting for an interrupt)": once the blocking
\* calls end, a loop that makes two passes per packet catches up with the FIFO
\* and computes again.
CatchesUp == <>[](place # "stall") => []<>Computing

\* Why it does not, however many packets the FIFO holds.  Owed is the packet that a pass
\* has been told of, or will be, and reads; under it lies a backlog of a packet or more,
\* which the copy fifoCount always shows, so that no pass ever waits and computes.
Taken == mpuIntStatus.dmp /\ place \in {"count", "decide", "short", "read"}
Owed  == IF dmpBit \/ Taken THEN packetSize ELSE 0
Backlog ==
  /\ place # "stall" /\ packetSize <= fifo - Owed /\ fifo - Owed + packetSize < Capacity
  /\ packetSize <= fifoCount /\ fifoCount <= fifo
  /\ place \in {"decide", "short", "read"} /\ Taken => 2 * packetSize <= fifoCount
  /\ ~oflowBit /\ (place \in {"count", "decide"} => ~mpuIntStatus.oflow)
  /\ place # "reset" /\ (place \in {"short", "read"} => Taken)
  /\ Taken => ~dmpBit /\ passes < 2
  /\ dmpBit => passes < 2 /\ (place \notin {"wait", "status"} => passes = 0)

\* Once there is one, left by whatever calls blocked before, and no call blocks any more,
\* it lasts.
NeverAgain == [](Backlog /\ [](place # "stall") => []~Computing)
================================================================================
