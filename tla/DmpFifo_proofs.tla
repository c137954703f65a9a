----------------------------- MODULE DmpFifo_proofs -----------------------------
(***************************************************************************)
(* Theorems about the sensor loop of the DMP sketches, for every packet    *)
(* size and FIFO that holds at least three packets: reads and computations *)
(* are of whole and newest packets, and a backlog is never worked off.     *)
(***************************************************************************)
EXTENDS DmpFifo, TLAPS

Whole(n) == \E k \in 0 .. Capacity : n = k * packetSize

\* One more packet that fits leaves whole packets.
LEMMA WholeMore ==
  ASSUME NEW n \in 0 .. Capacity, Whole(n), n + packetSize <= Capacity
  PROVE  Whole(n + packetSize)
<1>1. PICK k \in 0 .. Capacity : n = k * packetSize
  BY DEF Whole
<1>2. n + packetSize = (k + 1) * packetSize
  BY <1>1, SizeAssumption
<1>3. k * packetSize >= k
  BY SizeAssumption
<1>4. k + 1 \in 0 .. Capacity
  BY <1>1, <1>3, SizeAssumption
<1> QED BY <1>2, <1>4 DEF Whole

\* One packet less leaves whole packets.
LEMMA WholeLess ==
  ASSUME NEW n \in 0 .. Capacity, Whole(n), packetSize <= n
  PROVE  Whole(n - packetSize)
<1>1. PICK k \in 0 .. Capacity : n = k * packetSize
  BY DEF Whole
<1>2. k # 0
  BY <1>1, SizeAssumption
<1>3. n - packetSize = (k - 1) * packetSize
  BY <1>1, SizeAssumption
<1> QED BY <1>2, <1>3, SizeAssumption DEF Whole

\* Whole packets of less than a packet are none.
LEMMA WholeNone ==
  ASSUME NEW n \in 0 .. Capacity, Whole(n), n < packetSize
  PROVE  n = 0
<1>1. PICK k \in 0 .. Capacity : n = k * packetSize
  BY DEF Whole
<1>2. CASE k = 0
  BY <1>1, <1>2, SizeAssumption
<1>3. CASE k # 0
  <2>1. k * packetSize = (k - 1) * packetSize + packetSize /\ (k - 1) * packetSize >= 0
    BY <1>3, SizeAssumption
  <2> QED BY <1>1, <2>1, SizeAssumption
<1> QED BY <1>2, <1>3

--------------------------------------------------------------------------------

Inv == TypeOK /\ FifoInv

LEMMA InvInit == Init => Inv
<1> SUFFICES ASSUME Init PROVE Inv
  OBVIOUS
<1>1. fifo \in 0 .. Capacity /\ Whole(fifo)
  <2>1. 0 = 0 * packetSize /\ packetSize = 1 * packetSize /\ 1 \in 0 .. Capacity
    BY SizeAssumption
  <2> QED BY <2>1, SizeAssumption DEF Init, Whole
<1>2. TypeOK
  <2>1. /\ aligned \in BOOLEAN /\ dmpBit \in BOOLEAN /\ oflowBit \in BOOLEAN
        /\ mpuInterrupt \in BOOLEAN /\ newest \in BOOLEAN /\ dropped \in BOOLEAN
        /\ mpuIntStatus \in [dmp : BOOLEAN, oflow : BOOLEAN]
    BY DEF Init
  <2> QED BY <1>1, <2>1, SizeAssumption DEF Init, TypeOK
<1>3. FifoInv
  BY <1>1 DEF Init, FifoInv, Unaware, Whole
<1> QED BY <1>2, <1>3 DEF Inv


LEMMA InvNext == Inv /\ [Next]_vars => Inv'
<1> SUFFICES ASSUME Inv, [Next]_vars PROVE Inv'
  OBVIOUS
<1> USE DEF Inv
<1>1. CASE Sample
  <2>0. /\ aligned' \in BOOLEAN /\ dmpBit' \in BOOLEAN /\ oflowBit' \in BOOLEAN
        /\ mpuInterrupt' \in BOOLEAN /\ newest' \in BOOLEAN /\ dropped' \in BOOLEAN
    BY <1>1 DEF Sample, TypeOK
  <2>1. CASE fifo + packetSize > Capacity
    <3>1. fifo' = Capacity /\ aligned' = FALSE /\ oflowBit' = TRUE
      BY <1>1, <2>1 DEF Sample
    <3>2. TypeOK'
      BY <1>1, <2>0, <3>1, SizeAssumption DEF Sample, TypeOK
    <3>3. FifoInv'
      BY <1>1, <3>1, SizeAssumption DEF Sample, TypeOK, FifoInv, Unaware
    <3> QED BY <3>2, <3>3
  <2>2. CASE fifo + packetSize <= Capacity
    <3>1. fifo' = fifo + packetSize /\ aligned' = aligned /\ oflowBit' = oflowBit
      BY <1>1, <2>2, SizeAssumption DEF Sample, TypeOK
    <3>2. TypeOK'
      BY <1>1, <2>0, <2>2, <3>1, SizeAssumption DEF Sample, TypeOK
    <3>3. aligned' => Whole(fifo')
      BY <2>2, <3>1, WholeMore DEF TypeOK, FifoInv, Whole
    <3>4. ~(~aligned /\ Unaware)
      BY <2>2, SizeAssumption DEF FifoInv, TypeOK
    <3>5. FifoInv'
      BY <1>1, <3>1, <3>3, <3>4, SizeAssumption DEF Sample, TypeOK, FifoInv, Unaware, Whole
    <3> QED BY <3>2, <3>5
  <2> QED BY <2>1, <2>2, SizeAssumption DEF TypeOK
<1>2. CASE LeaveWait
  BY <1>2 DEF LeaveWait, Step, Computing, sensor, TypeOK, FifoInv, Unaware
<1>3. CASE GetIntStatus
  BY <1>3 DEF GetIntStatus, Step, TypeOK, FifoInv, Unaware
<1>4. CASE ResetFIFO
  <2>1. Whole(0)
    BY SizeAssumption DEF Whole
  <2>2. fifo' = 0 /\ aligned' = TRUE /\ dropped' = TRUE /\ place' = "rest"
    BY <1>4 DEF ResetFIFO, Step
  <2> QED BY <1>4, <2>1, <2>2, SizeAssumption DEF ResetFIFO, Step, TypeOK, FifoInv, Unaware, Whole
<1>5. CASE GetFIFOBytes
  <2>1. packetSize <= fifoCount /\ fifoCount <= fifo
    BY <1>5, SizeAssumption DEF GetFIFOBytes, Step, FifoInv, TypeOK
  <2>2. fifo' = fifo - packetSize /\ fifoCount' = fifoCount - packetSize
    BY <1>5 DEF GetFIFOBytes
  <2>3. TypeOK'
    <3>1. newest' \in BOOLEAN /\ dropped' \in BOOLEAN
      BY <1>5 DEF GetFIFOBytes
    <3> QED BY <1>5, <2>1, <2>2, <3>1, SizeAssumption DEF GetFIFOBytes, Step, TypeOK
  <2>4. aligned => Whole(fifo')
    <3>1. aligned => Whole(fifo)
      BY DEF FifoInv, Whole
    <3>2. fifo \in 0 .. Capacity /\ packetSize <= fifo
      BY <2>1, SizeAssumption DEF TypeOK
    <3> QED BY <2>2, <3>1, <3>2, WholeLess
  <2>5. ~aligned => fifo' # 0
    BY <1>5, <2>2, SizeAssumption DEF GetFIFOBytes, Step, FifoInv, Unaware
  <2>6. FifoInv'
    BY <1>5, <2>1, <2>2, <2>4, <2>5, SizeAssumption
       DEF GetFIFOBytes, Step, TypeOK, FifoInv, Unaware, Whole
  <2> QED BY <2>3, <2>6
<1>6. CASE Decide
  BY <1>6 DEF Decide, Overflowed, sensor, TypeOK, FifoInv, Unaware
<1>7. CASE GetFIFOCount
  BY <1>7 DEF GetFIFOCount, Step, sensor, TypeOK, FifoInv, Unaware
<1>8. CASE ShortWait \/ LeaveShortWait
  BY <1>8, SizeAssumption DEF ShortWait, LeaveShortWait, Step, sensor, TypeOK, FifoInv, Unaware
<1>9. CASE EndPass \/ Block \/ Unblock
  BY <1>9 DEF EndPass, Block, Unblock, Step, sensor, TypeOK, FifoInv, Unaware
<1>10. CASE Compute
  BY <1>10 DEF Compute, Computing, sensor, TypeOK, FifoInv, Unaware
<1>11. CASE UNCHANGED vars
  BY <1>11 DEF vars, sensor, TypeOK, FifoInv, Unaware
<1> QED BY <1>1, <1>2, <1>3, <1>4, <1>5, <1>6, <1>7, <1>8, <1>9, <1>10, <1>11 DEF Next, Loop

\* The inductive invariant: FifoInv holds in every reachable state.
THEOREM FifoInvHolds == Spec => [](TypeOK /\ FifoInv)
BY InvInit, InvNext, PTL DEF Spec, Inv

\* Types: in particular neither the FIFO nor fifoCount ever becomes negative or
\* exceeds the capacity.
THEOREM TypeCorrect == Spec => []TypeOK
BY FifoInvHolds, PTL

\* getFIFOBytes() never reads past the end of the FIFO.
THEOREM ReadWithinFifoHolds == Spec => []ReadWithinFifo
<1>1. TypeOK /\ FifoInv => ReadWithinFifo
  BY SizeAssumption DEF TypeOK, FifoInv, ReadWithinFifo
<1> QED BY <1>1, FifoInvHolds, PTL

\* A misaligned read comes only from an overflow after the status was read.
THEOREM GarbageOnlyIfLateHolds == Spec => []GarbageOnlyIfLate
<1>1. FifoInv => GarbageOnlyIfLate
  BY DEF FifoInv, GarbageOnlyIfLate
<1> QED BY <1>1, FifoInvHolds, PTL

\* The PID never computes while the FIFO is misaligned.
THEOREM NoComputeMisalignedHolds == Spec => []NoComputeMisaligned
<1>1. FifoInv => NoComputeMisaligned
  BY DEF FifoInv, NoComputeMisaligned, Computing
<1> QED BY <1>1, FifoInvHolds, PTL

\* The PID computes from the newest packet, or after the FIFO was reset.
THEOREM ComputeUsesNewestHolds == Spec => []ComputeUsesNewest
<1>1. TypeOK /\ FifoInv => ComputeUsesNewest
  <2> SUFFICES ASSUME TypeOK, FifoInv, Computing, ~dropped PROVE newest
    BY DEF ComputeUsesNewest, TypeOK
  <2>1. aligned /\ fifoCount = fifo /\ fifo < packetSize
    BY DEF FifoInv, Computing
  <2>2. fifo = 0
    BY <2>1, WholeNone DEF TypeOK, FifoInv, Whole
  <2> QED BY <2>2 DEF FifoInv
<1> QED BY <1>1, FifoInvHolds, PTL

--------------------------------------------------------------------------------
(* The backlog                                                                  *)

\* A packet comes when the last one has been read, and is the one that is owed.
LEMMA BacklogSample ==
  ASSUME Paced
  PROVE  TypeOK /\ Backlog /\ Sample => Backlog'
<1> SUFFICES ASSUME TypeOK, Backlog, Sample PROVE Backlog'
  OBVIOUS
<1>1. passes = 2 BY DEF Sample, Backlog
<1>2. ~(passes < 2) BY <1>1
<1>3. ~dmpBit /\ ~Taken BY <1>2, Zenon DEF Backlog
<1>4. Owed = 0 BY <1>3, Zenon DEF Owed
<1>5. packetSize <= fifo /\ fifo + packetSize < Capacity
  BY <1>4, SizeAssumption DEF Backlog, TypeOK
<1>6. /\ fifo' = fifo + packetSize /\ oflowBit' = oflowBit /\ dmpBit' /\ passes' = 0
      /\ place' = place /\ mpuIntStatus' = mpuIntStatus /\ fifoCount' = fifoCount
  BY <1>5, SizeAssumption DEF Sample, TypeOK
<1>7. ~Taken' /\ Owed' = packetSize BY <1>3, <1>6 DEF Taken, Owed
<1> QED BY <1>3, <1>4, <1>5, <1>6, <1>7, SizeAssumption DEF Backlog, TypeOK

\* A pass reads the packet that is owed and leaves the backlog.
LEMMA BacklogLoop == TypeOK /\ Backlog /\ Loop /\ place' # "stall" => Backlog'
<1> SUFFICES ASSUME TypeOK, Backlog, Loop, place' # "stall" PROVE Backlog'
  OBVIOUS
<1> USE SizeAssumption DEF TypeOK, Backlog, Taken, Owed, sensor, Step
<1>1. CASE Compute BY <1>1 DEF Compute, Computing
<1>2. CASE LeaveWait BY <1>2 DEF LeaveWait
<1>3. CASE GetIntStatus BY <1>3 DEF GetIntStatus
<1>4. CASE GetFIFOCount BY <1>4 DEF GetFIFOCount
<1>5. CASE Decide BY <1>5 DEF Decide, Overflowed
<1>6. CASE ResetFIFO BY <1>6 DEF ResetFIFO
<1>7. CASE ShortWait BY <1>7 DEF ShortWait
<1>8. CASE LeaveShortWait BY <1>8 DEF LeaveShortWait
<1>9. CASE GetFIFOBytes BY <1>9 DEF GetFIFOBytes
<1>10. CASE EndPass BY <1>10 DEF EndPass
<1>11. CASE Block \/ Unblock BY <1>11 DEF Block, Unblock
<1> QED
  BY <1>1, <1>2, <1>3, <1>4, <1>5, <1>6, <1>7, <1>8, <1>9, <1>10, <1>11 DEF Loop

\* With a sensor slow enough for two passes between two packets, a backlog of any size
\* keeps the PID from computing for ever, unless a call blocks once more
\* (Final_balance_code.ino:197-225).
THEOREM BacklogLasts == ASSUME Paced PROVE Spec => NeverAgain
<1>1. TypeOK /\ Backlog /\ [Next]_vars /\ (place # "stall")' => Backlog'
  <2> SUFFICES ASSUME TypeOK, Backlog, [Next]_vars, (place # "stall")' PROVE Backlog'
    OBVIOUS
  <2>1. CASE UNCHANGED vars BY <2>1 DEF vars, sensor, Backlog, Taken, Owed
  <2> QED BY <2>1, BacklogSample, BacklogLoop DEF Next
<1>2. TypeOK /\ Backlog => ~Computing
  BY SizeAssumption DEF TypeOK, Backlog, Computing
<1> QED BY <1>1, <1>2, TypeCorrect, PTL DEF Spec, NeverAgain
================================================================================
