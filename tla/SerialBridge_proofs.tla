--------------------------- MODULE SerialBridge_proofs --------------------------
(***************************************************************************)
(* Theorems about the serial bridge, for every set of requests.  However   *)
(* the lines are cut and merged, no answer of the Nano is delivered twice; *)
(* if the user waits, an absolute value gets through and no other gain      *)
(* changes; line by line, the two chips implement the tuning page.         *)
(***************************************************************************)
EXTENDS SerialBridge, SequenceTheorems, TLAPS

\* What arrives is a prefix, the rest stays on the line.
LEMMA Split ==
  ASSUME NEW S, NEW s \in Seq(S), NEW n \in 1 .. Len(s)
  PROVE  /\ SubSeq(s, 1, n) \in Seq(S) /\ Len(SubSeq(s, 1, n)) = n
         /\ SubSeq(s, n + 1, Len(s)) \in Seq(S) /\ Len(SubSeq(s, n + 1, Len(s))) = Len(s) - n
         /\ \A i \in 1 .. Len(s) - n : SubSeq(s, n + 1, Len(s))[i] = s[n + i]
<1>1. \A i \in 1 .. Len(s) : s[i] \in S
  OBVIOUS
<1>2. SubSeq(s, 1, n) \in Seq(S) /\ Len(SubSeq(s, 1, n)) = n
  BY <1>1, SubSeqProperties
<1>3. /\ SubSeq(s, n + 1, Len(s)) \in Seq(S) /\ Len(SubSeq(s, n + 1, Len(s))) = Len(s) - n
      /\ \A i \in 1 .. Len(s) - n : SubSeq(s, n + 1, Len(s))[i] = s[n + i]
  <2>1. \A i \in (n + 1) .. Len(s) : s[i] \in S
    BY <1>1
  <2>2. /\ SubSeq(s, n + 1, Len(s)) \in Seq(S)
        /\ Len(SubSeq(s, n + 1, Len(s))) = IF n + 1 <= Len(s) THEN Len(s) - (n + 1) + 1 ELSE 0
        /\ \A i \in 1 .. Len(s) - (n + 1) + 1 : SubSeq(s, n + 1, Len(s))[i] = s[n + 1 + i - 1]
    BY <2>1, SubSeqProperties
  <2> QED BY <2>2
<1> QED BY <1>2, <1>3

--------------------------------------------------------------------------------
(* Types                                                                        *)

\* A complete string has something in it.
StringInv == stringComplete => inputString # <<>>

LEMMA LineTypes ==
  /\ \A line \in Lines : line.value \in Int
  /\ \A line \in Lines : Pieces(line) \in Seq(Piece)
<1>1. Log.value = 0 /\ Server.value = 0
  BY DEF Log, Server
<1>2. \A line \in Lines : line.value \in Int
  BY <1>1, RequestsAssumption DEF Lines
<1>3. ASSUME NEW line \in Lines PROVE Pieces(line) \in Seq(Piece)
  BY DEF Pieces, Piece
<1> QED BY <1>2, <1>3

\* A command leaves every gain a number, whatever it names.
LEMMA EffectType ==
  ASSUME NEW g \in [Gains -> Int], NEW line, line.value \in Int
  PROVE  Effect(g, line) \in [Gains -> Int]
<1>1. ASSUME NEW name PROVE [g EXCEPT ![name] = g[name] + line.value] \in [Gains -> Int]
  <2>1. CASE name \in Gains BY <2>1
  <2>2. CASE name \notin Gains BY <2>2
  <2> QED BY <2>1, <2>2
<1>2. ASSUME NEW name PROVE [g EXCEPT ![name] = line.value] \in [Gains -> Int]
  OBVIOUS
<1> QED BY <1>1, <1>2 DEF Effect

LEMMA NumberType ==
  ASSUME inputString \in Seq(Piece), inputString # <<>>, NEW name
  PROVE  Number(name) \in Int
<1>1. inputString[1] \in Piece
  OBVIOUS
<1>2. inputString[1].line \in Lines
  BY <1>1 DEF Piece
<1>3. inputString[1].line.value \in Int
  BY <1>2, LineTypes
<1> QED BY <1>3 DEF Number

LEMMA TypeStep == TypeOK /\ StringInv /\ [Next]_vars => TypeOK' /\ StringInv'
<1> SUFFICES ASSUME TypeOK, StringInv, [Next]_vars PROVE TypeOK' /\ StringInv'
  OBVIOUS
<1> USE DEF TypeOK, StringInv
<1>1. ASSUME NEW r \in Requests, HandleTuning(r) PROVE TypeOK' /\ StringInv'
  <2>1. r \in Lines /\ Log \in Lines
    BY DEF Lines
  <2>2. toNano' \in Seq(Piece)
    BY <1>1, <2>1, LineTypes DEF HandleTuning
  <2>3. wanted' \in [Gains -> Int]
    BY <1>1, EffectType, RequestsAssumption DEF HandleTuning
  <2>4. espComplete' \in BOOLEAN /\ stringComplete' \in BOOLEAN /\ link' \in Links
    BY <1>1, Zenon DEF HandleTuning, nano
  <2>5. StringInv'
    BY <1>1 DEF HandleTuning, nano
  <2>6. reply' \in Nat /\ sent' \in Nat /\ last' \in Requests \cup {Log}
    BY <1>1 DEF HandleTuning
  <2>7. UNCHANGED <<toEsp, inputString, gain, turn, pidData, printed>>
    BY <1>1 DEF HandleTuning, nano
  <2> QED BY <2>2, <2>3, <2>4, <2>5, <2>6, <2>7
<1>2. CASE EspSerialEvent
  <2>1. PICK n \in 1 .. Len(toEsp) :
          pidData' = toEsp[n] /\ toEsp' = SubSeq(toEsp, n + 1, Len(toEsp))
    BY <1>2 DEF EspSerialEvent
  <2>2. pidData' \in Nat /\ toEsp' \in Seq(Nat)
    BY <2>1, Split
  <2>3. espComplete' \in BOOLEAN /\ stringComplete' \in BOOLEAN /\ link' \in Links
    BY <1>2, Zenon DEF EspSerialEvent, nano
  <2>4. UNCHANGED <<toNano, inputString, stringComplete, gain, turn, sent, wanted, last,
                    printed, reply>>
    BY <1>2 DEF EspSerialEvent, nano
  <2> QED BY <2>2, <2>3, <2>4
<1>3. CASE NanoSerialEvent
  <2>1. /\ turn' = "loop"
        /\ UNCHANGED <<link, toEsp, gain, espComplete, pidData, sent, wanted, last, printed,
                       reply>>
    BY <1>3 DEF NanoSerialEvent, esp
  <2>2. CASE UNCHANGED <<toNano, inputString, stringComplete>>
    <3>1. stringComplete' \in BOOLEAN /\ espComplete' \in BOOLEAN
      BY <2>1, <2>2, Zenon
    <3> QED BY <2>1, <2>2, <3>1
  <2>3. ASSUME NEW n \in 1 .. Len(toNano),
               inputString' = inputString \o SubSeq(toNano, 1, n),
               toNano' = SubSeq(toNano, n + 1, Len(toNano)),
               stringComplete' = (stringComplete \/ \E i \in 1 .. n : toNano[i].part = "end")
        PROVE  TypeOK' /\ StringInv'
    <3>1. SubSeq(toNano, 1, n) \in Seq(Piece) /\ toNano' \in Seq(Piece)
          /\ Len(SubSeq(toNano, 1, n)) = n
      BY <2>3, Split
    <3>2. inputString' \in Seq(Piece) /\ Len(inputString') = Len(inputString) + n
      BY <2>3, <3>1
    <3>3. inputString' # <<>>
      BY <3>2
    <3>4. stringComplete' \in BOOLEAN /\ espComplete' \in BOOLEAN
      BY <2>1, <2>3, Zenon
    <3> QED BY <2>1, <3>1, <3>2, <3>3, <3>4
  <2> QED BY <1>3, <2>2, <2>3 DEF NanoSerialEvent
<1>4. CASE NanoLoop
  <2>1. /\ turn' = "serialEvent"
        /\ UNCHANGED <<link, toNano, espComplete, pidData, sent, wanted, last, reply>>
    BY <1>4 DEF NanoLoop, esp
  <2>2. CASE ~stringComplete
    <3>1. UNCHANGED <<toEsp, inputString, stringComplete, gain, printed>>
      BY <1>4, <2>2 DEF NanoLoop
    <3>2. stringComplete' \in BOOLEAN /\ espComplete' \in BOOLEAN
      BY <2>1, <3>1, Zenon
    <3> QED BY <2>1, <3>1, <3>2
  <2>3. CASE stringComplete
    <3>1. /\ inputString' = <<>> /\ ~stringComplete' /\ stringComplete' \in BOOLEAN
          /\ espComplete' \in BOOLEAN
      BY <1>4, <2>1, <2>3 DEF NanoLoop, Clear
    <3>2. inputString' \in Seq(Piece)
      BY <3>1
    <3>3. (\E r \in Requests : StepGain(r)) \/ SetGain \/ PrintGains \/ Ignore
      BY <1>4, <2>3 DEF NanoLoop
    <3>4. gain' \in [Gains -> Int]
      <4>1. CASE \E r \in Requests : StepGain(r)
        BY <4>1, EffectType, RequestsAssumption DEF StepGain
      <4>2. CASE SetGain
        <5>1. PICK k \in 1 .. Len(Absolute) :
                gain' = [gain EXCEPT ![Absolute[k]] = Number(Absolute[k])]
          BY <4>2 DEF SetGain
        <5>2. Number(Absolute[k]) \in Int
          BY <2>3, NumberType
        <5> QED BY <5>1, <5>2
      <4>3. CASE PrintGains \/ Ignore
        BY <4>3 DEF PrintGains, Ignore
      <4> QED BY <3>3, <4>1, <4>2, <4>3
    <3>5. toEsp' \in Seq(Nat) /\ printed' \in Nat
      <4>1. CASE PrintGains
        BY <4>1 DEF PrintGains
      <4>2. CASE UNCHANGED <<toEsp, printed>>
        BY <4>2
      <4> QED BY <3>3, <4>1, <4>2 DEF StepGain, SetGain, Ignore
    <3> QED BY <2>1, <3>1, <3>2, <3>4, <3>5
  <2> QED BY <2>2, <2>3
<1>5. CASE UNCHANGED vars
  <2>1. stringComplete' \in BOOLEAN /\ espComplete' \in BOOLEAN
    BY <1>5, Zenon DEF vars, nano, esp
  <2> QED BY <1>5, <2>1 DEF vars, nano, esp
<1> QED BY <1>1, <1>2, <1>3, <1>4, <1>5 DEF Next, Nano

LEMMA TypeInit == Init => TypeOK /\ StringInv
<1> SUFFICES ASSUME Init PROVE TypeOK /\ StringInv
  OBVIOUS
<1>1. toNano \in Seq(Piece)
  <2>1. Log \in Lines /\ Server \in Lines
    BY DEF Lines
  <2>2. Pieces(Log) \o Pieces(Server) \o Pieces(Log) \in Seq(Piece)
    BY <2>1, LineTypes
  <2> QED BY <2>2 DEF Init
<1>2. inputString \in Seq(Piece) /\ toEsp \in Seq(Nat)
  BY DEF Init
<1>3. gain \in [Gains -> Int] /\ wanted \in [Gains -> Int]
  BY InitialAssumption DEF Init
<1>4. stringComplete \in BOOLEAN /\ espComplete \in BOOLEAN /\ ~stringComplete
  BY DEF Init
<1> QED BY <1>1, <1>2, <1>3, <1>4 DEF Init, TypeOK, StringInv

\* Type correctness, for every set of requests.
THEOREM TypeCorrect == Spec => []TypeOK
<1> QED BY TypeInit, TypeStep, PTL DEF Spec

--------------------------------------------------------------------------------
(* Answers                                                                      *)

\* The answers under way are newer than the one that waits, in the order printed.
AnswerInv ==
  /\ Answered
  /\ \A i \in 1 .. Len(toEsp) : pidData < toEsp[i] /\ toEsp[i] <= printed
  /\ \A i, j \in 1 .. Len(toEsp) : i < j => toEsp[i] < toEsp[j]

LEMMA AnswerStep == TypeOK /\ AnswerInv /\ [Next]_vars => AnswerInv'
<1> SUFFICES ASSUME TypeOK, AnswerInv, [Next]_vars PROVE AnswerInv'
  OBVIOUS
<1> USE DEF AnswerInv, Answered
<1>0. pidData \in Nat /\ printed \in Nat /\ reply \in Nat /\ toEsp \in Seq(Nat)
  BY DEF TypeOK
<1>1. ASSUME NEW r \in Requests, HandleTuning(r) PROVE AnswerInv'
  <2>1. UNCHANGED <<toEsp, pidData, printed>> /\ ~espComplete' /\ reply' \in {reply, pidData}
    BY <1>1 DEF HandleTuning
  <2> QED BY <1>0, <2>1
<1>2. CASE EspSerialEvent
  <2>1. PICK n \in 1 .. Len(toEsp) :
          pidData' = toEsp[n] /\ toEsp' = SubSeq(toEsp, n + 1, Len(toEsp))
    BY <1>2 DEF EspSerialEvent
  <2>2. UNCHANGED <<printed, reply>>
    BY <1>2 DEF EspSerialEvent
  <2>3. /\ Len(toEsp') = Len(toEsp) - n
        /\ \A i \in 1 .. Len(toEsp) - n : toEsp'[i] = toEsp[n + i]
    BY <1>0, <2>1, Split
  <2>4. toEsp[n] \in Nat /\ pidData < toEsp[n] /\ toEsp[n] <= printed
    BY <1>0
  <2>5. ASSUME NEW i \in 1 .. Len(toEsp')
        PROVE  pidData' < toEsp'[i] /\ toEsp'[i] <= printed
    <3>1. n + i \in 1 .. Len(toEsp) /\ n < n + i /\ toEsp'[i] = toEsp[n + i]
      BY <1>0, <2>3
    <3> QED BY <2>1, <3>1
  <2>6. ASSUME NEW i \in 1 .. Len(toEsp'), NEW j \in 1 .. Len(toEsp'), i < j
        PROVE  toEsp'[i] < toEsp'[j]
    <3>1. /\ n + i \in 1 .. Len(toEsp) /\ n + j \in 1 .. Len(toEsp) /\ n + i < n + j
          /\ toEsp'[i] = toEsp[n + i] /\ toEsp'[j] = toEsp[n + j]
      BY <1>0, <2>3, <2>6
    <3> QED BY <3>1
  <2>7. reply' < pidData' /\ pidData' <= printed'
    BY <1>0, <2>1, <2>2, <2>4
  <2>8. Answered'
    BY <1>0, <2>1, <2>2, <2>4, <2>7
  <2> QED BY <2>2, <2>5, <2>6, <2>8
<1>3. CASE PrintGains /\ NanoLoop
  <2>1. /\ printed' = printed + 1 /\ toEsp' = Append(toEsp, printed + 1)
        /\ UNCHANGED <<pidData, reply, espComplete>>
    BY <1>3 DEF PrintGains, NanoLoop, esp
  <2>2. /\ Len(toEsp') = Len(toEsp) + 1 /\ toEsp'[Len(toEsp) + 1] = printed + 1
        /\ \A i \in 1 .. Len(toEsp) : toEsp'[i] = toEsp[i] /\ toEsp[i] \in Nat
    BY <1>0, <2>1
  <2> QED BY <1>0, <2>1, <2>2
<1>4. CASE UNCHANGED <<toEsp, pidData, printed, reply, espComplete>>
  BY <1>4
<1>5. CASE NanoLoop
  <2>1. CASE stringComplete
    <3>1. PrintGains \/ UNCHANGED <<toEsp, printed>>
      BY <1>5, <2>1 DEF NanoLoop, StepGain, SetGain, Ignore
    <3>2. UNCHANGED <<pidData, reply, espComplete>>
      BY <1>5 DEF NanoLoop, esp
    <3> QED BY <1>3, <1>4, <1>5, <3>1, <3>2
  <2>2. CASE ~stringComplete
    BY <1>4, <1>5, <2>2 DEF NanoLoop, esp
  <2> QED BY <2>1, <2>2
<1>6. CASE NanoSerialEvent \/ UNCHANGED vars
  BY <1>4, <1>6 DEF NanoSerialEvent, vars, esp
<1> QED BY <1>1, <1>2, <1>5, <1>6 DEF Next, Nano

\* No request gets an answer that another one got, and none an answer that was
\* never printed, however the lines between the chips are cut and merged.
THEOREM AnsweredHolds == Spec => []Answered
<1>1. Init => AnswerInv
  BY DEF Init, AnswerInv, Answered
<1>2. AnswerInv => Answered
  BY DEF AnswerInv
<1> QED BY <1>1, <1>2, AnswerStep, TypeCorrect, PTL DEF Spec

--------------------------------------------------------------------------------
(* What the Nano has not handled                                                *)

\* The pieces of a concatenation, part by part; of two pairs; of something and four.
LEMMA Joined ==
  ASSUME NEW S, NEW s \in Seq(S), NEW t \in Seq(S)
  PROVE  /\ s \o t \in Seq(S) /\ Len(s \o t) = Len(s) + Len(t)
         /\ \A j \in 1 .. Len(s) : (s \o t)[j] = s[j]
         /\ \A j \in 1 .. Len(t) : (s \o t)[Len(s) + j] = t[j]
OBVIOUS

LEMMA JoinedPairs ==
  ASSUME NEW S, NEW s \in Seq(S), NEW t \in Seq(S)
  PROVE  Len(s) = 2 /\ Len(t) = 2 =>
           /\ Len(s \o t) = 4
           /\ (s \o t)[1] = s[1] /\ (s \o t)[2] = s[2]
           /\ (s \o t)[3] = t[1] /\ (s \o t)[4] = t[2]
<1> DEFINE st == s \o t
<1>1. /\ st \in Seq(S) /\ Len(st) = Len(s) + Len(t)
      /\ \A j \in 1 .. Len(s) : st[j] = s[j]
      /\ \A j \in 1 .. Len(t) : st[Len(s) + j] = t[j]
  BY Joined
<1> HIDE DEF st
<1> SUFFICES ASSUME Len(s) = 2, Len(t) = 2
             PROVE  Len(st) = 4 /\ st[1] = s[1] /\ st[2] = s[2] /\ st[3] = t[1] /\ st[4] = t[2]
  BY DEF st
<1>2. Len(st) = 4 /\ st[1] = s[1] /\ st[2] = s[2]
  BY <1>1
<1>3. st[2 + 1] = t[1] /\ st[2 + 2] = t[2]
  BY <1>1
<1> QED BY <1>2, <1>3

LEMMA JoinedFour ==
  ASSUME NEW S, NEW s \in Seq(S), NEW t \in Seq(S)
  PROVE  Len(t) = 4 => /\ Len(s \o t) = Len(s) + 4
                       /\ \A j \in 1 .. Len(s) : (s \o t)[j] = s[j]
                       /\ \A j \in 1 .. 4 : (s \o t)[Len(s) + j] = t[j]
<1> DEFINE st == s \o t
<1>1. /\ st \in Seq(S) /\ Len(st) = Len(s) + Len(t)
      /\ \A j \in 1 .. Len(s) : st[j] = s[j]
      /\ \A j \in 1 .. Len(t) : st[Len(s) + j] = t[j]
  BY Joined
<1> HIDE DEF st
<1> SUFFICES ASSUME Len(t) = 4
             PROVE  /\ Len(st) = Len(s) + 4
                    /\ \A j \in 1 .. Len(s) : st[j] = s[j]
                    /\ \A j \in 1 .. 4 : st[Len(s) + j] = t[j]
  BY DEF st
<1> QED BY <1>1

LEMMA BytesParts ==
  ASSUME inputString \in Seq(Piece), toNano \in Seq(Piece)
  PROVE  /\ Bytes \in Seq(Piece) /\ Len(Bytes) = Len(inputString) + Len(toNano)
         /\ Len(inputString) \in Nat /\ Len(toNano) \in Nat
         /\ \A j \in 1 .. Len(inputString) : Bytes[j] = inputString[j]
         /\ \A j \in 1 .. Len(toNano) : Bytes[Len(inputString) + j] = toNano[j]
BY ConcatProperties DEF Bytes

\* Reading moves pieces from the line into the string.
LEMMA BytesRead == TypeOK /\ NanoSerialEvent => Bytes' = Bytes
<1> SUFFICES ASSUME TypeOK, NanoSerialEvent PROVE Bytes' = Bytes
  OBVIOUS
<1>1. CASE UNCHANGED <<toNano, inputString>>
  BY <1>1 DEF Bytes
<1>2. ASSUME NEW n \in 1 .. Len(toNano),
             inputString' = inputString \o SubSeq(toNano, 1, n),
             toNano' = SubSeq(toNano, n + 1, Len(toNano))
      PROVE  Bytes' = Bytes
  <2>1. SubSeq(toNano, 1, n) \in Seq(Piece) /\ toNano' \in Seq(Piece)
    BY <1>2, Split DEF TypeOK
  <2>2. SubSeq(toNano, 1, n) \o toNano' = toNano
    BY <1>2, ConcatAdjacentSubSeq, SubSeqFull DEF TypeOK
  <2>3. Bytes' = inputString \o (SubSeq(toNano, 1, n) \o toNano')
    <3>1. inputString \in Seq(Piece)
      BY DEF TypeOK
    <3>2. (inputString \o SubSeq(toNano, 1, n)) \o toNano'
            = inputString \o (SubSeq(toNano, 1, n) \o toNano')
      BY <2>1, <3>1, ConcatAssociative
    <3>3. Bytes' = (inputString \o SubSeq(toNano, 1, n)) \o toNano'
      BY <1>2 DEF Bytes
    <3> QED BY <3>2, <3>3
  <2> QED BY <2>2, <2>3 DEF Bytes
<1> QED BY <1>1, <1>2 DEF NanoSerialEvent

\* A request adds four pieces.
LEMMA PiecesOf ==
  ASSUME NEW r \in Lines, NEW log \in Lines
  PROVE  LET four == Pieces(r) \o Pieces(log)
         IN  /\ four \in Seq(Piece) /\ Len(four) = 4
             /\ four[1] = [line |-> r, part |-> "name"]
             /\ four[2] = [line |-> r, part |-> "end"]
             /\ four[3] = [line |-> log, part |-> "name"]
             /\ four[4] = [line |-> log, part |-> "end"]
<1> DEFINE four == Pieces(r) \o Pieces(log)
<1>1. Pieces(r) \in Seq(Piece) /\ Pieces(log) \in Seq(Piece)
  BY LineTypes
<1>2. Len(Pieces(r)) = 2 /\ Len(Pieces(log)) = 2
  BY DEF Pieces
<1>3. four \in Seq(Piece)
  BY <1>1
<1>4. /\ Len(four) = 4
      /\ four[1] = Pieces(r)[1] /\ four[2] = Pieces(r)[2]
      /\ four[3] = Pieces(log)[1] /\ four[4] = Pieces(log)[2]
  BY <1>1, <1>2, JoinedPairs
<1> HIDE DEF four
<1>5. /\ four[1] = [line |-> r, part |-> "name"] /\ four[2] = [line |-> r, part |-> "end"]
      /\ four[3] = [line |-> log, part |-> "name"] /\ four[4] = [line |-> log, part |-> "end"]
  BY <1>4 DEF Pieces
<1> QED BY <1>3, <1>4, <1>5 DEF four

LEMMA BytesSent ==
  ASSUME TypeOK, NEW r \in Requests, HandleTuning(r)
  PROVE  LET four == Pieces(r) \o Pieces(Log)
         IN  /\ Bytes \in Seq(Piece) /\ four \in Seq(Piece) /\ Bytes' = Bytes \o four
             /\ Len(Bytes') = Len(Bytes) + 4
             /\ \A j \in 1 .. Len(Bytes) : Bytes'[j] = Bytes[j]
             /\ \A j \in 1 .. 4 : Bytes'[Len(Bytes) + j] = four[j]
<1> DEFINE four == Pieces(r) \o Pieces(Log)
<1>1. r \in Lines /\ Log \in Lines
  BY DEF Lines
<1>2. four \in Seq(Piece) /\ Len(four) = 4
  BY <1>1, PiecesOf
<1>3. Pieces(r) \in Seq(Piece) /\ Pieces(Log) \in Seq(Piece)
  BY <1>1, LineTypes
<1>4. toNano' = toNano \o four /\ inputString' = inputString
  <2>1. toNano' = (toNano \o Pieces(r)) \o Pieces(Log) /\ inputString' = inputString
    BY DEF HandleTuning, nano
  <2>2. (toNano \o Pieces(r)) \o Pieces(Log) = toNano \o four
    BY <1>3, ConcatAssociative DEF TypeOK
  <2> QED BY <2>1, <2>2
<1> HIDE DEF four
<1>5. Bytes' = Bytes \o four
  <2>1. inputString \in Seq(Piece) /\ toNano \in Seq(Piece)
    BY DEF TypeOK
  <2>2. (inputString \o toNano) \o four = inputString \o (toNano \o four)
    BY <1>2, <2>1, ConcatAssociative
  <2> QED BY <1>4, <2>2 DEF Bytes
<1>6. Bytes \in Seq(Piece)
  BY BytesParts DEF TypeOK
<1>7. /\ Len(Bytes \o four) = Len(Bytes) + 4
      /\ \A j \in 1 .. Len(Bytes) : (Bytes \o four)[j] = Bytes[j]
      /\ \A j \in 1 .. 4 : (Bytes \o four)[Len(Bytes) + j] = four[j]
  BY <1>2, <1>6, JoinedFour
<1> QED BY <1>2, <1>5, <1>6, <1>7 DEF four

\* Handling a string leaves what is on the line.
LEMMA BytesCleared ==
  ASSUME TypeOK, NanoLoop, stringComplete
  PROVE  /\ inputString' = <<>> /\ Bytes' = toNano
         /\ Len(Bytes') = Len(Bytes) - Len(inputString)
         /\ \A j \in 1 .. Len(Bytes') : Bytes'[j] = Bytes[Len(inputString) + j]
<1>1. inputString' = <<>> /\ toNano' = toNano
  BY DEF NanoLoop, Clear
<1>2. Bytes' = toNano
  BY <1>1, ConcatEmptySeq DEF Bytes, TypeOK
<1> QED BY <1>1, <1>2, BytesParts DEF TypeOK

--------------------------------------------------------------------------------
(* What the Nano does with a string                                             *)

LEMMA AbsoluteNames ==
  /\ Len(Absolute) = 6
  /\ \A k \in 1 .. 6 : Absolute[k] \in Gains
  /\ "Server ip" \notin Gains /\ "log" \notin Gains /\ "ok" \notin Gains
BY DEF Absolute, Gains

\* Requests are no text, and of the names that are looked for they have one at most.
LEMMA RequestKinds ==
  ASSUME NEW r \in Requests
  PROVE  /\ r # Log /\ r # Server /\ r.name # "Server ip"
         /\ IsStep(r) => r.name \in DOMAIN Relative /\ ~IsNumber(r) /\ ~IsQuery(r)
         /\ IsNumber(r) => r.name \in Gains /\ ~IsStep(r) /\ ~IsQuery(r)
         /\ IsQuery(r) => r.name = "ok"
         /\ IsStep(r) \/ IsNumber(r) \/ IsQuery(r)
<1>1. Log.kind = "text" /\ Server.kind = "text"
  BY DEF Log, Server
<1>2. IsCommand(r) \/ IsQuery(r)
  BY RequestsAssumption
<1> QED BY <1>1, <1>2 DEF IsCommand, IsQuery, IsStep, IsNumber, Gains, Relative

\* Where the name of a gain is a name of a step, the step is for that gain.
LEMMA RelativeOfGain ==
  \A name \in DOMAIN Relative : name \in Gains => Relative[name] = name
BY DEF Relative, Gains

\* Of log lines and of the server's line only the latter has a name, that of "p".
LEMMA TextMentions ==
  ASSUME \A j \in 1 .. Len(inputString) : inputString[j].line \in {Log, Server},
         NEW name \in Gains, Mentions(name)
  PROVE  name = "p" /\ \E j \in 1 .. Len(inputString) : inputString[j].line = Server
<1>1. Log.name = "log" /\ Server.name = "Server ip"
  BY DEF Log, Server
<1>2. PICK j \in 1 .. Len(inputString) :
        inputString[j].line.name \in {name} \cup (IF name = "p" THEN {"Server ip"} ELSE {})
  BY DEF Mentions
<1> QED BY <1>1, <1>2, AbsoluteNames

\* Text changes no gain but "p", and log lines none at all.
LEMMA TextHandled ==
  ASSUME TypeOK, NanoLoop, stringComplete, inputString # <<>>,
         \A j \in 1 .. Len(inputString) : inputString[j].line \in {Log, Server}
  PROVE  /\ \A g \in Gains : gain'[g] # gain[g] => g = "p"
         /\ (\A j \in 1 .. Len(inputString) : inputString[j].line = Log) => gain' = gain
<1>1. ASSUME NEW r \in Requests PROVE ~Equals(r)
  <2>1. SUFFICES ASSUME Equals(r) PROVE FALSE
    OBVIOUS
  <2>2. inputString[1].line = r /\ 1 \in 1 .. Len(inputString)
    BY <2>1 DEF Equals, Pieces
  <2> QED BY <2>2, RequestKinds
<1>2. CASE SetGain
  <2>1. PICK k \in 1 .. 6 :
          Mentions(Absolute[k]) /\ gain' = [gain EXCEPT ![Absolute[k]] = Number(Absolute[k])]
    BY <1>2, AbsoluteNames DEF SetGain, FirstMention
  <2>2. Absolute[k] = "p" /\ \E j \in 1 .. Len(inputString) : inputString[j].line = Server
    BY <2>1, AbsoluteNames, TextMentions
  <2>3. Log # Server
    BY DEF Log, Server
  <2> QED BY <2>1, <2>2, <2>3 DEF TypeOK
<1>3. CASE UNCHANGED gain
  BY <1>3
<1> QED BY <1>1, <1>2, <1>3 DEF NanoLoop, StepGain, PrintGains, Ignore

\* A string that begins with the name of a request, and has no other name that is looked
\* for, does what the request asks for, if it is a number or the line alone.
LEMMA RequestHandled ==
  ASSUME TypeOK, NanoLoop, stringComplete, inputString # <<>>, NEW r \in Requests,
         inputString[1] = [line |-> r, part |-> "name"],
         \A j \in 2 .. Len(inputString) : inputString[j].part = "end" \/ inputString[j].line = Log
  PROVE  /\ IsNumber(r) => gain' = [gain EXCEPT ![r.name] = r.value]
         /\ IsQuery(r) => gain' = gain
         /\ IsStep(r) => \A g \in Gains : gain'[g] # gain[g] => g = Relative[r.name]
         /\ Equals(r) /\ IsStep(r) => gain' = Effect(gain, r)
<1>1. Len(inputString) \in Nat \ {0} /\ inputString[1].part = "name" /\ inputString[1].line = r
  BY DEF TypeOK
<1>2. ASSUME NEW q \in Requests, Equals(q) PROVE q = r
  BY <1>1, <1>2 DEF Equals, Pieces
<1>3. ASSUME NEW name \in Gains PROVE Mentions(name) <=> name = r.name
  <2>1. CASE name = r.name
    <3>1. 1 \in 1 .. Len(inputString) /\ inputString[1].line.name \in {name}
      BY <1>1, <2>1
    <3> QED BY <1>1, <2>1, <3>1 DEF Mentions
  <2>2. ASSUME Mentions(name) PROVE name = r.name
    <3>1. PICK j \in 1 .. Len(inputString) :
            /\ inputString[j].part = "name"
            /\ inputString[j].line.name
                 \in {name} \cup (IF name = "p" THEN {"Server ip"} ELSE {})
      BY <2>2 DEF Mentions
    <3>2. Log.name = "log"
      BY DEF Log
    <3>3. CASE j = 1
      BY <1>1, <3>1, <3>3, RequestKinds
    <3>4. CASE j # 1
      <4>1. j \in 2 .. Len(inputString)
        BY <1>1, <3>4
      <4>2. inputString[j].line = Log
        BY <3>1, <4>1
      <4> QED BY <3>1, <3>2, <4>2, AbsoluteNames
    <3> QED BY <3>3, <3>4
  <2> QED BY <2>1, <2>2
<1>4. \/ StepGain(r)
      \/ SetGain /\ (Equals(r) => ~IsStep(r))
      \/ NoMention /\ gain' = gain /\ (Equals(r) => ~IsStep(r))
  <2>1. (\E q \in Requests : StepGain(q)) => StepGain(r)
    BY <1>2 DEF StepGain
  <2>2. PrintGains => NoMention /\ gain' = gain /\ (Equals(r) => ~IsStep(r))
    BY <1>2, RequestKinds DEF PrintGains
  <2> QED BY <2>1, <2>2 DEF NanoLoop, SetGain, Ignore, NoStep
<1>5. CASE StepGain(r)
  <2>1. IsStep(r) /\ gain' = [gain EXCEPT ![Relative[r.name]] = @ + r.value]
    <3>1. IsStep(r) /\ ~IsNumber(r) /\ gain' = Effect(gain, r)
      BY <1>5, RequestKinds DEF StepGain
    <3>2. Effect(gain, r) = [gain EXCEPT ![Relative[r.name]] = @ + r.value]
      BY <3>1 DEF Effect
    <3> QED BY <3>1, <3>2
  <2> QED BY <1>5, <2>1, RequestKinds DEF StepGain, TypeOK
<1>6. CASE SetGain /\ (Equals(r) => ~IsStep(r))
  <2>1. PICK k \in 1 .. 6 :
          Mentions(Absolute[k]) /\ gain' = [gain EXCEPT ![Absolute[k]] = Number(Absolute[k])]
    BY <1>6, AbsoluteNames DEF SetGain, FirstMention
  <2>2. Absolute[k] = r.name /\ r.name \in Gains
    BY <1>3, <2>1, AbsoluteNames
  <2>3. gain' = [gain EXCEPT ![r.name] = Number(r.name)]
    BY <2>1, <2>2
  <2>4. IsNumber(r) => Number(r.name) = r.value
    BY <1>1 DEF Number
  <2>5. IsStep(r) => r.name = Relative[r.name]
    BY <2>2, RelativeOfGain, RequestKinds
  <2>6. ~IsQuery(r)
    BY <2>2, RequestKinds, AbsoluteNames
  <2> QED BY <1>6, <2>3, <2>4, <2>5, <2>6 DEF TypeOK
<1>7. CASE NoMention /\ gain' = gain /\ (Equals(r) => ~IsStep(r))
  <2>1. ~IsNumber(r)
    BY <1>3, <1>7, RequestKinds DEF NoMention
  <2> QED BY <1>7, <2>1
<1> QED BY <1>4, <1>5, <1>6, <1>7

--------------------------------------------------------------------------------
(* A user who waits                                                             *)

LEMMA EndStep == TypeOK /\ EndInv /\ [Next]_vars => EndInv'
<1> SUFFICES ASSUME TypeOK, EndInv, [Next]_vars PROVE EndInv'
  OBVIOUS
<1>1. CASE UNCHANGED <<inputString, stringComplete>>
  BY <1>1 DEF EndInv
<1>2. CASE ~stringComplete'
  BY <1>2 DEF EndInv
<1>3. ASSUME NEW n \in 1 .. Len(toNano),
             inputString' = inputString \o SubSeq(toNano, 1, n),
             stringComplete' = (stringComplete \/ \E i \in 1 .. n : toNano[i].part = "end")
      PROVE  EndInv'
  <2> DEFINE new == SubSeq(toNano, 1, n)
  <2>1. new \in Seq(Piece) /\ Len(new) = n /\ \A i \in 1 .. n : new[i] = toNano[i]
    BY Split, SubSeqProperties DEF TypeOK
  <2>2. /\ Len(inputString') = Len(inputString) + Len(new)
        /\ \A j \in 1 .. Len(inputString) : inputString'[j] = inputString[j]
        /\ \A j \in 1 .. Len(new) : inputString'[Len(inputString) + j] = new[j]
    BY <1>3, <2>1, Joined DEF TypeOK
  <2>3. Len(inputString) \in Nat /\ n \in Nat
    BY DEF TypeOK
  <2> HIDE DEF new
  <2>4. CASE stringComplete
    <3>1. PICK j \in 1 .. Len(inputString) : inputString[j].part = "end"
      BY <2>4 DEF EndInv
    <3> QED BY <2>1, <2>2, <2>3, <3>1 DEF EndInv
  <2>5. CASE \E i \in 1 .. n : toNano[i].part = "end"
    <3>1. PICK i \in 1 .. n : toNano[i].part = "end"
      BY <2>5
    <3>2. /\ Len(inputString) + i \in 1 .. Len(inputString')
          /\ inputString'[Len(inputString) + i].part = "end"
      BY <2>1, <2>2, <2>3, <3>1
    <3> QED BY <3>2 DEF EndInv
  <2>6. CASE ~stringComplete'
    BY <2>6 DEF EndInv
  <2> QED BY <1>3, <2>4, <2>5, <2>6
<1>4. CASE NanoSerialEvent
  BY <1>1, <1>3, <1>4 DEF NanoSerialEvent
<1>5. CASE NanoLoop
  BY <1>1, <1>2, <1>5 DEF NanoLoop, Clear
<1>6. CASE EspSerialEvent \/ UNCHANGED vars \/ \E r \in Requests : HandleTuning(r)
  BY <1>1, <1>6 DEF EspSerialEvent, HandleTuning, vars, nano
<1> QED BY <1>4, <1>5, <1>6 DEF Next, Nano

\* Of one or two, none or one is left, and of four two at most when two are gone.
LEMMA FewerLeft ==
  ASSUME NEW n \in Nat, NEW gone \in Nat \ {0}, gone <= n
  PROVE  /\ n \in {1, 2} => n - gone \in {0, 1}
         /\ n = 4 /\ gone # 1 => n - gone \in {0, 1, 2}
OBVIOUS

\* One pass of loop() over a complete string, while a user waits.
LEMMA CalmLoop ==
  ASSUME TypeOK, EndInv, CalmInv, link.pace = "calm", NanoLoop, stringComplete
  PROVE  CalmInv' /\ OwnGain
<1> DEFINE m == Len(inputString)
<1>1. PICK e \in 1 .. m : inputString[e].part = "end"
  BY DEF EndInv
<1>2. /\ m \in Nat \ {0} /\ inputString # <<>> /\ m <= Len(Bytes) /\ Len(Bytes) \in Nat
      /\ \A j \in 1 .. m : inputString[j] = Bytes[j]
  BY <1>1, BytesParts DEF TypeOK
<1>3. /\ Len(Bytes') = Len(Bytes) - m
      /\ \A j \in 1 .. Len(Bytes') : Bytes'[j] = Bytes[m + j]
      /\ last' = last /\ link' = link
  BY BytesCleared DEF NanoLoop
<1> HIDE DEF m
<1>4. CASE last = Log
  <2>1. \A j \in 1 .. Len(Bytes) : Bytes[j].line \in {Log, Server}
    BY <1>4 DEF CalmInv
  <2>2. link.boot
    <3>1. Bytes # <<>>
      BY <1>2
    <3> QED BY <1>4, <3>1 DEF CalmInv
  <2>3. \A j \in 1 .. m : inputString[j].line \in {Log, Server}
    BY <1>2, <2>1
  <2>4. \A g \in Gains : gain'[g] # gain[g] => g = "p"
    BY <1>2, <2>3, TextHandled DEF m
  <2>5. \A j \in 1 .. Len(Bytes') : Bytes'[j].line \in {Log, Server}
    <3>1. ASSUME NEW j \in 1 .. Len(Bytes') PROVE m + j \in 1 .. Len(Bytes)
      BY <1>2, <1>3
    <3> QED BY <1>3, <2>1, <3>1
  <2> QED BY <1>3, <1>4, <2>2, <2>4, <2>5 DEF CalmInv, OwnGain
<1>5. CASE last # Log
  <2>1. last \in Requests /\ last \in Lines /\ Log \in Lines
    BY <1>5 DEF TypeOK, Lines
  <2>2. /\ Len(Bytes) \in {0, 1, 2, 4}
        /\ \A j \in 1 .. Len(Bytes) : Bytes[j] = LastPieces[4 - Len(Bytes) + j]
        /\ Len(Bytes) < 4 /\ IsNumber(last) => gain[last.name] = last.value
    BY <1>5 DEF CalmInv
  <2>3. /\ LastPieces[1] = [line |-> last, part |-> "name"]
        /\ LastPieces[2] = [line |-> last, part |-> "end"]
        /\ LastPieces[3] = [line |-> Log, part |-> "name"]
        /\ LastPieces[4] = [line |-> Log, part |-> "end"]
    BY <2>1, PiecesOf DEF LastPieces
  <2>4. LastPieces' = LastPieces
    BY <1>3 DEF LastPieces
  <2>5. \A j \in 1 .. Len(Bytes') : Bytes'[j] = LastPieces[4 - Len(Bytes') + j]
    <3>1. ASSUME NEW j \in 1 .. Len(Bytes')
          PROVE  /\ m + j \in 1 .. Len(Bytes)
                 /\ 4 - Len(Bytes) + (m + j) = 4 - Len(Bytes') + j
      BY <1>2, <1>3
    <3> QED BY <1>3, <2>2, <3>1
  <2>6. CASE Len(Bytes) = 4
    <3>1. inputString[1] = [line |-> last, part |-> "name"]
      BY <1>2, <2>2, <2>3, <2>6
    <3>2. m >= 2
      <4>1. e # 1
        BY <1>1, <3>1
      <4> QED BY <1>1, <1>2, <4>1 DEF m
    <3>3. \A j \in 2 .. m : inputString[j].part = "end" \/ inputString[j].line = Log
      <4>1. ASSUME NEW j \in 2 .. m
            PROVE  inputString[j].part = "end" \/ inputString[j].line = Log
        <5>1. j \in {2, 3, 4} /\ inputString[j] = LastPieces[j]
          BY <1>2, <2>2, <2>6
        <5> QED BY <2>3, <5>1
      <4> QED BY <4>1
    <3>4. /\ IsNumber(last) => gain' = [gain EXCEPT ![last.name] = last.value]
          /\ IsQuery(last) => gain' = gain
          /\ IsStep(last) => \A g \in Gains : gain'[g] # gain[g] => g = Relative[last.name]
      BY <1>2, <2>1, <3>1, <3>3, RequestHandled DEF m
    <3>5. Len(Bytes') \in {0, 1, 2}
      <4>1. m # 1
        BY <1>2, <3>2
      <4>2. Len(Bytes) - m \in {0, 1, 2}
        BY <1>2, <2>6, <4>1, FewerLeft
      <4> QED BY <1>3, <4>2
    <3>6. IsNumber(last) =>
            /\ gain'[last.name] = last.value
            /\ \A g \in Gains : gain'[g] # gain[g] => g = last.name
      BY <2>1, <3>4, RequestKinds DEF TypeOK
    <3>7. OwnGain
      BY <2>1, <3>4, <3>6, RequestKinds DEF OwnGain
    <3> QED BY <1>3, <1>5, <2>4, <2>5, <3>5, <3>6, <3>7 DEF CalmInv
  <2>7. CASE Len(Bytes) \in {1, 2}
    <3>1. \A j \in 1 .. m : inputString[j].line = Log
      <4>1. ASSUME NEW j \in 1 .. m PROVE inputString[j].line = Log
        <5>1. j \in 1 .. Len(Bytes) /\ 4 - Len(Bytes) + j \in {3, 4}
          <6>1. Len(Bytes) = 1 \/ Len(Bytes) = 2
            BY <2>7
          <6>2. j \in Nat \ {0} /\ j <= Len(Bytes)
            BY <1>2
          <6>3. Len(Bytes) = 1 => 4 - Len(Bytes) + j = 4
            BY <6>2
          <6>4. Len(Bytes) = 2 => 4 - Len(Bytes) + j = 3 \/ 4 - Len(Bytes) + j = 4
            BY <6>2
          <6>5. 4 - Len(Bytes) + j \in {3, 4}
            BY <6>1, <6>3, <6>4
          <6> QED BY <1>2, <6>2, <6>5
        <5>2. inputString[j] \in {LastPieces[3], LastPieces[4]}
          BY <1>2, <2>2, <5>1
        <5> QED BY <2>3, <5>2
      <4> QED BY <4>1
    <3>2. gain' = gain
      BY <1>2, <3>1, TextHandled DEF m
    <3>3. Len(Bytes') \in {0, 1}
      <4>1. Len(Bytes) \in {1, 2}
        BY <2>7
      <4>2. Len(Bytes) - m \in {0, 1}
        BY <1>2, <4>1, FewerLeft
      <4> QED BY <1>3, <4>2
    <3> QED BY <1>3, <1>5, <2>2, <2>4, <2>5, <2>7, <3>2, <3>3 DEF CalmInv, OwnGain
  <2> QED BY <1>2, <2>2, <2>6, <2>7
<1> QED BY <1>4, <1>5

LEMMA CalmStep == TypeOK /\ EndInv /\ CalmInv /\ [Next]_vars => CalmInv' /\ OwnGain
<1> SUFFICES ASSUME TypeOK, EndInv, CalmInv, [Next]_vars PROVE CalmInv' /\ OwnGain
  OBVIOUS
<1>1. link' = link
  BY DEF Next, Nano, NanoLoop, NanoSerialEvent, EspSerialEvent, HandleTuning, vars
<1>2. CASE Bytes' = Bytes /\ UNCHANGED <<gain, last>>
  BY <1>1, <1>2 DEF CalmInv, OwnGain, LastPieces
<1>3. ASSUME NEW r \in Requests, HandleTuning(r), link.pace = "calm"
      PROVE  CalmInv' /\ OwnGain
  <2>1. last' = r /\ gain' = gain /\ Quiet
    BY <1>3 DEF HandleTuning, nano
  <2>2. Len(Bytes) = 0
    BY <2>1, BytesParts DEF Quiet, TypeOK
  <2>3. LastPieces' = Pieces(r) \o Pieces(Log)
    BY <2>1 DEF LastPieces
  <2>4. Len(Bytes') = 4 /\ \A j \in 1 .. 4 : Bytes'[j] = LastPieces'[j]
    <3>1. /\ Len(Bytes') = Len(Bytes) + 4
          /\ \A j \in 1 .. 4 : Bytes'[Len(Bytes) + j] = LastPieces'[j]
      BY <1>3, <2>3, BytesSent
    <3> QED BY <2>2, <3>1
  <2>5. r # Log
    BY RequestKinds
  <2> QED BY <1>1, <2>1, <2>4, <2>5 DEF CalmInv, OwnGain
<1>4. CASE link.pace # "calm"
  BY <1>1, <1>4 DEF CalmInv, OwnGain
<1>5. CASE NanoLoop
  <2>1. CASE ~stringComplete
    <3>1. UNCHANGED <<inputString, toNano, gain, last>>
      BY <1>5, <2>1 DEF NanoLoop
    <3> QED BY <1>2, <3>1 DEF Bytes
  <2> QED BY <1>4, <1>5, <2>1, CalmLoop
<1>6. CASE NanoSerialEvent
  BY <1>2, <1>6, BytesRead DEF NanoSerialEvent
<1>7. CASE EspSerialEvent \/ UNCHANGED vars
  BY <1>2, <1>7 DEF EspSerialEvent, vars, nano, Bytes
<1> QED BY <1>3, <1>4, <1>5, <1>6, <1>7 DEF Next, Nano

LEMMA CalmInit == Init => EndInv /\ CalmInv
<1> SUFFICES ASSUME Init PROVE EndInv /\ CalmInv
  OBVIOUS
<1>1. EndInv
  BY DEF Init, EndInv
<1>2. last = Log /\ inputString = <<>> /\ inputString \in Seq(Piece)
  BY DEF Init
<1>3. CASE ~link.boot
  <2>1. Bytes = <<>>
    BY <1>2, <1>3 DEF Init, Bytes
  <2> QED BY <1>1, <1>2, <2>1 DEF CalmInv
<1>4. CASE link.boot
  <2>1. toNano = Pieces(Log) \o Pieces(Server) \o Pieces(Log)
    BY <1>4 DEF Init
  <2>2. Bytes = toNano
    BY <1>2, <2>1, TypeInit, ConcatEmptySeq DEF Bytes, TypeOK
  <2> DEFINE Text == [line : {Log, Server}, part : {"name", "end"}]
  <2>3. Pieces(Log) \in Seq(Text) /\ Pieces(Server) \in Seq(Text)
    BY DEF Pieces
  <2>4. \A j \in 1 .. Len(toNano) : toNano[j].line \in {Log, Server}
    <3>1. toNano \in Seq(Text)
      <4> HIDE DEF Text
      <4> QED BY <2>1, <2>3
    <3>2. \A j \in 1 .. Len(toNano) : toNano[j] \in Text
      <4> HIDE DEF Text
      <4> QED BY <3>1, ElementOfSeq
    <3>3. \A p \in Text : p.line \in {Log, Server}
      OBVIOUS
    <3> QED BY <3>2, <3>3
  <2> QED BY <1>1, <1>2, <1>4, <2>2, <2>4 DEF CalmInv
<1> QED BY <1>3, <1>4

LEMMA CalmInvariant == Spec => [](TypeOK /\ EndInv /\ CalmInv)
<1>1. Init => TypeOK /\ StringInv /\ EndInv /\ CalmInv
  BY TypeInit, CalmInit
<1>2. TypeOK /\ StringInv /\ EndInv /\ CalmInv /\ [Next]_vars
        => (TypeOK /\ StringInv /\ EndInv /\ CalmInv)'
  BY TypeStep, EndStep, CalmStep
<1> QED BY <1>1, <1>2, PTL DEF Spec

\* A user who waits gets every absolute value through, however its line was cut, and
\* although it may be merged with the log line after it (nanoCode.ino:192-214).
THEOREM AbsoluteHolds == Spec => []AbsoluteApplied
<1>1. TypeOK /\ CalmInv => AbsoluteApplied
  <2> SUFFICES ASSUME TypeOK, CalmInv, link.pace = "calm", Quiet, IsNumber(last)
               PROVE  gain[last.name] = last.value
    BY DEF AbsoluteApplied
  <2>1. Len(Bytes) = 0
    BY BytesParts DEF Quiet, TypeOK
  <2>2. last # Log
    BY DEF IsNumber, Log
  <2> QED BY <2>1, <2>2 DEF CalmInv
<1> QED BY <1>1, CalmInvariant, PTL

\* No request of a user who waits changes another gain, whatever is merged; only the
\* proportional gain is lost when the ESP8266 boots (nanoCode.ino:143-214).
THEOREM OwnGainHolds == Spec => OnlyItsOwnGain
<1>1. TypeOK /\ EndInv /\ CalmInv /\ [Next]_vars => [OwnGain]_vars
  BY CalmStep
<1> QED BY <1>1, CalmInvariant, PTL DEF Spec, OnlyItsOwnGain

--------------------------------------------------------------------------------
(* Whole lines                                                                  *)

LEMMA Appended ==
  ASSUME NEW S, NEW s \in Seq(S), NEW e \in S
  PROVE  /\ Append(s, e) \in Seq(S) /\ Len(Append(s, e)) = Len(s) + 1
         /\ \A k \in 1 .. Len(s) + 1 : Append(s, e)[k] = IF k = Len(s) + 1 THEN e ELSE s[k]
OBVIOUS

LEMMA Quarters ==
  ASSUME NEW n \in Nat, NEW front \in {0, 2}
  PROVE  (4 * n + front) \div 4 = n /\ (4 * n + front) % 4 = front
OBVIOUS

\* The k-th four of 4 * n positions.
LEMMA Quadruple ==
  ASSUME NEW n \in Nat, NEW k \in 1 .. n
  PROVE  /\ 4 * k - 4 \in Int /\ 4 * k - 4 + 1 \in 1 .. 4 * n /\ 4 * k - 4 + 2 \in 1 .. 4 * n
         /\ 4 * k - 4 + 3 \in 1 .. 4 * n /\ 4 * k - 4 + 4 \in 1 .. 4 * n
OBVIOUS

\* The requests among well-formed pieces.
LEMMA LinedRequests ==
  ASSUME NEW s \in Seq(Piece), NEW n \in Nat, NEW front \in {0, 2}, Lined(s, n, front)
  PROVE  /\ RequestsIn(s) = [k \in 1 .. n |-> s[front + 4 * k - 3].line]
         /\ RequestsIn(s) \in Seq(Requests) /\ Len(RequestsIn(s)) = n
         /\ \A k \in 1 .. n : RequestsIn(s)[k] = s[front + 4 * k - 3].line
<1>1. Len(s) \div 4 = n /\ Len(s) % 4 = front
  BY Quarters DEF Lined
<1>2. RequestsIn(s) = [k \in 1 .. n |-> s[front + 4 * k - 3].line]
  BY <1>1 DEF RequestsIn
<1>3. ASSUME NEW k \in 1 .. n PROVE s[front + 4 * k - 3].line \in Requests
  <2>1. s[(front + 4 * k - 4) + 1].line \in Requests
    BY DEF Lined, RequestAt
  <2>2. (front + 4 * k - 4) + 1 = front + 4 * k - 3
    OBVIOUS
  <2> QED BY <2>1, <2>2
<1> QED BY <1>2, <1>3

\* A request and its log line at the end.
LEMMA LinedSent ==
  ASSUME NEW s \in Seq(Piece), NEW n \in Nat, NEW front \in {0, 2}, Lined(s, n, front),
         NEW t \in Seq(Piece), Len(t) = Len(s) + 4,
         \A j \in 1 .. Len(s) : t[j] = s[j],
         NEW r \in Requests,
         t[Len(s) + 1] = [line |-> r, part |-> "name"],
         t[Len(s) + 2] = [line |-> r, part |-> "end"],
         t[Len(s) + 3] = [line |-> Log, part |-> "name"],
         t[Len(s) + 4] = [line |-> Log, part |-> "end"]
  PROVE  Lined(t, n + 1, front) /\ RequestsIn(t) = Append(RequestsIn(s), r)
<1>1. Len(s) = 4 * n + front
  BY DEF Lined
<1>2. Len(t) = 4 * (n + 1) + front
  BY <1>1
<1>3. ASSUME NEW k \in 1 .. n + 1 PROVE RequestAt(t, front + 4 * k - 4)
  <2>1. CASE k \in 1 .. n
    <3> DEFINE start == front + 4 * k - 4
    <3>1. RequestAt(s, start)
      BY <2>1 DEF Lined
    <3>2. /\ start + 1 \in 1 .. Len(s) /\ start + 2 \in 1 .. Len(s)
          /\ start + 3 \in 1 .. Len(s) /\ start + 4 \in 1 .. Len(s)
      BY <1>1, <2>1
    <3> HIDE DEF start
    <3>3. RequestAt(t, start)
      BY <3>1, <3>2 DEF RequestAt
    <3> QED BY <3>3 DEF start
  <2>2. CASE k = n + 1
    <3>1. front + 4 * k - 4 = Len(s)
      BY <1>1, <2>2
    <3>2. RequestAt(t, Len(s))
      BY DEF RequestAt
    <3> QED BY <3>1, <3>2
  <2> QED BY <2>1, <2>2
<1>4. Lined(t, n + 1, front)
  <2>1. front = 2 => 1 \in 1 .. Len(s) /\ 2 \in 1 .. Len(s)
    BY <1>1
  <2> QED BY <1>2, <1>3, <2>1 DEF Lined
<1>5. RequestsIn(t) = Append(RequestsIn(s), r)
  <2>1. /\ RequestsIn(t) \in Seq(Requests) /\ Len(RequestsIn(t)) = n + 1
        /\ \A k \in 1 .. n + 1 : RequestsIn(t)[k] = t[front + 4 * k - 3].line
    <3>1. n + 1 \in Nat
      OBVIOUS
    <3> QED BY <1>4, <3>1, LinedRequests
  <2>2. /\ RequestsIn(s) \in Seq(Requests) /\ Len(RequestsIn(s)) = n
        /\ \A k \in 1 .. n : RequestsIn(s)[k] = s[front + 4 * k - 3].line
    BY LinedRequests
  <2>3. ASSUME NEW k \in 1 .. n PROVE RequestsIn(t)[k] = RequestsIn(s)[k]
    <3>1. front + 4 * k - 3 \in 1 .. Len(s)
      BY <1>1
    <3>2. k \in 1 .. n + 1
      OBVIOUS
    <3> QED BY <2>1, <2>2, <3>1, <3>2
  <2>4. RequestsIn(t)[n + 1] = r
    <3>1. front + 4 * (n + 1) - 3 = Len(s) + 1 /\ n + 1 \in 1 .. n + 1
      BY <1>1
    <3>2. RequestsIn(t)[n + 1] = t[front + 4 * (n + 1) - 3].line
      BY <2>1, <3>1
    <3> QED BY <3>1, <3>2
  <2> DEFINE u == RequestsIn(t)
             v == RequestsIn(s)
  <2> HIDE DEF u, v
  <2>5. Append(v, r) \in Seq(Requests) /\ Len(Append(v, r)) = n + 1
        /\ \A k \in 1 .. n + 1 : Append(v, r)[k] = IF k = n + 1 THEN r ELSE v[k]
    BY <2>2, Appended DEF v
  <2>6. u \in Seq(Requests) /\ Len(u) = n + 1 /\ u[n + 1] = r /\ \A k \in 1 .. n : u[k] = v[k]
    BY <2>1, <2>3, <2>4 DEF u, v
  <2>7. \A k \in 1 .. Len(u) : u[k] = Append(v, r)[k]
    BY <2>5, <2>6
  <2>8. u = Append(v, r)
    BY <2>5, <2>6, <2>7, SeqEqual
  <2> QED BY <2>8 DEF u, v
<1> QED BY <1>4, <1>5

\* The log line in front is gone.
LEMMA LinedLog ==
  ASSUME NEW s \in Seq(Piece), NEW n \in Nat, Lined(s, n, 2),
         NEW t \in Seq(Piece), Len(t) = Len(s) - 2,
         \A j \in 1 .. Len(t) : t[j] = s[2 + j]
  PROVE  Lined(t, n, 0) /\ RequestsIn(t) = RequestsIn(s)
<1>1. Len(s) = 4 * n + 2 /\ Len(t) = 4 * n + 0
  BY DEF Lined
<1>2. ASSUME NEW k \in 1 .. n PROVE RequestAt(t, 0 + 4 * k - 4)
  <2> DEFINE start == 4 * k - 4
  <2>1. RequestAt(s, 2 + start)
    <3>1. 2 + 4 * k - 4 = 2 + start
      OBVIOUS
    <3>2. RequestAt(s, 2 + 4 * k - 4)
      BY DEF Lined
    <3> QED BY <3>1, <3>2
  <2>2. /\ start + 1 \in 1 .. Len(t) /\ start + 2 \in 1 .. Len(t)
        /\ start + 3 \in 1 .. Len(t) /\ start + 4 \in 1 .. Len(t) /\ start \in Int
    <3>1. Len(t) = 4 * n
      BY <1>1
    <3> QED BY <3>1, Quadruple
  <2>3. 0 + 4 * k - 4 = start
    OBVIOUS
  <2> HIDE DEF start
  <2>4. /\ t[start + 1] = s[(2 + start) + 1] /\ t[start + 2] = s[(2 + start) + 2]
        /\ t[start + 3] = s[(2 + start) + 3] /\ t[start + 4] = s[(2 + start) + 4]
    <3>1. /\ 2 + (start + 1) = (2 + start) + 1 /\ 2 + (start + 2) = (2 + start) + 2
          /\ 2 + (start + 3) = (2 + start) + 3 /\ 2 + (start + 4) = (2 + start) + 4
      BY <2>2
    <3>2. /\ t[start + 1] = s[2 + (start + 1)] /\ t[start + 2] = s[2 + (start + 2)]
          /\ t[start + 3] = s[2 + (start + 3)] /\ t[start + 4] = s[2 + (start + 4)]
      BY <2>2
    <3> QED BY <3>1, <3>2
  <2>5. RequestAt(t, start)
    BY <2>1, <2>4 DEF RequestAt
  <2> QED BY <2>3, <2>5
<1>3. Lined(t, n, 0)
  BY <1>1, <1>2 DEF Lined
<1>4. /\ RequestsIn(s) = [k \in 1 .. n |-> s[2 + 4 * k - 3].line]
      /\ RequestsIn(t) = [k \in 1 .. n |-> t[0 + 4 * k - 3].line]
  BY <1>3, LinedRequests
<1>5. ASSUME NEW k \in 1 .. n PROVE t[0 + 4 * k - 3] = s[2 + 4 * k - 3]
  <2>1. 0 + 4 * k - 3 \in 1 .. Len(t) /\ 2 + (0 + 4 * k - 3) = 2 + 4 * k - 3
    BY <1>1
  <2> QED BY <2>1
<1> QED BY <1>3, <1>4, <1>5

\* The request in front is gone, and its log line is left.
LEMMA LinedRequest ==
  ASSUME NEW s \in Seq(Piece), NEW n \in Nat \ {0}, Lined(s, n, 0),
         NEW t \in Seq(Piece), Len(t) = Len(s) - 2,
         \A j \in 1 .. Len(t) : t[j] = s[2 + j]
  PROVE  /\ Lined(t, n - 1, 2) /\ RequestsIn(t) = Tail(RequestsIn(s))
         /\ RequestsIn(s) # <<>> /\ Head(RequestsIn(s)) = s[1].line
<1>1. Len(s) = 4 * n + 0 /\ Len(t) = 4 * (n - 1) + 2
  BY DEF Lined
<1>2. ASSUME NEW k \in 1 .. n - 1 PROVE RequestAt(t, 2 + 4 * k - 4)
  <2> DEFINE start == 4 * k - 2
  <2>1. RequestAt(s, 2 + start)
    <3>1. 0 + 4 * (k + 1) - 4 = 2 + start /\ k + 1 \in 1 .. n
      OBVIOUS
    <3>2. RequestAt(s, 0 + 4 * (k + 1) - 4)
      BY <3>1 DEF Lined
    <3> QED BY <3>1, <3>2
  <2>2. /\ start + 1 \in 1 .. Len(t) /\ start + 2 \in 1 .. Len(t)
        /\ start + 3 \in 1 .. Len(t) /\ start + 4 \in 1 .. Len(t) /\ start \in Int
    <3>1. Len(t) = 4 * n - 2
      BY <1>1
    <3> QED BY <3>1
  <2>3. 2 + 4 * k - 4 = start
    OBVIOUS
  <2> HIDE DEF start
  <2>4. /\ t[start + 1] = s[(2 + start) + 1] /\ t[start + 2] = s[(2 + start) + 2]
        /\ t[start + 3] = s[(2 + start) + 3] /\ t[start + 4] = s[(2 + start) + 4]
    <3>1. /\ 2 + (start + 1) = (2 + start) + 1 /\ 2 + (start + 2) = (2 + start) + 2
          /\ 2 + (start + 3) = (2 + start) + 3 /\ 2 + (start + 4) = (2 + start) + 4
      BY <2>2
    <3>2. /\ t[start + 1] = s[2 + (start + 1)] /\ t[start + 2] = s[2 + (start + 2)]
          /\ t[start + 3] = s[2 + (start + 3)] /\ t[start + 4] = s[2 + (start + 4)]
      BY <2>2
    <3> QED BY <3>1, <3>2
  <2>5. RequestAt(t, start)
    BY <2>1, <2>4 DEF RequestAt
  <2> QED BY <2>3, <2>5
<1>3. t[1] = [line |-> Log, part |-> "name"] /\ t[2] = [line |-> Log, part |-> "end"]
  <2>1. RequestAt(s, 0 + 4 * 1 - 4)
    BY DEF Lined
  <2>2. 0 + 4 * 1 - 4 = 0
    OBVIOUS
  <2>3. RequestAt(s, 0)
    BY <2>1, <2>2
  <2>4. s[3] = [line |-> Log, part |-> "name"] /\ s[4] = [line |-> Log, part |-> "end"]
    BY <2>3 DEF RequestAt
  <2>5. 1 \in 1 .. Len(t) /\ 2 \in 1 .. Len(t) /\ 2 + 1 = 3 /\ 2 + 2 = 4
    BY <1>1
  <2>6. t[1] = s[2 + 1] /\ t[2] = s[2 + 2]
    BY <2>5
  <2> QED BY <2>4, <2>6
<1>4. Lined(t, n - 1, 2)
  BY <1>1, <1>2, <1>3 DEF Lined
<1>5. /\ RequestsIn(s) \in Seq(Requests) /\ Len(RequestsIn(s)) = n
      /\ \A k \in 1 .. n : RequestsIn(s)[k] = s[0 + 4 * k - 3].line
  BY LinedRequests
<1>6. /\ RequestsIn(t) \in Seq(Requests) /\ Len(RequestsIn(t)) = n - 1
      /\ \A k \in 1 .. n - 1 : RequestsIn(t)[k] = t[2 + 4 * k - 3].line
  BY <1>4, LinedRequests
<1>7. ASSUME NEW k \in 1 .. n - 1 PROVE RequestsIn(t)[k] = RequestsIn(s)[k + 1]
  <2>1. /\ 2 + 4 * k - 3 \in 1 .. Len(t) /\ 2 + (2 + 4 * k - 3) = 0 + 4 * (k + 1) - 3
        /\ k + 1 \in 1 .. n
    BY <1>1
  <2>2. t[2 + 4 * k - 3] = s[0 + 4 * (k + 1) - 3]
    BY <2>1
  <2> QED BY <1>5, <1>6, <2>1, <2>2
<1>8. RequestsIn(s)[1] = s[1].line
  <2>1. 1 \in 1 .. n /\ 0 + 4 * 1 - 3 = 1
    OBVIOUS
  <2> QED BY <1>5, <2>1
<1> DEFINE u == RequestsIn(t)
           v == RequestsIn(s)
<1> HIDE DEF u, v
<1>9. v # <<>> /\ Head(v) = v[1]
  BY <1>5 DEF v
<1>10. Tail(v) \in Seq(Requests) /\ Len(Tail(v)) = n - 1
       /\ \A k \in 1 .. n - 1 : Tail(v)[k] = v[k + 1]
  BY <1>5, <1>9, HeadTailProperties DEF v
<1>11. u = Tail(v)
  BY <1>6, <1>7, <1>10, SeqEqual DEF u, v
<1> QED BY <1>4, <1>8, <1>9, <1>11 DEF u, v

--------------------------------------------------------------------------------
(* The tuning page                                                              *)

\* What a step does to the page: it sends a request, carries out the first one that is
\* under way, or changes nothing.
PageStep ==
  \/ \E r \in Requests : gain' = gain /\ Underway' = Append(Underway, r)
  \/ /\ Underway # <<>>
     /\ gain' = Effect(gain, Head(Underway))
     /\ Underway' = Tail(Underway)
  \/ UNCHANGED <<gain, Underway>>

\* One pass of loop() over a line.
LEMMA LineLoop ==
  ASSUME TypeOK, TypeOK', StringInv, LineInv, Promised, NanoLoop, stringComplete
  PROVE  LineInv' /\ PageStep
<1>1. PICK n \in 0 .. Len(Bytes), front \in {0, 2} : Lined(Bytes, n, front)
  BY DEF LineInv
<1>2. Len(inputString) = 2 /\ inputString # <<>>
  <2>1. inputString # <<>>
    BY DEF StringInv
  <2>2. Len(inputString) # 0
    BY <2>1 DEF TypeOK
  <2> QED BY <2>1, <2>2 DEF LineInv
<1>3. /\ Bytes \in Seq(Piece) /\ Bytes' \in Seq(Piece) /\ Len(Bytes) \in Nat
      /\ Len(Bytes') \in Nat
  <2>1. Bytes \in Seq(Piece) /\ Bytes' = toNano /\ toNano \in Seq(Piece)
    BY BytesParts, BytesCleared DEF TypeOK
  <2> QED BY <2>1
<1>4. /\ Len(Bytes') = Len(Bytes) - 2
      /\ \A j \in 1 .. Len(Bytes') : Bytes'[j] = Bytes[2 + j]
  BY <1>2, BytesCleared
<1>5. inputString[1] = Bytes[1] /\ inputString[2] = Bytes[2]
  <2>1. \A j \in 1 .. Len(inputString) : Bytes[j] = inputString[j]
    BY BytesParts DEF TypeOK
  <2>2. 1 \in 1 .. Len(inputString) /\ 2 \in 1 .. Len(inputString)
    BY <1>2
  <2> QED BY <2>1, <2>2
<1>6. inputString' = <<>> /\ link' = link
  BY BytesCleared DEF NanoLoop
<1>7. ASSUME NEW k \in Nat, NEW f \in {0, 2}, Lined(Bytes', k, f) PROVE LineInv'
  <2>1. Len(Bytes') = 4 * k + f
    BY <1>7 DEF Lined
  <2>2. k \in 0 .. Len(Bytes')
    BY <1>3, <2>1
  <2>3. Len(inputString') = 0
    BY <1>6
  <2> QED BY <1>6, <1>7, <2>2, <2>3 DEF LineInv
<1>8. CASE front = 2
  <2>1. Lined(Bytes', n, 0) /\ RequestsIn(Bytes') = RequestsIn(Bytes)
    BY <1>1, <1>3, <1>4, <1>8, LinedLog
  <2>2. \A j \in 1 .. Len(inputString) : inputString[j].line = Log
    <3>1. Bytes[1].line = Log /\ Bytes[2].line = Log
      BY <1>1, <1>8 DEF Lined
    <3> QED BY <1>2, <1>5, <3>1
  <2>3. gain' = gain
    BY <1>2, <2>2, TextHandled
  <2>4. LineInv'
    BY <1>1, <1>7, <2>1
  <2> QED BY <2>1, <2>3, <2>4 DEF PageStep, Underway
<1>9. CASE front = 0
  <2>1. n \in Nat \ {0}
    <3>1. Len(Bytes) >= 2
      BY <1>3, <1>4
    <3>2. Len(Bytes) = 4 * n
      BY <1>1, <1>9 DEF Lined
    <3> QED BY <3>1, <3>2
  <2>2. /\ Lined(Bytes', n - 1, 2) /\ RequestsIn(Bytes') = Tail(RequestsIn(Bytes))
        /\ RequestsIn(Bytes) # <<>> /\ Head(RequestsIn(Bytes)) = Bytes[1].line
    BY <1>1, <1>3, <1>4, <1>9, <2>1, LinedRequest
  <2> DEFINE r == Bytes[1].line
  <2>3. /\ r \in Requests /\ Bytes[1] = [line |-> r, part |-> "name"]
        /\ Bytes[2] = [line |-> r, part |-> "end"]
    <3>1. 1 \in 1 .. n /\ 0 + 4 * 1 - 4 = 0
      BY <2>1
    <3>2. RequestAt(Bytes, 0 + 4 * 1 - 4)
      BY <1>1, <1>9, <3>1 DEF Lined
    <3>3. RequestAt(Bytes, 0)
      BY <3>1, <3>2
    <3> QED BY <3>3 DEF RequestAt
  <2> HIDE DEF r
  <2>4. inputString[1] = [line |-> r, part |-> "name"]
    BY <1>5, <2>3
  <2>5. \A j \in 2 .. Len(inputString) :
          inputString[j].part = "end" \/ inputString[j].line = Log
    <3>1. inputString[2].part = "end"
      BY <1>5, <2>3
    <3> QED BY <1>2, <3>1
  <2>6. Equals(r)
    <3>1. inputString = Pieces(r)
      <4>1. Pieces(r) \in Seq(Piece) /\ Len(Pieces(r)) = 2
        <5>1. r \in Lines
          BY <2>3 DEF Lines
        <5>2. Len(Pieces(r)) = 2
          BY DEF Pieces
        <5> QED BY <5>1, <5>2, LineTypes
      <4>2. Pieces(r)[1] = inputString[1] /\ Pieces(r)[2] = inputString[2]
        BY <1>5, <2>3 DEF Pieces
      <4>3. \A j \in 1 .. Len(inputString) : inputString[j] = Pieces(r)[j]
        BY <1>2, <4>2
      <4>4. inputString \in Seq(Piece)
        BY DEF TypeOK
      <4> QED BY <1>2, <4>1, <4>3, <4>4, SeqEqual
    <3> QED BY <3>1 DEF Equals
  <2>7. gain' = Effect(gain, r)
    <3>1. /\ IsNumber(r) => gain' = [gain EXCEPT ![r.name] = r.value]
          /\ IsQuery(r) => gain' = gain
          /\ IsStep(r) => gain' = Effect(gain, r)
      BY <1>2, <2>3, <2>4, <2>5, <2>6, RequestHandled
    <3>2. IsNumber(r) => Effect(gain, r) = [gain EXCEPT ![r.name] = r.value]
      BY <2>3, RequestKinds DEF Effect
    <3>3. IsQuery(r) => Effect(gain, r) = gain
      BY <2>3 DEF Effect, IsQuery, IsStep, IsNumber
    <3> QED BY <2>3, <3>1, <3>2, <3>3, RequestKinds
  <2>8. LineInv'
    <3>1. n - 1 \in Nat
      BY <2>1
    <3> QED BY <1>7, <2>2, <3>1
  <2> QED BY <2>2, <2>7, <2>8 DEF PageStep, Underway, r
<1> QED BY <1>1, <1>8, <1>9

\* One line is read between two passes, and it is a whole one.
LEMMA LineRead ==
  ASSUME TypeOK, LineInv, Promised, NanoSerialEvent
  PROVE  LineInv'
<1>1. Bytes' = Bytes /\ link' = link /\ turn' = "loop" /\ turn = "serialEvent"
  BY BytesRead DEF NanoSerialEvent
<1>2. PICK n \in 0 .. Len(Bytes), front \in {0, 2} : Lined(Bytes, n, front)
  BY DEF LineInv
<1>3. inputString = <<>>
  BY <1>1 DEF LineInv
<1>4. CASE inputString' = inputString
  BY <1>1, <1>2, <1>3, <1>4 DEF LineInv, Promised
<1>5. ASSUME NEW m \in 1 .. Len(toNano), Arrived(m),
             inputString' = inputString \o SubSeq(toNano, 1, m),
             stringComplete' = (stringComplete \/ \E i \in 1 .. m : toNano[i].part = "end")
      PROVE  LineInv'
  <2>1. m = 2
    BY <1>5 DEF Arrived, Promised
  <2>2. Bytes = toNano
    BY <1>3, ConcatEmptySeq DEF Bytes, TypeOK
  <2>3. Len(inputString') = 2
    <3>1. SubSeq(toNano, 1, m) \in Seq(Piece) /\ Len(SubSeq(toNano, 1, m)) = m
      BY Split DEF TypeOK
    <3>2. inputString' = SubSeq(toNano, 1, m)
      BY <1>3, <1>5, <3>1, ConcatEmptySeq
    <3> QED BY <2>1, <3>1, <3>2
  <2>4. toNano[2].part = "end"
    <3>1. CASE front = 2
      BY <1>2, <2>2, <3>1 DEF Lined
    <3>2. CASE front = 0
      <4>1. Len(Bytes) = 4 * n /\ Len(Bytes) >= 2
        <5>1. Len(toNano) \in Nat /\ 2 <= Len(toNano)
          BY <2>1 DEF TypeOK
        <5>2. Len(Bytes) = 4 * n
          BY <1>2, <3>2 DEF Lined
        <5> QED BY <2>2, <5>1, <5>2
      <4>2. 1 \in 1 .. n /\ 0 + 4 * 1 - 4 = 0
        BY <4>1
      <4>3. RequestAt(Bytes, 0 + 4 * 1 - 4)
        BY <1>2, <3>2, <4>2 DEF Lined
      <4>4. RequestAt(Bytes, 0)
        BY <4>2, <4>3
      <4> QED BY <2>2, <4>4 DEF RequestAt
    <3> QED BY <3>1, <3>2
  <2>5. stringComplete'
    <3>1. 2 \in 1 .. m
      BY <2>1
    <3>2. \E i \in 1 .. m : toNano[i].part = "end"
      BY <3>1, <2>4
    <3> QED BY <1>5, <3>2
  <2> QED BY <1>1, <1>2, <2>3, <2>5 DEF LineInv, Promised
<1> QED BY <1>4, <1>5 DEF NanoSerialEvent

LEMMA LineStep ==
  TypeOK /\ TypeOK' /\ StringInv /\ LineInv /\ [Next]_vars
    => LineInv' /\ (Promised => PageStep) /\ link' = link
<1> SUFFICES ASSUME TypeOK, TypeOK', StringInv, LineInv, [Next]_vars
             PROVE  LineInv' /\ (Promised => PageStep) /\ link' = link
  OBVIOUS
<1>1. link' = link
  BY DEF Next, Nano, NanoLoop, NanoSerialEvent, EspSerialEvent, HandleTuning, vars
<1>2. CASE ~Promised
  BY <1>1, <1>2 DEF LineInv, Promised
<1>3. ASSUME UNCHANGED <<inputString, toNano, stringComplete, gain>>,
             turn' = turn \/ inputString = <<>>
      PROVE  LineInv' /\ PageStep
  <2>1. Bytes' = Bytes
    BY <1>3 DEF Bytes
  <2> QED BY <1>1, <1>3, <2>1 DEF LineInv, Promised, PageStep, Underway
<1>4. ASSUME NEW r \in Requests, HandleTuning(r), Promised PROVE LineInv' /\ PageStep
  <2>1. gain' = gain /\ UNCHANGED <<inputString, stringComplete, turn>>
    BY <1>4 DEF HandleTuning, nano
  <2>2. PICK n \in 0 .. Len(Bytes), front \in {0, 2} : Lined(Bytes, n, front)
    BY <1>4 DEF LineInv
  <2> DEFINE four == Pieces(r) \o Pieces(Log)
  <2>3. /\ Bytes \in Seq(Piece) /\ four \in Seq(Piece) /\ Bytes' = Bytes \o four
        /\ Len(Bytes') = Len(Bytes) + 4
        /\ \A j \in 1 .. Len(Bytes) : Bytes'[j] = Bytes[j]
        /\ \A j \in 1 .. 4 : Bytes'[Len(Bytes) + j] = four[j]
    BY <1>4, BytesSent
  <2>4. /\ four[1] = [line |-> r, part |-> "name"] /\ four[2] = [line |-> r, part |-> "end"]
        /\ four[3] = [line |-> Log, part |-> "name"]
        /\ four[4] = [line |-> Log, part |-> "end"]
    BY PiecesOf DEF Lines
  <2>5. Bytes' \in Seq(Piece)
    BY <2>3, ConcatProperties
  <2> HIDE DEF four
  <2>6. /\ Bytes'[Len(Bytes) + 1] = four[1] /\ Bytes'[Len(Bytes) + 2] = four[2]
        /\ Bytes'[Len(Bytes) + 3] = four[3] /\ Bytes'[Len(Bytes) + 4] = four[4]
    BY <2>3
  <2>7. Lined(Bytes', n + 1, front) /\ RequestsIn(Bytes') = Append(RequestsIn(Bytes), r)
    <3> DEFINE s == Bytes
               t == Bytes'
    <3>1. s \in Seq(Piece) /\ t \in Seq(Piece) /\ Len(t) = Len(s) + 4
      BY <2>3, <2>5
    <3>2. n \in Nat /\ front \in {0, 2} /\ Lined(s, n, front)
      BY <2>2
    <3>3. /\ t[Len(s) + 1] = [line |-> r, part |-> "name"]
          /\ t[Len(s) + 2] = [line |-> r, part |-> "end"]
          /\ t[Len(s) + 3] = [line |-> Log, part |-> "name"]
          /\ t[Len(s) + 4] = [line |-> Log, part |-> "end"]
      BY <2>4, <2>6
    <3>4. \A j \in 1 .. Len(s) : t[j] = s[j]
      BY <2>3
    <3> HIDE DEF s, t
    <3>5. Lined(t, n + 1, front) /\ RequestsIn(t) = Append(RequestsIn(s), r)
      BY <3>1, <3>2, <3>3, <3>4, LinedSent
    <3> QED BY <3>5 DEF s, t
  <2>8. n + 1 \in 0 .. Len(Bytes')
    BY <2>2, <2>3
  <2> QED BY <1>1, <2>1, <2>7, <2>8 DEF LineInv, Promised, PageStep, Underway
<1>5. CASE NanoLoop
  <2>1. CASE ~stringComplete
    <3>1. UNCHANGED <<inputString, toNano, stringComplete, gain>>
      BY <1>5, <2>1 DEF NanoLoop
    <3>2. CASE Promised
      <4>1. inputString = <<>>
        BY <2>1, <3>2 DEF LineInv
      <4> QED BY <1>1, <1>3, <3>1, <4>1
    <3> QED BY <1>1, <1>2, <3>2
  <2> QED BY <1>1, <1>2, <1>5, <2>1, LineLoop
<1>6. CASE NanoSerialEvent
  <2>1. Bytes' = Bytes /\ gain' = gain
    BY <1>6, BytesRead DEF NanoSerialEvent
  <2>2. PageStep
    BY <2>1 DEF PageStep, Underway
  <2> QED BY <1>1, <1>2, <1>6, <2>2, LineRead
<1>7. CASE EspSerialEvent \/ UNCHANGED vars
  BY <1>1, <1>2, <1>3, <1>7 DEF EspSerialEvent, vars, nano
<1> QED BY <1>1, <1>2, <1>4, <1>5, <1>6, <1>7 DEF Next, Nano

LEMMA LineInit == Init => LineInv /\ (Promised => gain = InitialGain /\ Underway = <<>>)
<1> SUFFICES ASSUME Init, Promised PROVE LineInv /\ gain = InitialGain /\ Underway = <<>>
  BY DEF LineInv
<1>1. inputString = <<>> /\ toNano = <<>> /\ turn = "loop" /\ gain = InitialGain
  BY DEF Init, Promised
<1>2. Bytes = <<>> /\ Bytes \in Seq(Piece) /\ Len(Bytes) = 0
  BY <1>1 DEF Bytes
<1>3. Lined(Bytes, 0, 0)
  BY <1>2 DEF Lined
<1>4. Underway = <<>>
  <2>1. RequestsIn(Bytes) \in Seq(Requests) /\ Len(RequestsIn(Bytes)) = 0
    BY <1>2, <1>3, LinedRequests
  <2> QED BY <2>1 DEF Underway
<1> QED BY <1>1, <1>2, <1>3, <1>4 DEF LineInv

\* A step of the chips is a step of the page, or none.
LEMMA TunerStep ==
  (Promised => PageStep) /\ link' = link
    => [T!Next]_<<IF Promised THEN gain ELSE InitialGain,
                  IF Promised THEN Underway ELSE <<>>>>
<1> SUFFICES ASSUME Promised => PageStep, link' = link
             PROVE  [T!Next]_<<IF Promised THEN gain ELSE InitialGain,
                               IF Promised THEN Underway ELSE <<>>>>
  OBVIOUS
<1>1. Promised' = Promised
  BY DEF Promised
<1>2. CASE ~Promised
  BY <1>1, <1>2
<1>3. CASE Promised
  BY <1>1, <1>3 DEF PageStep, T!Next, T!Carry, T!Send
<1> QED BY <1>2, <1>3

\* The two chips implement the tuning page: as long as lines are handled one by one and
\* the chips did not boot together, requests are carried out in order, each once and
\* each on its own gain (esp8266Code.ino:74-103, nanoCode.ino:139-230).
THEOREM TunerImplemented == Spec => T!Safety
<1>1. Init => T!Init
  BY LineInit DEF T!Init
<1>2. Init => TypeOK /\ StringInv /\ LineInv
  BY TypeInit, LineInit
<1>3. TypeOK /\ StringInv /\ LineInv /\ [Next]_vars => (TypeOK /\ StringInv /\ LineInv)'
  BY TypeStep, LineStep
<1>4. TypeOK /\ TypeOK' /\ StringInv /\ LineInv /\ [Next]_vars
        => [T!Next]_<<IF Promised THEN gain ELSE InitialGain,
                      IF Promised THEN Underway ELSE <<>>>>
  BY LineStep, TunerStep
<1> QED BY <1>1, <1>2, <1>3, <1>4, PTL DEF Spec, T!Safety
================================================================================
