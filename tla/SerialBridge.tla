----------------------------- MODULE SerialBridge ------------------------------
(***************************************************************************)
(* The two-chip robot: the ESP8266 (esp8266Code) serves the tuning page    *)
(* and prints a line for every request; the Nano (nanoCode) reads the      *)
(* lines between two passes of its loop() and prints the gains when asked. *)
(*                                                                         *)
(* A line travels as two pieces, the name with its colon and the rest with *)
(* the line end, because serialEvent() takes whatever has arrived; that a  *)
(* name itself is cut in two is left out.  A gain is counted in the steps  *)
(* of its buttons; a number has two digits, so that substring(6) of a      *)
(* short line starts in the text after it, which is no number.  The        *)
(* sampling interrupt only reads the gains, and is left out.               *)
(***************************************************************************)
EXTENDS Integers, Sequences

CONSTANTS Requests,    \* the requests of the page: [name, kind, value]
          InitialGain, \* the gains that the Nano starts with
          MaxSends,    \* bound on the number of requests
          Links        \* the conditions considered: [pace, boot]

\* boot: the Nano hears the ESP8266 boot.  pace is how much loop() of the Nano and
\* the user keep apart.  "calm": any number of bytes arrive between two passes of loop(), and the user
\* waits until a request is done.  "line": requests follow each other as they like,
\* and exactly one line arrives between two passes.
ASSUME LinksAssumption == Links \subseteq [pace : {"calm", "line"}, boot : BOOLEAN]
ASSUME SendsAssumption == MaxSends \in Nat

\* The names indexOf() looks for, in the order of the tests.
Absolute == <<"angle", "p", "d", "i", "dutyA", "dutyB">>
Gains    == {"angle", "p", "d", "i", "dutyA", "dutyB"}

ASSUME InitialAssumption == InitialGain \in [Gains -> Int]

\* The gain that the commands "name:H" and "name:L" change.
Relative == [name \in {"angle", "i", "d", "p", "da", "db"} |->
               CASE name = "da" -> "dutyA" [] name = "db" -> "dutyB" [] OTHER -> name]

\* substring() cuts off as many characters as the name has with its colon.
CutOff(name) == IF name \in {"p", "d", "i"} THEN 2 ELSE 6

\* A line is "name:H" or "name:L" (kind "step", value 1 or -1), "name:value" (kind
\* "number"), "ok:1" (kind "query") or a message for a person (kind "text").
IsStep(line)    == line.kind = "step"
IsNumber(line)  == line.kind = "number"
IsQuery(line)   == line.kind = "query" /\ line.name = "ok"
IsCommand(line) == \/ IsStep(line) /\ line.name \in DOMAIN Relative
                   \/ IsNumber(line) /\ line.name \in Gains

ASSUME RequestsAssumption ==
  \A r \in Requests : (IsCommand(r) \/ IsQuery(r)) /\ r.value \in Int

Log    == [name |-> "log", kind |-> "text", value |-> 0]   \* no colon in it
Server == [name |-> "Server ip", kind |-> "text", value |-> 0]

VARIABLES link,                  \* the conditions of this execution, fixed
          toNano, toEsp,         \* the bytes on the two lines, as pieces
          inputString, stringComplete,    \* of the Nano
          gain,                  \* Kp, Ki, Kd, targetAngle, the duty offsets
          turn,                  \* "loop" or "serialEvent": what the Nano does next
          espComplete, pidData,  \* of the ESP8266: stringComplete and pidData
          sent,                  \* requests so far
          wanted,                \* history: the gains, were every command carried out
          last,                  \* history: the last request
          printed, reply         \* history: answers printed, the last one delivered

nano == <<inputString, stringComplete, gain, turn>>
esp  == <<espComplete, pidData>>
vars == <<link, toNano, toEsp, nano, esp, sent, wanted, last, printed, reply>>

Pieces(line) == <<[line |-> line, part |-> "name"], [line |-> line, part |-> "end"]>>
Lines        == Requests \cup {Log, Server}
Piece        == [line : Lines, part : {"name", "end"}]

TypeOK ==
  /\ link \in Links
  /\ toNano \in Seq(Piece) /\ inputString \in Seq(Piece)
  /\ toEsp \in Seq(Nat)
  /\ stringComplete \in BOOLEAN /\ espComplete \in BOOLEAN
  /\ gain \in [Gains -> Int] /\ wanted \in [Gains -> Int]
  /\ turn \in {"loop", "serialEvent"}
  /\ pidData \in Nat /\ printed \in Nat /\ reply \in Nat /\ sent \in Nat
  /\ last \in Requests \cup {Log}

Init ==
  /\ link \in Links
  /\ toNano = IF link.boot THEN Pieces(Log) \o Pieces(Server) \o Pieces(Log) ELSE <<>>
  /\ toEsp = <<>>
  /\ inputString = <<>> /\ stringComplete = FALSE
  /\ gain = InitialGain /\ wanted = InitialGain
  /\ turn = "loop"
  /\ espComplete = FALSE /\ pidData = 0
  /\ sent = 0 /\ last = Log /\ printed = 0 /\ reply = 0

Quiet == toNano = <<>> /\ toEsp = <<>> /\ inputString = <<>> /\ turn = "loop"

(***************************************************************************)
(* The ESP8266                                                             *)
(***************************************************************************)

\* What a request does to the gains g; the query does nothing.
Effect(g, line) ==
  CASE IsStep(line)   -> [g EXCEPT ![Relative[line.name]] = @ + line.value]
    [] IsNumber(line) -> [g EXCEPT ![line.name] = line.value]
    [] OTHER          -> g

\* As HandleTuning, but stringComplete stays: the answer is sent again.
HandleTuningAgain(r) ==
  /\ sent < MaxSends /\ (link.pace = "calm" => Quiet)
  /\ toNano' = toNano \o Pieces(r) \o Pieces(Log)
  /\ reply' = IF espComplete THEN pidData ELSE reply
  /\ sent' = sent + 1 /\ last' = r
  /\ wanted' = Effect(wanted, r)
  /\ UNCHANGED <<link, toEsp, nano, esp, printed>>

\* handleTuning() prints the request, answers with what the Nano printed before,
\* if anything, and prints "begin handleTuning".
HandleTuning(r) ==
  /\ sent < MaxSends /\ (link.pace = "calm" => Quiet)
  /\ toNano' = toNano \o Pieces(r) \o Pieces(Log)
  /\ reply' = IF espComplete THEN pidData ELSE reply
  /\ espComplete' = FALSE
  /\ sent' = sent + 1 /\ last' = r
  /\ wanted' = Effect(wanted, r)
  /\ UNCHANGED <<link, toEsp, nano, pidData, printed>>

\* serialEvent() of the ESP8266 keeps the last complete line.  An answer is one
\* piece here: a part of a line only waits in inputString for the rest of it.
EspSerialEvent ==
  /\ toEsp # <<>>
  /\ \E n \in 1 .. Len(toEsp) :
       /\ pidData' = toEsp[n]
       /\ toEsp' = SubSeq(toEsp, n + 1, Len(toEsp))
  /\ espComplete' = TRUE
  /\ UNCHANGED <<link, toNano, nano, sent, wanted, last, printed, reply>>

(***************************************************************************)
(* The Nano                                                                *)
(***************************************************************************)

\* serialEvent() of the Nano appends what has arrived, a whole line or not.
Arrived(n) == link.pace = "line" => n = 2

NanoSerialEvent ==
  /\ turn = "serialEvent" /\ turn' = "loop"
  /\ \/ toNano = <<>> /\ UNCHANGED <<toNano, inputString, stringComplete>>
     \/ \E n \in 1 .. Len(toNano) :
          /\ Arrived(n)
          /\ inputString' = inputString \o SubSeq(toNano, 1, n)
          /\ toNano' = SubSeq(toNano, n + 1, Len(toNano))
          /\ stringComplete' = \/ stringComplete
                               \/ \E i \in 1 .. n : toNano[i].part = "end"
  /\ UNCHANGED <<link, toEsp, gain, esp, sent, wanted, last, printed, reply>>

\* inputString.equals(...): the line and nothing else.
Equals(line) == inputString = Pieces(line)

\* As Mentions, but without the colon: "begin handleTuning" has a d and an i.
MentionsBare(name) ==
  \E i \in 1 .. Len(inputString) :
    /\ inputString[i].part = "name"
    /\ \/ inputString[i].line.name = name
       \/ inputString[i].line.name = "Server ip" /\ name \in {"p", "i"}
       \/ inputString[i].line = Log /\ name \in {"d", "i"}

\* inputString.indexOf("name:") # -1; "Server ip:" contains "p:".
Mentions(name) ==
  \E i \in 1 .. Len(inputString) :
    /\ inputString[i].part = "name"
    /\ inputString[i].line.name \in {name} \cup IF name = "p" THEN {"Server ip"} ELSE {}

\* The k-th name is the first one in the order of the tests that occurs.
FirstMention(k) == Mentions(Absolute[k]) /\ \A j \in 1 .. k - 1 : ~Mentions(Absolute[j])

\* As Number, but one character too many is cut off: of two digits the last stays.
NumberCutTooMuch(name) ==
  LET first == inputString[1].line IN IF first.name = name THEN first.value % 10 ELSE 0

\* inputString.substring(n).toFloat(): the number after the first name, if that
\* name was n - 1 characters long; a text that is no number gives 0.
Number(name) ==
  LET first == inputString[1]
  IN  IF /\ first.part = "name" /\ IsNumber(first.line)
         /\ CutOff(first.line.name) = CutOff(name)
        THEN first.line.value ELSE 0

\* As Clear, but the string stays.
ClearFlagOnly == UNCHANGED inputString /\ stringComplete' = FALSE

\* inputString = ""; stringComplete = false.
Clear == inputString' = <<>> /\ stringComplete' = FALSE

\* The relative commands are tested first, by equality.
StepGain(r) ==
  /\ Equals(r) /\ IsStep(r)
  /\ gain' = Effect(gain, r)
  /\ UNCHANGED <<toEsp, printed>>

NoStep == \A r \in Requests : Equals(r) => ~IsStep(r)

\* Then the first name that occurs anywhere in the string.
SetGain ==
  /\ NoStep
  /\ \E k \in 1 .. Len(Absolute) :
       /\ FirstMention(k)
       /\ gain' = [gain EXCEPT ![Absolute[k]] = Number(Absolute[k])]
  /\ UNCHANGED <<toEsp, printed>>

NoMention == \A name \in Gains : ~Mentions(name)

\* "ok:1" prints the gains; an answer is its number.
PrintGains ==
  /\ NoMention /\ \E r \in Requests : IsQuery(r) /\ Equals(r)
  /\ printed' = printed + 1
  /\ toEsp' = Append(toEsp, printed')
  /\ UNCHANGED gain

Ignore ==
  /\ NoStep /\ NoMention /\ ~\E r \in Requests : IsQuery(r) /\ Equals(r)
  /\ UNCHANGED <<toEsp, gain, printed>>

NanoLoop ==
  /\ turn = "loop" /\ turn' = "serialEvent"
  /\ IF stringComplete
       THEN /\ (\E r \in Requests : StepGain(r)) \/ SetGain \/ PrintGains \/ Ignore
            /\ Clear
       ELSE UNCHANGED <<toEsp, inputString, stringComplete, gain, printed>>
  /\ UNCHANGED <<link, toNano, esp, sent, wanted, last, reply>>

Nano == NanoLoop \/ NanoSerialEvent

Next == Nano \/ EspSerialEvent \/ \E r \in Requests : HandleTuning(r)

\* Both chips run for ever; no user need do anything.
Spec == Init /\ [][Next]_vars /\ WF_vars(Nano) /\ WF_vars(EspSerialEvent)

(***************************************************************************)
(* Properties                                                              *)
(***************************************************************************)

\* What the Nano has not handled yet.
Bytes == inputString \o toNano

\* The requests among the pieces s, in order: each is followed by a log line, and the log
\* line of a request that is handled may be left in front.
RequestsIn(s) == [k \in 1 .. Len(s) \div 4 |-> s[(Len(s) % 4) + 4 * k - 3].line]
Underway      == RequestsIn(Bytes)

\* A Nano that handles every line before the next one, and was not reset together with
\* the ESP8266, keeps the promise of the tuning page: requests in order, each once, each
\* on its own gain.  Otherwise the mapping shows a page that nobody uses.
Promised == link.pace = "line" /\ ~link.boot
T == INSTANCE Tuner WITH
       gain    <- IF Promised THEN gain ELSE InitialGain,
       pending <- IF Promised THEN Underway ELSE <<>>
ImplementsTuner == T!Spec

\* The answer that is delivered was printed, and the one that waits in pidData was
\* not delivered before: no request gets an answer that another one got.
Answered == reply <= pidData /\ pidData <= printed /\ (espComplete => reply < pidData)

\* An absolute value gets through even when its line is merged with the log line
\* after it, as long as the user waits for one command before the next.
AbsoluteApplied ==
  link.pace = "calm" /\ Quiet /\ ~stringComplete /\ IsNumber(last)
    => gain[last.name] = last.value

\* Whatever is merged, only the proportional gain is lost at boot ("Server ip:" has
\* a p:), and afterwards only the gain that a user who waits asked for changes.
OwnGain ==
  \A g \in Gains : link.pace = "calm" /\ gain'[g] # gain[g] =>
    \/ g = "p" /\ link.boot /\ last = Log
    \/ IsNumber(last) /\ g = last.name
    \/ IsStep(last) /\ g = Relative[last.name]
OnlyItsOwnGain == [][OwnGain]_vars

\* "if the incoming character is a newline, set a flag so the main loop can do
\* something about it": once everything is read, every line was carried out.
LineHandled == Quiet /\ ~stringComplete => gain = wanted

\* What makes AbsoluteApplied and OnlyItsOwnGain inductive: of what the last request has
\* printed, its two pieces go together, and then its number is the gain.
EndInv == stringComplete => \E j \in 1 .. Len(inputString) : inputString[j].part = "end"
LastPieces == Pieces(last) \o Pieces(Log)
CalmInv ==
  link.pace = "calm" =>
    IF last = Log
      THEN /\ \A j \in 1 .. Len(Bytes) : Bytes[j].line \in {Log, Server}
           /\ ~link.boot => Bytes = <<>>
      ELSE /\ Len(Bytes) \in {0, 1, 2, 4}
           /\ \A j \in 1 .. Len(Bytes) : Bytes[j] = LastPieces[4 - Len(Bytes) + j]
           /\ Len(Bytes) < 4 /\ IsNumber(last) => gain[last.name] = last.value

\* What makes the refinement hold: one line in the string, and of the pieces n requests,
\* each followed by its log line, after at most one log line that is left in front.
RequestAt(s, start) ==
  LET line == s[start + 1].line
  IN  /\ line \in Requests
      /\ s[start + 1] = [line |-> line, part |-> "name"]
      /\ s[start + 2] = [line |-> line, part |-> "end"]
      /\ s[start + 3] = [line |-> Log, part |-> "name"]
      /\ s[start + 4] = [line |-> Log, part |-> "end"]
Lined(s, n, front) ==
  /\ Len(s) = 4 * n + front
  /\ \A k \in 1 .. n : RequestAt(s, front + 4 * k - 4)
  /\ front = 2 => /\ s[1] = [line |-> Log, part |-> "name"]
                  /\ s[2] = [line |-> Log, part |-> "end"]
LineInv ==
  Promised =>
    /\ Len(inputString) \in {0, 2} /\ (inputString # <<>> => stringComplete)
    /\ turn = "serialEvent" => inputString = <<>>
    /\ \E n \in 0 .. Len(Bytes), front \in {0, 2} : Lined(Bytes, n, front)
================================================================================
