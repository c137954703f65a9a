--------------------------------- MODULE Tuner ---------------------------------
(***************************************************************************)
(* What the tuning page of the Nano/ESP8266 robot promises: the requests   *)
(* that a user sends are carried out in order, each once, each on its own  *)
(* gain; the query changes none.                                           *)
(***************************************************************************)
EXTENDS Integers, Sequences

CONSTANTS Requests,           \* what the page sends
          InitialGain,        \* the gains before the first request
          Effect(_, _)        \* the gains after a request

VARIABLES gain, pending

Init == gain = InitialGain /\ pending = <<>>

Send(r) == pending' = Append(pending, r) /\ UNCHANGED gain

Carry == /\ pending # <<>>
         /\ gain' = Effect(gain, Head(pending))
         /\ pending' = Tail(pending)

Next == Carry \/ \E r \in Requests : Send(r)

Safety == Init /\ [][Next]_<<gain, pending>>

Spec == Safety /\ WF_<<gain, pending>>(Carry)
================================================================================
