---------------------------- MODULE MCSerialBridge -----------------------------
(* A step and a number for the same gain, a number for another gain with a *)
(* name of the same length, both kinds for one with a long name, the query. *)
EXTENDS SerialBridge

R(n, k, v) == [name |-> n, kind |-> k, value |-> v]

SomeRequests ==
  {R("p", "step", 1), R("p", "number", 10), R("i", "number", 12),
   R("da", "step", -1), R("dutyA", "number", 35), R("ok", "query", 1)}

\* Gains of which none is 0, which a text that is no number would make of them.
Tuned == [g \in Gains |-> 47]

\* Lines that are handled one by one; lines cut and merged, after a boot or not.
BothPaces == {[pace |-> "line", boot |-> FALSE], [pace |-> "calm", boot |-> TRUE]}
Calm      == {[pace |-> "calm", boot |-> FALSE]}
================================================================================
