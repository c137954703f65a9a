----------------------------- MODULE MCBalanceLoop -----------------------------
(* Readings on both sides of the bias at rest, near and far.                 *)
EXTENDS BalanceLoop

ShakenReadings == {-4, 1, 9}
================================================================================
