---------------------------- MODULE MCStepperMotor ----------------------------
(* Small speeds, timer and word: the ramp takes three calls, the longest     *)
(* period is reached, and a larger Factor would overflow the word.           *)
EXTENDS StepperMotor

SomeCommands == {-5, -1, 0, 1, 5}
=============================================================================
