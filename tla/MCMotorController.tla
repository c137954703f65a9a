--------------------------- MODULE MCMotorController ---------------------------
(* Speeds beyond the limits, below the minimum and in between.               *)
EXTENDS MotorController

SomeSpeeds == {-7, -5, -2, -1, 0, 1, 3, 5, 7}
================================================================================
