--------------------------- MODULE MCBluetoothRobot ----------------------------
(* One command of each kind; B and R are F and L with the other sign.     *)
EXTENDS BluetoothRobot

C(kind, value) == [kind |-> kind, value |-> value]

SomeCommands ==
  {C("B", 0), C("R", 0), C("S", 1), C("D", 1),
   C("change balance", 0), C("change rotation", 0)}
================================================================================
