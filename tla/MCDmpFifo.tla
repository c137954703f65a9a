------------------------------ MODULE MCDmpFifo ------------------------------
(* A FIFO of a little more than three packets of two bytes, as 1024 is a    *)
(* little more than 24 packets of 42.                                       *)
EXTENDS DmpFifo
=============================================================================
