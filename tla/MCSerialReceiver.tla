-------------------------- MODULE MCSerialReceiver --------------------------
(* Small instances of SerialReceiver for TLC: three packets, of 3, 0 and 2   *)
(* bytes, after heads of two bytes.                                          *)
EXTENDS SerialReceiver

MCStarts == {0, 5, 7}
MCLength == [s \in MCStarts |-> IF s = 0 THEN 3 ELSE IF s = 5 THEN 0 ELSE 2]
=============================================================================
