----------------------------- MODULE MC_Serial ------------------------------
(* Two processes and schedule(), and a transmitter that holds one character *)
(* for each, for Serial.                                                    *)
EXTENDS Serial

CONSTANTS a, b
MCThreads == {a, b}
=============================================================================
