---------------------------- MODULE MCTCPSensor ----------------------------
(* A small instance of TCPSensor.                                          *)
EXTENDS TCPSensor
=============================================================================
