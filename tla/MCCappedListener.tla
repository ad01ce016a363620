-------------------------- MODULE MCCappedListener --------------------------
(* A small instance of CappedListener.                                     *)
EXTENDS CappedListener
=============================================================================
