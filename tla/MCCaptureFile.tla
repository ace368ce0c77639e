---------------------------- MODULE MCCaptureFile ----------------------------
(* An instance of CaptureFile for TLC. *)
EXTENDS CaptureFile

Troubled == [f \in FaultKinds |-> 1]
=============================================================================
