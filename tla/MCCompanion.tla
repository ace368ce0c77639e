---------------------------- MODULE MCCompanion ----------------------------
(* Instances of Companion for TLC: what the sessions captured, and which
   faults may happen. *)
EXTENDS Companion

Mixed == {<<"picture", "off", "picture">>, <<"off", "off", "dark">>}
AllFaults == FaultKinds
=============================================================================
