------------------------------ MODULE MCUpload ------------------------------
(* Instances of Upload for TLC: which faults may happen together, each once,
   and what each session captured. *)
EXTENDS Upload

Mix(once) == [f \in FaultKinds |-> IF f \in once THEN 1 ELSE 0]
Pairs     == {Mix({"crash", "late"}), Mix({"crash", "foreign"}), Mix({"crash", "sidecar"}),
              Mix({"late", "foreign"}), Mix({"shutdown"})}
Crash     == {Mix({"crash"})}
Twice(f)  == [Mix({}) EXCEPT ![f] = 2]
CrashOrForeign == {Mix({"crash"}), Twice("foreign")}
Apart     == {Mix({"crash"}), Mix({"sidecar"})}

AllAudio   == [s \in Sessions |-> "audio"]
JunkSecond == [s \in Sessions |-> IF s = 2 THEN "junk" ELSE "audio"]
=============================================================================
