---------------------------- MODULE MCLifecycle -----------------------------
(* Instances of Lifecycle for TLC: the windows a schedule may give an item and
   how often the environment interferes. *)
EXTENDS Lifecycle

\* A short window, one that is still open when the clock stops, a later one.
Windows == {[start |-> 0, end |-> 1, late |-> 1], [start |-> 0, end |-> 9, late |-> 0],
            [start |-> 1, end |-> 2, late |-> 0]}

\* So many fetches, and each of these events once.
Mix(fetches, once) ==
  [f \in FaultKinds |-> IF f = "fetch" THEN fetches ELSE IF f \in once THEN 1 ELSE 0]
Mixes == {Mix(3, {"crash", "stepback"}), Mix(3, {"crash", "shutdown"}),
          Mix(2, {"crash", "sidecar", "start"}), Mix(2, {"crash", "sidecar", "shutdown"}),
          Mix(2, {"crash", "cache", "disk"}), Mix(2, {"stepback", "start", "disk"})}
Fetches == {Mix(2, {})}
=============================================================================
