---------------------------- MODULE GrowingObject ----------------------------
(***************************************************************************)
(* What the object store client promises the upload path about the object  *)
(* under one key.  The object is the set of sessions it holds.  Where the  *)
(* endpoint is strict (it enforces every precondition) the object only     *)
(* grows, so a session somebody was told is stored stays stored; and on    *)
(* any endpoint nobody is told so before the session is in the object.     *)
(* Nothing is said about requests, answers, probes or retries: that is     *)
(* ObjectStore, which is shown to implement this specification.            *)
(***************************************************************************)

CONSTANTS Sessions   \* the sessions that may be stored under the key

VARIABLES strict,    \* the endpoint enforces every precondition
          object,    \* the sessions the object holds; none: there is no object
          told       \* the sessions whose upload was reported as done

vars == <<strict, object, told>>

Init == /\ strict \in BOOLEAN
        /\ object = {}
        /\ told = {}

\* A PUT is applied: nobody sees a strict endpoint's object lose a session.
Write(S) == /\ strict => object \subseteq S
            /\ object' = S
            /\ UNCHANGED <<strict, told>>

\* An upload is reported as done.
Report(S) == /\ S \subseteq object
             /\ told' = told \cup S
             /\ UNCHANGED <<strict, object>>

Next == \E S \in SUBSET Sessions : Write(S) \/ Report(S)

Spec == Init /\ [][Next]_vars
=============================================================================
