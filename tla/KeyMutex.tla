------------------------------ MODULE KeyMutex ------------------------------
(***************************************************************************)
(* What keyedLocks promises its callers: one mutex per object key.  A      *)
(* process asks for a key, is granted it only while nobody holds it, and   *)
(* gives it back.  Nothing is said about how the mutexes are created or    *)
(* when their table entries disappear: that is KeyedLocks, which is shown  *)
(* to implement this specification.  The upload model takes its locking    *)
(* from here.                                                              *)
(***************************************************************************)

CONSTANTS Procs,   \* the goroutines: one upload loop per session
          Keys,    \* object keys
          None     \* "nobody" and "no key"

VARIABLES holder,  \* holder[k]: the process that holds k's mutex, or None
          want     \* want[p]: the key p waits for or holds, or None

vars == <<holder, want>>

Init == /\ holder = [k \in Keys |-> None]
        /\ want = [p \in Procs |-> None]

Request(p, k) == /\ want[p] = None
                 /\ want' = [want EXCEPT ![p] = k]
                 /\ UNCHANGED holder

Grant(p) == /\ want[p] \in Keys
            /\ holder[want[p]] = None
            /\ holder' = [holder EXCEPT ![want[p]] = p]
            /\ UNCHANGED want

Release(p) == /\ want[p] \in Keys
              /\ holder[want[p]] = p
              /\ holder' = [holder EXCEPT ![want[p]] = None]
              /\ want' = [want EXCEPT ![p] = None]

Next == \E p \in Procs : (\E k \in Keys : Request(p, k)) \/ Grant(p) \/ Release(p)

Spec == Init /\ [][Next]_vars
=============================================================================
