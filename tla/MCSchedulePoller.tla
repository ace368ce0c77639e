--------------------------- MODULE MCSchedulePoller ---------------------------
(* An instance of SchedulePoller for TLC: a document with everything that
   may go wrong with an entry, one that is all invalid, and an empty one. *)
EXTENDS SchedulePoller

CONSTANTS a, b, c

Entry(i, start, key) == [id |-> i, start |-> start, key |-> key, ok |-> TRUE]
Bad(i) == [id |-> i, start |-> 1, key |-> 0, ok |-> FALSE]

\* The third entry has the key of the second one and is rejected, so the fourth may
\* have its id; the fifth has the id of the second.
Mixed  == <<Bad(c), Entry(b, 2, 0), Entry(a, 1, 1), Entry(a, 1, NoKey), Entry(b, 1, NoKey), Bad(NoId)>>
AllBad == <<Bad(c)>>

Kinds   == {Mixed, AllBad, <<>>}
OneEach == [f \in FaultKinds |-> 1]
=============================================================================
