---------------------------- MODULE MCObjectStore ----------------------------
(* Instances of ObjectStore for TLC: who captured what, which objects take
   more than one part, and the endpoints to try. *)
EXTENDS ObjectStore

\* Distinct sizes for distinct sets: only the object that holds session 1
\* alone fits one part of size 1.
TwoAndOne == [s \in Sessions |-> IF s = 3 THEN "r2" ELSE "r1"]
Bits      == [S \in SUBSET Sessions |->
                (IF 1 \in S THEN 1 ELSE 0) + (IF 2 \in S THEN 2 ELSE 0) + (IF 3 \in S THEN 4 ELSE 0)]

Uniform(h) == [x \in Headers |-> [m \in BOOLEAN |-> IF x = h THEN "NotImplemented" ELSE "enforces"]]
\* Every mixture of enforcing and ignoring, and endpoints that reject a header,
\* or If-None-Match on multipart uploads only.
MostlyKnown == [Headers -> [BOOLEAN -> {"enforces", "ignores"}]]
                 \cup {Uniform(h) : h \in Headers}
                 \cup {[Uniform("none") EXCEPT !["If-None-Match"][TRUE] = "NotImplemented"]}

OneOfEach   == [f \in FaultKinds |-> 1]
=============================================================================
