-------------------------- MODULE ObjectStore_proof --------------------------
(***************************************************************************)
(* For every set of recorders and sessions, every endpoint and every part  *)
(* size: the object store client keeps its types, implements GrowingObject *)
(* and never lets a merge discard what it has not seen.  The sizes of      *)
(* different objects must differ (SizeAssumption).                         *)
(***************************************************************************)
EXTENDS ObjectStore, TLAPS

\* The endpoint enforces If-Match on both paths of the uploader.
MatchEnforced == \A m \in BOOLEAN : endpoint["If-Match"][m] = "enforces"

\* A process that may merge has seen If-Match refused on both paths.
ClientsRight == \A r \in Recorders : client[r].mergeable => client[r].probed /\ MatchEnforced

\* What a request says about the object it was built on.
Sound(q) == /\ q.header = "If-Match" => MatchEnforced
            /\ q.header # "If-Match" => q.seen = {}
            /\ q.seen \subseteq q.want

\* An attempt's request is sound from the moment merging was allowed; only new
\* objects are in conflict, only replaced ones are read again.
AttemptsRight == \A r \in Recorders :
  /\ pc[r] \in {"ask", "fetch", "recheck"} => att[r].header = "If-Match"
  /\ pc[r] = "fetch" => client[r].mergeable
  /\ pc[r] = "put" => Sound(Request(r))
  /\ pc[r] = "conflict" => att[r].header = "If-None-Match"

RequestsRight == \A q \in inflight : Sound(q)

\* Where the endpoint is strict no PUT goes without a precondition.
NeverBare == Strict =>
  /\ \A r \in Recorders : client[r].conditional /\ (pc[r] = "put" => att[r].header # "none")
  /\ \A q \in inflight : q.header # "none"

IInv == TypeOK /\ ClientsRight /\ AttemptsRight /\ RequestsRight /\ NeverBare

-----------------------------------------------------------------------------
LEMMA InitIInv == Init => IInv
<1> SUFFICES ASSUME Init PROVE IInv
  OBVIOUS
<1> USE OwnerAssumption, LimitsAssumption, SwitchAssumption, FaultsAssumption DEF Init
<1>1. TypeOK
  BY DEF TypeOK, PCs, Idle, Attempts, NewClient, Clients, Requests, Headers
<1>2. ClientsRight /\ AttemptsRight /\ RequestsRight
  BY DEF ClientsRight, AttemptsRight, RequestsRight, NewClient, Idle
<1>3. NeverBare
  BY DEF NeverBare, Strict, NewClient, Idle
<1> QED
  BY <1>1, <1>2, <1>3 DEF IInv

\* The endpoint never changes, and with it what depends on nothing else.
LEMMA EndpointKept ==
  ASSUME [Next]_vars
  PROVE  endpoint' = endpoint /\ (MatchEnforced' <=> MatchEnforced) /\ (Strict' <=> Strict)
<1>1. endpoint' = endpoint
  BY DEF Next, vars, Finish, Examine, Probe, Ask, Fetch, PutAnswered, PutLost, PutRepeated,
         Conflict, Verify, Recheck, AttemptFails, Crash, LateLand
<1> QED
  BY <1>1 DEF MatchEnforced, Strict

\* A request, and what it stores, are well typed.
LEMMA RequestTyped ==
  ASSUME TypeOK, NEW r \in Recorders
  PROVE  Request(r) \in Requests /\ Want(r) \in SUBSET Sessions
BY DEF TypeOK, Request, Want, Requests, Attempts, PCs

LEMMA AppliedTyped ==
  ASSUME TypeOK, NEW q \in Requests
  PROVE  Applied(q) \in SUBSET Sessions
BY DEF TypeOK, Applied, Requests

\* Ending an attempt, or moving it along, keeps its types.
LEMMA IdleTyped == Idle \in Attempts
BY LimitsAssumption DEF Idle, Attempts

LEMMA GiveUpTyped ==
  ASSUME TypeOK, NEW r \in Recorders, GiveUp(r)
  PROVE  pc' \in [Recorders -> PCs] /\ att' \in [Recorders -> Attempts]
BY IdleTyped DEF TypeOK, GiveUp, Goto, PCs

LEMMA CompleteTyped ==
  ASSUME TypeOK, NEW r \in Recorders, Complete(r)
  PROVE  /\ pc' \in [Recorders -> PCs] /\ att' \in [Recorders -> Attempts]
         /\ done' \in [Recorders -> SUBSET Sessions] /\ ready' \in [Recorders -> SUBSET Sessions]
<1>1. GiveUp(r)
  BY DEF Complete
<1>2. att[r].group \in SUBSET Sessions
  BY DEF TypeOK, Attempts
<1> QED
  BY <1>1, <1>2, GiveUpTyped DEF Complete, TypeOK

LEMMA GotoTyped ==
  ASSUME TypeOK, NEW r \in Recorders, NEW where \in PCs, Goto(r, where)
  PROVE  pc' \in [Recorders -> PCs]
BY DEF TypeOK, Goto

LEMMA TypeStep == ASSUME TypeOK, [Next]_vars PROVE TypeOK'
<1> USE LimitsAssumption, SwitchAssumption, FaultsAssumption
<1>0. CASE UNCHANGED vars
  BY <1>0 DEF TypeOK, vars
<1>1. ASSUME NEW r \in Recorders, NEW s \in Sessions, Finish(r, s) PROVE TypeOK'
  BY <1>1 DEF TypeOK, Finish, attemptVars
<1>2. ASSUME NEW r \in Recorders, Examine(r) PROVE TypeOK'
  <2>1. ready[r] \in SUBSET Sessions /\ object \in SUBSET Sessions
    BY DEF TypeOK
  <2>2. ready' \in [Recorders -> SUBSET Sessions] /\ done' \in [Recorders -> SUBSET Sessions]
    BY <1>2, <2>1 DEF TypeOK, Examine
  <2>3. pc' \in [Recorders -> PCs]
    BY <1>2 DEF TypeOK, Examine, Goto, PCs, attemptVars
  <2>4. \A h \in Headers \cup {"none"}, o \in SUBSET Sessions :
          [Idle EXCEPT !.group = ready[r], !.seen = o, !.header = h] \in Attempts
    BY <2>1, IdleTyped DEF Attempts, Idle
  <2>5. \A h \in Headers \cup {"none"} : [Idle EXCEPT !.group = ready[r], !.header = h] \in Attempts
    BY <2>1, IdleTyped DEF Attempts, Idle
  <2>6. att' \in [Recorders -> Attempts]
    <3>1. \/ att' = att
          \/ \E h \in Headers \cup {"none"} :
               att' = [att EXCEPT ![r] = [Idle EXCEPT !.group = ready[r], !.header = h]]
          \/ att' = [att EXCEPT ![r] = [Idle EXCEPT !.group = ready[r], !.seen = object, !.header = "If-Match"]]
      BY <1>2 DEF Examine, attemptVars, Headers
    <3>2. att \in [Recorders -> Attempts]
      BY DEF TypeOK
    <3>3. [Idle EXCEPT !.group = ready[r], !.seen = object, !.header = "If-Match"] \in Attempts
      BY <2>1, <2>4 DEF Headers
    <3> QED
      BY <2>5, <3>1, <3>2, <3>3
  <2> QED
    BY <1>2, <2>2, <2>3, <2>6 DEF TypeOK, Examine
<1>3. ASSUME NEW r \in Recorders, Probe(r) PROVE TypeOK'
  <2>1. Judged(r) \in BOOLEAN
    BY DEF Judged
  <2>2. faults' \in [FaultKinds -> Nat]
    BY <1>3 DEF TypeOK, Probe, FaultKinds
  <2>3. \A b \in BOOLEAN : /\ [client[r] EXCEPT !.probed = TRUE, !.mergeable = b] \in Clients
                           /\ [client[r] EXCEPT !.probed = TRUE] \in Clients
    BY DEF TypeOK, Clients
  <2>4. \/ client' = [client EXCEPT ![r] = [client[r] EXCEPT !.probed = TRUE, !.mergeable = Judged(r)]]
        \/ client' = [client EXCEPT ![r] = [client[r] EXCEPT !.probed = TRUE]]
    BY <1>3 DEF Probe, TypeOK
  <2>5. client' \in [Recorders -> Clients]
    BY <2>1, <2>3, <2>4 DEF TypeOK
  <2> QED
    BY <1>3, <2>2, <2>5 DEF TypeOK, Probe, attemptVars
<1>4. ASSUME NEW r \in Recorders, Ask(r) PROVE TypeOK'
  <2>1. pc' \in [Recorders -> PCs] /\ att' \in [Recorders -> Attempts]
    BY <1>4, GiveUpTyped, GotoTyped DEF Ask, TypeOK, PCs
  <2>2. ready' \in [Recorders -> SUBSET Sessions] /\ left' \in SUBSET Sessions
    BY <1>4 DEF Ask, TypeOK, Attempts
  <2> QED
    BY <1>4, <2>1, <2>2 DEF TypeOK, Ask
<1>5. ASSUME NEW r \in Recorders, Fetch(r) \/ AttemptFails(r) PROVE TypeOK'
  <2>1. pc' \in [Recorders -> PCs] /\ att' \in [Recorders -> Attempts]
    BY <1>5, GiveUpTyped, GotoTyped DEF Fetch, AttemptFails, TypeOK, PCs
  <2> QED
    BY <1>5, <2>1 DEF TypeOK, Fetch, AttemptFails
<1>6. ASSUME NEW r \in Recorders, PutAnswered(r) PROVE TypeOK'
  <2>1. object' \in SUBSET Sessions
    BY <1>6, RequestTyped, AppliedTyped DEF PutAnswered
  <2>2. [att[r] EXCEPT !.header = "none", !.tries = 0] \in Attempts
    <3>1. att[r] \in Attempts /\ 0 \in 0 .. MaxTries
      BY DEF TypeOK
    <3> QED
      BY <3>1 DEF Attempts
  <2>3. pc' \in [Recorders -> PCs] /\ att' \in [Recorders -> Attempts]
    BY <1>6, <2>2, GiveUpTyped, GotoTyped DEF PutAnswered, TypeOK, PCs
  <2>4. [client[r] EXCEPT !.conditional = FALSE] \in Clients
    BY DEF TypeOK, Clients
  <2>5. client' \in [Recorders -> Clients]
    BY <1>6, <2>4 DEF PutAnswered, TypeOK
  <2> QED
    BY <1>6, <2>1, <2>3, <2>5 DEF PutAnswered, TypeOK
<1>7. ASSUME NEW r \in Recorders, PutLost(r) PROVE TypeOK'
  <2>1. object' \in SUBSET Sessions /\ inflight' \in SUBSET Requests
    BY <1>7, RequestTyped, AppliedTyped DEF PutLost, TypeOK
  <2>2. \A b \in BOOLEAN : att[r].tries < MaxTries =>
          /\ [att[r] EXCEPT !.tries = @ + 1, !.completed = b] \in Attempts
          /\ [att[r] EXCEPT !.tries = @ + 1] \in Attempts
    <3>1. att[r] \in Attempts
      BY DEF TypeOK
    <3>2. att[r].tries < MaxTries => att[r].tries + 1 \in 0 .. MaxTries
      BY <3>1 DEF Attempts
    <3> QED
      BY <3>1, <3>2 DEF Attempts
  <2>3. (Multipart(Request(r).want) /\ Verdict(Request(r)) = "stored") \in BOOLEAN
    BY DEF Multipart
  <2>4. pc' \in [Recorders -> PCs] /\ att' \in [Recorders -> Attempts]
    <3>1. CASE att[r].tries < MaxTries /\ ~GiveUp(r)
      BY <1>7, <2>2, <2>3, <3>1 DEF PutLost, TypeOK
    <3>2. CASE ~(att[r].tries < MaxTries) \/ GiveUp(r)
      BY <1>7, <3>2, GiveUpTyped DEF PutLost
    <3> QED
      BY <3>1, <3>2
  <2>5. faults' \in [FaultKinds -> Nat]
    BY <1>7 DEF PutLost, TypeOK, FaultKinds
  <2> QED
    BY <1>7, <2>1, <2>4, <2>5 DEF PutLost, TypeOK
<1>8. ASSUME NEW r \in Recorders, PutRepeated(r) PROVE TypeOK'
  <2>1. pc' \in [Recorders -> PCs] /\ att' \in [Recorders -> Attempts]
    BY <1>8, GiveUpTyped, GotoTyped DEF PutRepeated, TypeOK, PCs
  <2> QED
    BY <1>8, <2>1 DEF TypeOK, PutRepeated
<1>9. ASSUME NEW r \in Recorders, Conflict(r) \/ Verify(r) \/ Recheck(r) PROVE TypeOK'
  <2>1. CASE Complete(r)
    BY <1>9, <2>1, CompleteTyped DEF Conflict, Verify, Recheck, TypeOK
  <2>2. CASE ~Complete(r)
    <3>1. pc' \in [Recorders -> PCs] /\ att' \in [Recorders -> Attempts]
      BY <1>9, <2>2, GiveUpTyped, GotoTyped DEF Conflict, Verify, Recheck, TypeOK, PCs
    <3> QED
      BY <1>9, <2>2, <3>1 DEF Conflict, Verify, Recheck, TypeOK
  <2> QED
    BY <2>1, <2>2
<1>10. ASSUME NEW r \in Recorders, Crash(r) PROVE TypeOK'
  <2>1. inflight' \in SUBSET Requests
    BY <1>10, RequestTyped DEF Crash, TypeOK
  <2>2. pc' \in [Recorders -> PCs] /\ att' \in [Recorders -> Attempts]
    BY <1>10, GiveUpTyped DEF Crash
  <2>3. client' \in [Recorders -> Clients] /\ faults' \in [FaultKinds -> Nat]
    BY <1>10 DEF Crash, TypeOK, NewClient, Clients, FaultKinds
  <2> QED
    BY <1>10, <2>1, <2>2, <2>3 DEF Crash, TypeOK
<1>11. ASSUME LateLand PROVE TypeOK'
  <2>1. PICK q \in inflight : inflight' = inflight \ {q} /\ object' = Applied(q)
    BY <1>11 DEF LateLand
  <2>2. object' \in SUBSET Sessions /\ inflight' \in SUBSET Requests
    BY <2>1, AppliedTyped DEF TypeOK
  <2> QED
    BY <1>11, <2>2 DEF TypeOK, LateLand, attemptVars
<1> QED
  BY <1>0, <1>1, <1>2, <1>3, <1>4, <1>5, <1>6, <1>7, <1>8, <1>9, <1>10, <1>11 DEF Next

-----------------------------------------------------------------------------
\* Sending a request once more changes nothing that the request is made of.
LEMMA PutLostKeeps ==
  ASSUME TypeOK, NEW r \in Recorders, PutLost(r), ~GiveUp(r)
  PROVE  /\ pc' = pc /\ client' = client
         /\ \A x \in Recorders : /\ att'[x].group = att[x].group /\ att'[x].seen = att[x].seen
                                 /\ att'[x].header = att[x].header
<1>1. pc' = pc /\ client' = client
  BY DEF PutLost
<1>2. \/ att' = [att EXCEPT ![r].tries = @ + 1]
      \/ att' = [att EXCEPT ![r].tries = @ + 1, ![r].completed =
                              Multipart(Request(r).want) /\ Verdict(Request(r)) = "stored"]
  BY DEF PutLost
<1>3. att \in [Recorders -> Attempts]
  BY DEF TypeOK
<1>4. CASE att' = [att EXCEPT ![r].tries = @ + 1]
  BY <1>1, <1>3, <1>4 DEF Attempts
<1>5. CASE att' = [att EXCEPT ![r].tries = @ + 1, ![r].completed =
                              Multipart(Request(r).want) /\ Verdict(Request(r)) = "stored"]
  BY <1>1, <1>3, <1>5 DEF Attempts
<1> QED
  BY <1>2, <1>4, <1>5

\* Going idle asks nothing of an attempt; the other recorders' are unchanged.
LEMMA Invariance ==
  ASSUME TypeOK, AttemptsRight, NEW r \in Recorders, (MatchEnforced' <=> MatchEnforced),
         pc' \in [Recorders -> PCs],
         \A x \in Recorders \ {r} : pc'[x] = pc[x] /\ att'[x] = att[x] /\ client'[x] = client[x],
         pc'[r] = "idle"
  PROVE  AttemptsRight'
BY DEF AttemptsRight, Sound, Request, Want

LEMMA AttemptsStep == ASSUME IInv, [Next]_vars PROVE AttemptsRight'
<1> USE DEF IInv
<1>a. TypeOK' /\ endpoint' = endpoint /\ (MatchEnforced' <=> MatchEnforced)
  BY TypeStep, EndpointKept
<1>b. ASSUME NEW r \in Recorders, GiveUp(r), \A x \in Recorders \ {r} : client'[x] = client[x]
      PROVE  AttemptsRight'
  BY <1>a, <1>b, Invariance DEF GiveUp, Goto, TypeOK
<1>c. ASSUME NEW r \in Recorders, UNCHANGED att, UNCHANGED client, NEW where \in PCs, Goto(r, where),
             /\ where \in {"ask", "fetch", "recheck"} => att[r].header = "If-Match"
             /\ where = "fetch" => client[r].mergeable
             /\ where = "put" => Sound(Request(r))
             /\ where = "conflict" => att[r].header = "If-None-Match"
      PROVE  AttemptsRight'
  BY <1>a, <1>c DEF AttemptsRight, Goto, TypeOK, Sound, Request, Want
<1>0. CASE UNCHANGED <<pc, att, client>>
  BY <1>0, <1>a DEF AttemptsRight, Sound, Request, Want
<1>1. ASSUME NEW r \in Recorders, NEW s \in Sessions, Finish(r, s) PROVE AttemptsRight'
  BY <1>0, <1>1 DEF Finish, attemptVars
<1>2. ASSUME NEW r \in Recorders, Examine(r) PROVE AttemptsRight'
  <2>1. CASE UNCHANGED attemptVars
    BY <1>0, <1>2, <2>1 DEF Examine, attemptVars
  <2>2. ASSUME NEW h \in Headers \cup {"none"}, h # "If-Match",
               att' = [att EXCEPT ![r] = [Idle EXCEPT !.group = ready[r], !.header = h]], Goto(r, "put")
        PROVE  AttemptsRight'
    <3>1. att'[r].header = h /\ att'[r].seen = {} /\ pc'[r] = "put"
      BY <2>2 DEF TypeOK, Goto, Idle
    <3>2. Sound(Request(r))'
      BY <3>1, <2>2 DEF Sound, Request, Want
    <3>3. \A x \in Recorders \ {r} : pc'[x] = pc[x] /\ att'[x] = att[x] /\ client'[x] = client[x]
      BY <1>2, <2>2 DEF Goto, TypeOK, Examine
    <3> QED
      BY <3>1, <3>2, <3>3, <1>a DEF AttemptsRight, Sound, Request, Want
  <2>3. ASSUME att' = [att EXCEPT ![r] = [Idle EXCEPT !.group = ready[r], !.seen = object, !.header = "If-Match"]],
               Goto(r, "ask")
        PROVE  AttemptsRight'
    <3>1. att'[r].header = "If-Match" /\ pc'[r] = "ask"
      BY <2>3 DEF TypeOK, Goto, Idle
    <3>2. \A x \in Recorders \ {r} : pc'[x] = pc[x] /\ att'[x] = att[x] /\ client'[x] = client[x]
      BY <1>2, <2>3 DEF Goto, TypeOK, Examine
    <3> QED
      BY <3>1, <3>2, <1>a DEF AttemptsRight, Sound, Request, Want
  <2> QED
    BY <1>2, <2>1, <2>2, <2>3 DEF Examine, Headers
<1>3. ASSUME NEW r \in Recorders, Probe(r) PROVE AttemptsRight'
  <2>1. /\ pc' = pc /\ att' = att /\ ~client[r].mergeable
        /\ \A x \in Recorders \ {r} : client'[x] = client[x]
    BY <1>3 DEF Probe, attemptVars, TypeOK, ClientsRight
  <2> QED
    BY <2>1, <1>a DEF AttemptsRight, Sound, Request, Want
<1>4. ASSUME NEW r \in Recorders, Ask(r) PROVE AttemptsRight'
  BY <1>4, <1>b, <1>c DEF Ask, AttemptsRight, PCs
<1>5. ASSUME NEW r \in Recorders, Fetch(r) PROVE AttemptsRight'
  <2>1. att[r].header = "If-Match" /\ MatchEnforced
    BY <1>5 DEF Fetch, AttemptsRight, ClientsRight
  <2>2. Sound(Request(r))
    BY <2>1 DEF Sound, Request, Want
  <2> QED
    BY <1>5, <2>2, <1>b, <1>c DEF Fetch, PCs
<1>6. ASSUME NEW r \in Recorders, PutAnswered(r) PROVE AttemptsRight'
  <2>1. CASE Verdict(Request(r)) = "unsupported" /\ Request(r).header = "If-None-Match" /\ ~GiveUp(r)
    <3>1. /\ pc' = pc /\ pc[r] = "put"
          /\ att' = [att EXCEPT ![r].header = "none", ![r].tries = 0]
          /\ client' = [client EXCEPT ![r].conditional = FALSE]
      BY <1>6, <2>1 DEF PutAnswered
    <3>2. att[r].seen = {}
      BY <2>1, <3>1 DEF AttemptsRight, Sound, Request
    <3> QED
      BY <3>1, <3>2, <1>a DEF AttemptsRight, Sound, Request, Want, TypeOK, Attempts, Clients
  <2>2. CASE Verdict(Request(r)) = "stored" /\ ~GiveUp(r)
    BY <1>6, <2>2, <1>c DEF PutAnswered, PCs
  <2>3. CASE Verdict(Request(r)) = "refused" /\ ~GiveUp(r)
    BY <1>6, <2>3, <1>c DEF PutAnswered, PCs, Request
  <2>4. CASE GiveUp(r)
    BY <1>6, <2>4, <1>b DEF PutAnswered, TypeOK
  <2> QED
    BY <1>6, <2>1, <2>2, <2>3, <2>4 DEF PutAnswered
<1>7. ASSUME NEW r \in Recorders, PutLost(r) PROVE AttemptsRight'
  <2>1. CASE GiveUp(r)
    BY <1>7, <2>1, <1>b DEF PutLost
  <2>2. CASE ~GiveUp(r)
    <3>1. /\ pc' = pc /\ client' = client
          /\ \A x \in Recorders : /\ att'[x].group = att[x].group /\ att'[x].seen = att[x].seen
                                  /\ att'[x].header = att[x].header
      BY <1>7, <2>2, PutLostKeeps
    <3> QED
      BY <3>1, <1>a DEF AttemptsRight, Sound, Request, Want
  <2> QED
    BY <2>1, <2>2
<1>8. ASSUME NEW r \in Recorders, PutRepeated(r) PROVE AttemptsRight'
  BY <1>8, <1>b, <1>c DEF PutRepeated, PCs
<1>9. ASSUME NEW r \in Recorders, Conflict(r) \/ Verify(r) \/ Recheck(r) \/ AttemptFails(r) PROVE AttemptsRight'
  BY <1>9, <1>b, <1>c DEF Conflict, Verify, Recheck, AttemptFails, Complete, PCs
<1>10. ASSUME NEW r \in Recorders, Crash(r) PROVE AttemptsRight'
  BY <1>10, <1>b DEF Crash, TypeOK
<1>11. CASE LateLand
  BY <1>0, <1>11 DEF LateLand, attemptVars
<1> QED
  BY <1>0, <1>1, <1>2, <1>3, <1>4, <1>5, <1>6, <1>7, <1>8, <1>9, <1>10, <1>11 DEF Next, vars

LEMMA ClientsStep == ASSUME IInv, [Next]_vars PROVE ClientsRight'
<1> USE DEF IInv
<1>a. MatchEnforced' <=> MatchEnforced
  BY EndpointKept
<1>0. CASE UNCHANGED client
  BY <1>0, <1>a DEF ClientsRight
<1>1. ASSUME NEW r \in Recorders, Probe(r) PROVE ClientsRight'
  <2>1. client'[r].probed /\ (client'[r].mergeable => client[r].mergeable \/ Judged(r))
    BY <1>1 DEF Probe, TypeOK, Clients
  <2>2. Judged(r) => MatchEnforced
    BY DEF Judged, MatchEnforced
  <2> QED
    BY <1>1, <2>1, <2>2, <1>a DEF Probe, ClientsRight, TypeOK
<1>2. ASSUME NEW r \in Recorders, PutAnswered(r) PROVE ClientsRight'
  <2>1. \A x \in Recorders : client'[x].mergeable = client[x].mergeable /\ client'[x].probed = client[x].probed
    BY <1>2 DEF PutAnswered, TypeOK, Clients
  <2> QED
    BY <2>1, <1>a DEF ClientsRight
<1>3. ASSUME NEW r \in Recorders, Crash(r) PROVE ClientsRight'
  BY <1>3, <1>a DEF Crash, ClientsRight, TypeOK, NewClient
<1> QED
  BY <1>0, <1>1, <1>2, <1>3 DEF Next, vars, Finish, Examine, Ask, Fetch, PutLost, PutRepeated,
     Conflict, Verify, Recheck, AttemptFails, LateLand

\* Requests enter inflight only from an attempt that is sending them.
LEMMA InflightGrows ==
  ASSUME [Next]_vars
  PROVE  \A q \in inflight' : q \in inflight \/ \E r \in Recorders : pc[r] = "put" /\ q = Request(r)
BY DEF Next, vars, Finish, Examine, Probe, Ask, Fetch, PutAnswered, PutLost, PutRepeated,
       Conflict, Verify, Recheck, AttemptFails, Crash, LateLand

LEMMA RequestsStep == ASSUME IInv, [Next]_vars PROVE RequestsRight'
<1>1. \A q \in inflight' : Sound(q)
  BY InflightGrows DEF IInv, RequestsRight, AttemptsRight
<1> QED
  BY <1>1, EndpointKept DEF RequestsRight, Sound

\* A strict endpoint answers every conditional PUT with a verdict of its own.
LEMMA StrictVerdict ==
  ASSUME Strict, NEW q \in Requests, q.header # "none"
  PROVE  Verdict(q) = IF Holds(q) THEN "stored" ELSE "refused"
<1>1. q.header \in Headers /\ Multipart(q.want) \in BOOLEAN
  BY DEF Requests, Multipart
<1>2. Handling(q) = "enforces"
  BY <1>1 DEF Handling, Strict
<1> QED
  BY <1>2 DEF Verdict

LEMMA NeverBareStep == ASSUME IInv, [Next]_vars PROVE NeverBare'
<1> USE DEF IInv
<1> SUFFICES ASSUME Strict'
             PROVE  /\ \A r \in Recorders : client'[r].conditional /\ (pc'[r] = "put" => att'[r].header # "none")
                    /\ \A q \in inflight' : q.header # "none"
  BY DEF NeverBare
<1>a. Strict /\ ConditionalPut
  BY EndpointKept DEF Strict
<1>b. \A r \in Recorders : client[r].conditional /\ (pc[r] = "put" => att[r].header # "none")
  BY <1>a DEF NeverBare
<1>1. \A q \in inflight' : q.header # "none"
  BY <1>a, <1>b, InflightGrows DEF NeverBare, Request
<1>2. ASSUME NEW r \in Recorders, PutAnswered(r) PROVE Verdict(Request(r)) # "unsupported"
  BY <1>2, <1>a, <1>b, StrictVerdict, RequestTyped DEF PutAnswered, Request
<1>3. ASSUME NEW x \in Recorders PROVE client'[x].conditional
  <2>1. ASSUME NEW r \in Recorders, Probe(r) PROVE client'[x].conditional
    BY <2>1, <1>b DEF Probe, TypeOK, Clients
  <2>2. ASSUME NEW r \in Recorders, PutAnswered(r) PROVE client'[x].conditional
    BY <2>2, <1>2, <1>b DEF PutAnswered
  <2>3. ASSUME NEW r \in Recorders, Crash(r) PROVE client'[x].conditional
    BY <2>3, <1>a, <1>b DEF Crash, NewClient, TypeOK
  <2> QED
    BY <1>b, <2>1, <2>2, <2>3 DEF Next, vars, Finish, Examine, Ask, Fetch, PutLost, PutRepeated,
       Conflict, Verify, Recheck, AttemptFails, LateLand
<1>4. ASSUME NEW x \in Recorders, pc'[x] = "put" PROVE att'[x].header # "none"
  <2>1. CASE UNCHANGED <<pc, att>>
    BY <1>4, <1>b, <2>1
  <2>2. ASSUME NEW r \in Recorders, GiveUp(r) PROVE att'[x].header # "none"
    BY <1>4, <1>b, <2>2 DEF GiveUp, Goto, TypeOK
  <2>3. ASSUME NEW r \in Recorders, UNCHANGED att, NEW where \in PCs \ {"put"}, Goto(r, where)
        PROVE  att'[x].header # "none"
    BY <1>4, <1>b, <2>3 DEF Goto, TypeOK
  <2>4. ASSUME NEW r \in Recorders, Examine(r) PROVE att'[x].header # "none"
    <3>1. CASE UNCHANGED attemptVars
      BY <2>1, <3>1 DEF attemptVars
    <3>2. CASE Goto(r, "ask")
      BY <1>4, <1>b, <2>4, <3>2 DEF Examine, Goto, TypeOK, attemptVars
    <3>3. CASE att' = [att EXCEPT ![r] = [Idle EXCEPT !.group = ready[r], !.header = "If-None-Match"]] /\ Goto(r, "put")
      BY <1>4, <1>b, <3>3 DEF Goto, TypeOK, Idle
    <3> QED
      BY <1>b, <2>4, <3>1, <3>2, <3>3 DEF Examine
  <2>5. ASSUME NEW r \in Recorders, Ask(r) \/ PutRepeated(r) \/ Conflict(r) \/ Verify(r) \/ Recheck(r)
                                  \/ AttemptFails(r) \/ Crash(r)
        PROVE  att'[x].header # "none"
    BY <2>2, <2>3, <2>5 DEF Ask, PutRepeated, Conflict, Verify, Recheck, AttemptFails, Crash, Complete, PCs
  <2>6. ASSUME NEW r \in Recorders, Fetch(r) PROVE att'[x].header # "none"
    <3>1. att[r].header = "If-Match"
      BY <2>6 DEF Fetch, AttemptsRight
    <3> QED
      BY <1>4, <1>b, <2>2, <2>6, <3>1 DEF Fetch, Goto, TypeOK
  <2>7. ASSUME NEW r \in Recorders, PutAnswered(r) PROVE att'[x].header # "none"
    <3>1. Verdict(Request(r)) # "unsupported"
      BY <1>2, <2>7
    <3>2. \/ GiveUp(r)
          \/ UNCHANGED att /\ (Goto(r, "verify") \/ Goto(r, "conflict"))
      BY <2>7, <3>1 DEF PutAnswered
    <3> QED
      BY <2>2, <2>3, <3>2 DEF PCs
  <2>8. ASSUME NEW r \in Recorders, PutLost(r) PROVE att'[x].header # "none"
    <3>1. CASE GiveUp(r)
      BY <2>2, <3>1
    <3>2. CASE ~GiveUp(r)
      <4>1. pc' = pc /\ \A y \in Recorders : att'[y].header = att[y].header
        BY <2>8, <3>2, PutLostKeeps
      <4> QED
        BY <1>4, <1>b, <4>1
    <3> QED
      BY <3>1, <3>2
  <2> QED
    BY <2>1, <2>4, <2>5, <2>6, <2>7, <2>8 DEF Next, vars, Finish, Probe, LateLand, attemptVars
<1> QED
  BY <1>1, <1>3, <1>4

LEMMA IInvStep == ASSUME IInv, [Next]_vars PROVE IInv'
<1>1. TypeOK'
  BY TypeStep DEF IInv
<1> QED
  BY <1>1, AttemptsStep, ClientsStep, RequestsStep, NeverBareStep DEF IInv

LEMMA Invariant == Spec => []IInv
<1> QED
  BY InitIInv, IInvStep, PTL DEF Spec

-----------------------------------------------------------------------------
\* The client keeps its types, whatever the endpoint does.
THEOREM TypeCorrect == Spec => []TypeOK
<1>1. IInv => TypeOK
  BY DEF IInv
<1> QED
  BY <1>1, Invariant, PTL

\* What one request, sent or held up, may do to the object: grow it, unless the
\* endpoint lets a PUT for a new object through.
LEMMA AppliedGrows ==
  ASSUME IInv, NEW q \in Requests, Sound(q)
  PROVE  /\ q.header = "If-Match" => object \subseteq Applied(q)
         /\ Strict /\ q.header # "none" => object \subseteq Applied(q)
         /\ object # Applied(q) => Applied(q) = q.want
<1>1. q.header = "If-Match" => object \subseteq Applied(q)
  <2> SUFFICES ASSUME q.header = "If-Match" PROVE object \subseteq Applied(q)
    OBVIOUS
  <2>1. Handling(q) = "enforces"
    <3>1. Multipart(q.want) \in BOOLEAN /\ MatchEnforced
      BY DEF Multipart, Sound
    <3>2. endpoint["If-Match"][Multipart(q.want)] = "enforces"
      BY <3>1 DEF MatchEnforced
    <3> QED
      BY <3>2 DEF Handling
  <2> QED
    BY <2>1 DEF Applied, Verdict, Holds, Sound
<1>2. Strict /\ q.header # "none" => object \subseteq Applied(q)
  BY StrictVerdict DEF Applied, Holds, Sound
<1> QED
  BY <1>1, <1>2 DEF Applied

\* Where the object comes from: one outstanding request was applied.
LEMMA ObjectSteps ==
  ASSUME IInv, [Next]_vars, object' # object
  PROVE  \E q \in Outstanding : q \in Requests /\ Sound(q) /\ object' = Applied(q)
<1> USE DEF IInv
<1>1. ASSUME NEW r \in Recorders, PutAnswered(r) \/ PutLost(r)
      PROVE  \E q \in Outstanding : q \in Requests /\ Sound(q) /\ object' = Applied(q)
  <2>1. pc[r] = "put" /\ ~att[r].completed /\ object' = Applied(Request(r))
    BY <1>1 DEF PutAnswered, PutLost
  <2>2. Request(r) \in Outstanding
    BY <2>1 DEF Outstanding
  <2>3. Request(r) \in Requests /\ Sound(Request(r))
    BY <2>1, RequestTyped DEF AttemptsRight
  <2> QED
    BY <2>1, <2>2, <2>3
<1>2. ASSUME LateLand
      PROVE  \E q \in Outstanding : q \in Requests /\ Sound(q) /\ object' = Applied(q)
  BY <1>2 DEF LateLand, Outstanding, TypeOK, RequestsRight
<1> QED
  BY <1>1, <1>2 DEF Next, vars, Finish, Examine, Probe, Ask, Fetch, PutRepeated,
     Conflict, Verify, Recheck, AttemptFails, Crash

\* On any endpoint a merge never discards audio (s3.go:159, probe and If-Match
\* together): a session leaves the object only by a PUT for a new object.
THEOREM MergesNeverDiscardHolds == Spec => MergesNeverDiscard
<1>1. ASSUME IInv, [Next]_vars
      PROVE  \/ object \subseteq object'
             \/ \E q \in Outstanding : q.header # "If-Match" /\ q.want = object'
  <2>1. CASE object' = object
    BY <2>1
  <2>2. CASE object' # object
    <3>1. PICK q \in Outstanding : q \in Requests /\ Sound(q) /\ object' = Applied(q)
      BY <1>1, <2>2, ObjectSteps
    <3> QED
      BY <1>1, <2>2, <3>1, AppliedGrows
  <2> QED
    BY <2>1, <2>2
<1> QED
  BY <1>1, Invariant, PTL DEF Spec, MergesNeverDiscard

\* What recording a group as uploaded does to the sessions told so far.
LEMMA CompleteTells ==
  ASSUME IInv, NEW r \in Recorders, NEW G \in SUBSET Sessions,
         done' = [done EXCEPT ![r] = @ \cup G]
  PROVE  Told' = Told \cup G
BY DEF Told, IInv, TypeOK

\* The client implements what the upload path relies on.
THEOREM Refinement == Spec => ImplementsGrowingObject
<1> USE DEF Promise!Write, Promise!Report
<1>1. Init => Promise!Init
  <2> SUFFICES ASSUME Init PROVE Promise!Init
    OBVIOUS
  <2>1. Strict \in BOOLEAN
    BY DEF Strict
  <2>2. object = {} /\ Told = {}
    BY DEF Init, Told
  <2> QED
    BY <2>1, <2>2 DEF Promise!Init
<1>2. ASSUME IInv, [Next]_vars PROVE [Promise!Next]_Promise!vars
  <2> USE <1>2
  <2>1. Strict' <=> Strict
    BY EndpointKept
  <2>a. Strict' = Strict
    BY <2>1 DEF Strict
  <2>2. CASE object' # object
    <3>1. PICK q \in Outstanding : q \in Requests /\ Sound(q) /\ object' = Applied(q)
      BY <2>2, ObjectSteps
    <3>2. Strict => q.header # "none"
      BY <3>1 DEF IInv, NeverBare, Outstanding, Request
    <3>3. Strict => object \subseteq object'
      BY <3>1, <3>2, AppliedGrows
    <3>4. done' = done
      BY <2>2 DEF Next, vars, Finish, Examine, Probe, Ask, Fetch, PutAnswered, PutLost, PutRepeated,
                  Conflict, Verify, Recheck, AttemptFails, Crash, LateLand
    <3>5. Told' = Told
      BY <3>4 DEF Told
    <3>6. object' \in SUBSET Sessions
      BY <3>1, AppliedTyped DEF IInv
    <3>7. Promise!Write(object')
      BY <2>a, <3>3, <3>5
    <3> QED
      BY <3>6, <3>7 DEF Promise!Next
  <2>3. CASE object' = object /\ done' = done
    <3>1. Told' = Told
      BY <2>3 DEF Told
    <3> QED
      BY <2>a, <2>3, <3>1 DEF Promise!vars
  <2>4. CASE object' = object /\ done' # done
    <3>1. PICK r \in Recorders : Examine(r) \/ Conflict(r) \/ Verify(r) \/ Recheck(r)
      BY <2>4 DEF Next, vars, Finish, Probe, Ask, Fetch, PutAnswered, PutLost, PutRepeated,
                  AttemptFails, Crash, LateLand
    <3>2. \E G \in SUBSET Sessions : G \subseteq object /\ done' = [done EXCEPT ![r] = @ \cup G]
      <4>1. CASE Examine(r)
        BY <2>4, <4>1 DEF Examine, IInv, TypeOK
      <4>2. CASE Recheck(r)
        <5>1. object = Want(r) /\ done' = [done EXCEPT ![r] = @ \cup att[r].group]
          BY <2>4, <4>2 DEF Recheck, Complete
        <5> QED
          BY <5>1 DEF Want, IInv, TypeOK, Attempts
      <4>3. CASE Conflict(r) \/ Verify(r)
        <5>1. Size[object] = Size[Want(r)] /\ done' = [done EXCEPT ![r] = @ \cup att[r].group]
          BY <2>4, <4>3 DEF Conflict, Verify, Complete
        <5>2. object = Want(r)
          BY <5>1, SizeAssumption, RequestTyped DEF IInv, TypeOK
        <5> QED
          BY <5>1, <5>2 DEF Want, IInv, TypeOK, Attempts
      <4> QED
        BY <3>1, <4>1, <4>2, <4>3
    <3>3. PICK G \in SUBSET Sessions : G \subseteq object /\ Told' = Told \cup G
      BY <3>2, CompleteTells
    <3>4. Promise!Report(G)
      BY <2>a, <2>4, <3>3
    <3> QED
      BY <3>4 DEF Promise!Next
  <2> QED
    BY <2>2, <2>3, <2>4
<1> QED
  BY <1>1, <1>2, Invariant, PTL DEF Spec, ImplementsGrowingObject, Promise!Spec

-----------------------------------------------------------------------------
\* What the promise is worth: on a strict endpoint a session recorded as
\* uploaded is in the object, and stays there.
AudioKept == Strict => Told \subseteq object

\* Once every precondition is enforced, nothing recorded as uploaded is ever
\* missing from the object, for any number of recorders, losses and restarts.
THEOREM AudioKeptHolds == Spec => []AudioKept
<1>1. Init => AudioKept
  BY DEF Init, AudioKept, Told
<1>2. ASSUME AudioKept, [Promise!Next]_Promise!vars PROVE AudioKept'
  BY <1>2 DEF AudioKept, Promise!Next, Promise!Write, Promise!Report, Promise!vars
<1> QED
  BY <1>1, <1>2, Refinement, PTL DEF Spec, ImplementsGrowingObject, Promise!Spec
=============================================================================
