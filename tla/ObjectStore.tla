----------------------------- MODULE ObjectStore -----------------------------
(***************************************************************************)
(* The object store client (internal/storage/s3.go) with the attempt of    *)
(* the upload path that drives it, at one object key: HEAD, the choice     *)
(* between a new object (If-None-Match) and a merge (If-Match), the probe  *)
(* for conditional writes, the SDK's own retries of a PUT, the reading of  *)
(* its answer and the verification behind it.  Several recorder processes  *)
(* may write to the key; the endpoint may enforce a precondition, ignore   *)
(* it or answer NotImplemented, separately for each header and for the     *)
(* single-part PUT and CompleteMultipartUpload; a request or its answer    *)
(* may be lost, or the request applied after its sender gave up.           *)
(*                                                                         *)
(* An object is the set of sessions it holds, {} is "no such object", and  *)
(* an ETag identifies it.  All recorders work for one recording; objects   *)
(* of others, and what renameGroup does after it left the key, are in      *)
(* Upload.  Parts of multipart uploads are not modelled, only the request  *)
(* that completes them.                                                    *)
(***************************************************************************)
EXTENDS Naturals, FiniteSets

CONSTANTS Recorders,     \* recorder processes that use the key
          Sessions,
          Owner,         \* Owner[s]: the recorder that captured session s
          Size,          \* Size[S]: bytes of the object that holds the sessions S
          PartSize,      \* UPLOAD_PART_SIZE: larger objects are sent in parts
          ConditionalPut,\* S3_CONDITIONAL_PUT
          Endpoints,     \* the endpoints to consider
          MaxTries,      \* the SDK's attempts at one request
          Faults         \* bounds: how often each kind of fault may happen

Headers == {"If-None-Match", "If-Match"}
Handlings == {"enforces", "ignores", "NotImplemented"}
FaultKinds == {"lost", "outage", "crash"}

ASSUME OwnerAssumption    == Owner \in [Sessions -> Recorders]
ASSUME SizeAssumption     == /\ Size \in [SUBSET Sessions -> Nat]
                             /\ \A S, T \in SUBSET Sessions : Size[S] = Size[T] => S = T
ASSUME LimitsAssumption   == {PartSize, MaxTries} \subseteq Nat
ASSUME SwitchAssumption   == ConditionalPut \in BOOLEAN
ASSUME EndpointAssumption == Endpoints \subseteq [Headers -> [BOOLEAN -> Handlings]]
ASSUME FaultsAssumption   == Faults \in [FaultKinds -> Nat]

VARIABLES endpoint,   \* endpoint[h][multipart]: what it does with header h
          object,     \* the sessions the object under the key holds
          inflight,   \* requests whose sender gave up and that may still be applied
          ready,      \* finished sessions waiting for an upload, by recorder
          done,       \* sessions recorded as uploaded under this key, by recorder
          left,       \* sessions that renameGroup took to another key
          pc,         \* where each recorder's attempt is
          att,        \* the attempt's locals
          client,     \* each process's S3 client: conditional, probed, mergeable
          faults      \* faults left, by kind

attemptVars == <<pc, att>>
vars == <<endpoint, object, inflight, ready, done, left, pc, att, client, faults>>

-----------------------------------------------------------------------------
PCs == {"idle", "ask", "fetch", "put", "conflict", "verify", "recheck"}
Idle == [group |-> {}, seen |-> {}, header |-> "none", tries |-> 0, completed |-> FALSE]
Attempts == [group : SUBSET Sessions, seen : SUBSET Sessions,
             header : Headers \cup {"none"}, tries : 0 .. MaxTries, completed : BOOLEAN]
NewClient == [conditional |-> ConditionalPut, probed |-> FALSE, mergeable |-> FALSE]
Clients == [conditional : BOOLEAN, probed : BOOLEAN, mergeable : BOOLEAN]
Requests == [want : SUBSET Sessions, seen : SUBSET Sessions, header : Headers \cup {"none"}]

Init == /\ endpoint \in Endpoints
        /\ object = {}
        /\ inflight = {}
        /\ ready = [r \in Recorders |-> {}]
        /\ done = [r \in Recorders |-> {}]
        /\ left = {}
        /\ pc = [r \in Recorders |-> "idle"]
        /\ att = [r \in Recorders |-> Idle]
        /\ client = [r \in Recorders |-> NewClient]
        /\ faults = Faults

\* What the attempt stores: the object it saw with its own sessions appended.
Want(r) == att[r].seen \cup att[r].group
Request(r) == [want |-> Want(r), seen |-> att[r].seen, header |-> att[r].header]

\* The uploader sends objects beyond one part as a multipart upload.
Multipart(S) == Size[S] > PartSize

\* The endpoint's side of a PUT (external): what becomes of request q.
Holds(q) == IF q.header = "If-None-Match" THEN object = {} ELSE object = q.seen
Handling(q) == IF q.header = "none" THEN "ignores" ELSE endpoint[q.header][Multipart(q.want)]
Verdict(q) == CASE Handling(q) = "ignores" -> "stored"
                [] Handling(q) = "NotImplemented" -> "unsupported"
                [] OTHER -> IF Holds(q) THEN "stored" ELSE "refused"
Applied(q) == IF Verdict(q) = "stored" THEN q.want ELSE object

Goto(r, where) == pc' = [pc EXCEPT ![r] = where]

\* The attempt is over, one way or the other.
GiveUp(r) == /\ Goto(r, "idle")
             /\ att' = [att EXCEPT ![r] = Idle]

\* completeGroup: the group is recorded as uploaded.
Complete(r) == /\ GiveUp(r)
               /\ done' = [done EXCEPT ![r] = @ \cup att[r].group]
               /\ ready' = [ready EXCEPT ![r] = @ \ att[r].group]

-----------------------------------------------------------------------------
\* A capture ends: its session waits for an upload.
Finish(r, s) ==
  /\ Owner[s] = r
  /\ s \notin ready[r] \cup done[r] \cup left
  /\ ready' = [ready EXCEPT ![r] = @ \cup {s}]
  /\ UNCHANGED <<endpoint, left, object, inflight, done, attemptVars, client, faults>>

\* uploadOnce up to the decision: claim the group, HEAD the key.  Everything
\* stored: converge.  No object: store a new one, conditionally unless that is
\* switched off.  Otherwise merge, if the probe allows it.
Examine(r) ==
  /\ pc[r] = "idle"
  /\ ready[r] # {}
  /\ \/ /\ ready[r] \subseteq object
        /\ done' = [done EXCEPT ![r] = @ \cup ready[r]]
        /\ ready' = [ready EXCEPT ![r] = {}]
        /\ UNCHANGED attemptVars
     \/ /\ object = {}
        /\ att' = [att EXCEPT ![r] = [Idle EXCEPT !.group = ready[r],
                     !.header = IF client[r].conditional THEN "If-None-Match" ELSE "none"]]
        /\ Goto(r, "put")
        /\ UNCHANGED <<ready, done>>
     \/ /\ object # {} /\ ~(ready[r] \subseteq object)
        /\ att' = [att EXCEPT ![r] = [Idle EXCEPT !.group = ready[r], !.seen = object,
                                                  !.header = "If-Match"]]
        /\ Goto(r, "ask")
        /\ UNCHANGED <<ready, done>>
  /\ UNCHANGED <<endpoint, left, object, inflight, client, faults>>

\* Mutant: If-Match is probed on the single-part PUT only.
JudgedSingle(r) == client[r].conditional /\ endpoint["If-None-Match"][FALSE] = "enforces"
                   /\ endpoint["If-Match"][FALSE] = "enforces"

\* probeConditionalWrites: two PUTs and one CompleteMultipartUpload that must
\* be refused.  (If-None-Match is not tried on CompleteMultipartUpload.)
Judged(r) == /\ client[r].conditional
             /\ endpoint["If-None-Match"][FALSE] = "enforces"
             /\ endpoint["If-Match"][FALSE] = "enforces"
             /\ endpoint["If-Match"][TRUE] = "enforces"

\* ConditionalWrites, at startup or before the first merge: the answer is kept
\* for the life of the process.  A failure of the probe's first PUT keeps
\* nothing; one of its later requests is taken for a header not enforced.
Probe(r) ==
  /\ ~client[r].probed
  /\ \/ /\ client' = [client EXCEPT ![r].probed = TRUE, ![r].mergeable = Judged(r)]
        /\ UNCHANGED faults
     \/ /\ faults["outage"] > 0
        /\ client[r].conditional
        /\ client' = [client EXCEPT ![r].probed = TRUE]
        /\ faults' = [faults EXCEPT !["outage"] = @ - 1]
  /\ UNCHANGED <<endpoint, left, object, inflight, ready, done, attemptVars>>

\* Manager.conditionalWrites: without enforced preconditions renameGroup takes
\* the group to another key.
Ask(r) ==
  /\ pc[r] = "ask"
  /\ client[r].probed
  /\ \/ /\ client[r].mergeable
        /\ Goto(r, "fetch")
        /\ UNCHANGED <<att, ready, left>>
     \/ /\ ~client[r].mergeable
        /\ ready' = [ready EXCEPT ![r] = @ \ att[r].group]
        /\ left' = left \cup att[r].group
        /\ GiveUp(r)
  /\ UNCHANGED <<endpoint, object, inflight, done, client, faults>>

\* Download with If-Match: another object than the HEAD saw ends the attempt.
Fetch(r) ==
  /\ pc[r] = "fetch"
  /\ IF object = att[r].seen THEN Goto(r, "put") /\ UNCHANGED att ELSE GiveUp(r)
  /\ UNCHANGED <<endpoint, left, object, inflight, ready, done, client, faults>>

\* S3.Upload: the request is carried out and answered.  NotImplemented for
\* If-None-Match switches conditional puts off for the process and repeats the
\* PUT without; for If-Match it ends the attempt, as does a changed object.
PutAnswered(r) ==
  /\ pc[r] = "put"
  /\ ~att[r].completed
  /\ LET q == Request(r)
     IN /\ object' = Applied(q)
        /\ \/ /\ Verdict(q) = "stored"
              /\ Goto(r, "verify")
              /\ UNCHANGED <<att, client>>
           \/ /\ Verdict(q) = "refused"
              /\ IF q.header = "If-None-Match" THEN Goto(r, "conflict") /\ UNCHANGED att
                                               ELSE GiveUp(r)
              /\ UNCHANGED client
           \/ /\ Verdict(q) = "unsupported" /\ q.header = "If-None-Match"
              /\ client' = [client EXCEPT ![r].conditional = FALSE]
              /\ att' = [att EXCEPT ![r].header = "none", ![r].tries = 0]
              /\ UNCHANGED pc
           \/ /\ Verdict(q) = "unsupported"   \* or its text does not say why
              /\ GiveUp(r)
              /\ UNCHANGED client
  /\ UNCHANGED <<endpoint, left, inflight, ready, done, faults>>

\* The request is applied, or held up and perhaps never applied, and no answer
\* comes; the SDK tries again until it runs out of attempts.  The requests that
\* complete one multipart upload complete it once.
PutLost(r) ==
  /\ pc[r] = "put"
  /\ ~att[r].completed
  /\ faults["lost"] > 0
  /\ faults' = [faults EXCEPT !["lost"] = @ - 1]
  /\ LET q == Request(r)
         again == att[r].tries < MaxTries
     IN \/ /\ object' = Applied(q)
           /\ IF again THEN /\ att' = [att EXCEPT ![r].tries = @ + 1,
                                      ![r].completed = Multipart(q.want) /\ Verdict(q) = "stored"]
                            /\ UNCHANGED pc
                       ELSE GiveUp(r)
           /\ UNCHANGED inflight
        \/ /\ inflight' = inflight \cup {q}
           /\ IF again /\ ~Multipart(q.want)
                THEN att' = [att EXCEPT ![r].tries = @ + 1] /\ UNCHANGED pc
                ELSE GiveUp(r)
           /\ UNCHANGED object
  /\ UNCHANGED <<endpoint, left, ready, done, client>>

\* Repeating a CompleteMultipartUpload that was carried out: the endpoint says
\* NoSuchUpload, or repeats its answer.
PutRepeated(r) ==
  /\ pc[r] = "put"
  /\ att[r].completed
  /\ GiveUp(r) \/ (Goto(r, "verify") /\ UNCHANGED att)
  /\ UNCHANGED <<endpoint, left, object, inflight, ready, done, client, faults>>

\* After a refused If-None-Match: an object of exactly this size is taken for
\* this recorder's own earlier upload, any other is ErrObjectExists.
Conflict(r) ==
  /\ pc[r] = "conflict"
  /\ \/ /\ Size[object] = Size[Want(r)]
        /\ Complete(r)
     \/ /\ Size[object] # Size[Want(r)]
        /\ GiveUp(r)
        /\ UNCHANGED <<ready, done>>
  /\ UNCHANGED <<endpoint, left, object, inflight, client, faults>>

\* Mutant: what was answered 200 is not looked at again.
VerifyNot(r) ==
  /\ pc[r] = "verify"
  /\ Complete(r)
  /\ UNCHANGED <<endpoint, left, object, inflight, client, faults>>

\* S3.Upload confirms the stored size before it reports success ...
Verify(r) ==
  /\ pc[r] = "verify"
  /\ \/ /\ Size[object] = Size[Want(r)]
        /\ att[r].header = "If-Match"
        /\ Goto(r, "recheck")
        /\ UNCHANGED <<att, ready, done>>
     \/ /\ Size[object] = Size[Want(r)]
        /\ att[r].header # "If-Match"
        /\ Complete(r)
     \/ /\ Size[object] # Size[Want(r)]
        /\ GiveUp(r)
        /\ UNCHANGED <<ready, done>>
  /\ UNCHANGED <<endpoint, left, object, inflight, client, faults>>

\* ... and putObject reads a replaced object's size and ETag once more.
Recheck(r) ==
  /\ pc[r] = "recheck"
  /\ \/ /\ object = Want(r)
        /\ Complete(r)
     \/ /\ object # Want(r)
        /\ GiveUp(r)
        /\ UNCHANGED <<ready, done>>
  /\ UNCHANGED <<endpoint, left, object, inflight, client, faults>>

\* HEAD, download or verification fail, or the attempt is cancelled.
AttemptFails(r) ==
  /\ pc[r] \in {"ask", "fetch", "conflict", "verify", "recheck"}
  /\ GiveUp(r)
  /\ UNCHANGED <<endpoint, left, object, inflight, ready, done, client, faults>>

\* The process dies, in the middle of a PUT perhaps, and starts again.
Crash(r) ==
  /\ faults["crash"] > 0
  /\ faults' = [faults EXCEPT !["crash"] = @ - 1]
  /\ inflight' \in {inflight} \cup (IF pc[r] = "put" /\ ~att[r].completed THEN {inflight \cup {Request(r)}} ELSE {})
  /\ GiveUp(r)
  /\ client' = [client EXCEPT ![r] = NewClient]
  /\ UNCHANGED <<endpoint, left, object, ready, done>>

\* A request that nobody waits for is applied (external).
LateLand ==
  \E q \in inflight :
    /\ inflight' = inflight \ {q}
    /\ object' = Applied(q)
    /\ UNCHANGED <<endpoint, left, ready, done, attemptVars, client, faults>>

Next == \/ \E r \in Recorders :
             \/ \E s \in Sessions : Finish(r, s)
             \/ Examine(r) \/ Probe(r) \/ Ask(r) \/ Fetch(r)
             \/ PutAnswered(r) \/ PutLost(r) \/ PutRepeated(r) \/ Conflict(r) \/ Verify(r) \/ Recheck(r)
             \/ AttemptFails(r) \/ Crash(r)
        \/ LateLand

Spec == Init /\ [][Next]_vars

-----------------------------------------------------------------------------
TypeOK ==
  /\ endpoint \in Endpoints
  /\ object \in SUBSET Sessions
  /\ inflight \in SUBSET Requests
  /\ ready \in [Recorders -> SUBSET Sessions]
  /\ done \in [Recorders -> SUBSET Sessions]
  /\ left \in SUBSET Sessions
  /\ pc \in [Recorders -> PCs]
  /\ att \in [Recorders -> Attempts]
  /\ client \in [Recorders -> Clients]
  /\ faults \in [FaultKinds -> Nat]

\* The endpoint enforces every precondition, and they are sent.
Strict == ConditionalPut /\ \A h \in Headers, m \in BOOLEAN : endpoint[h][m] = "enforces"
Told == UNION {done[r] : r \in Recorders}

\* S3.Upload, its probe and the recorder around it keep the promise: where the
\* endpoint is strict the object only grows, whatever is lost, delayed or
\* retried, and on any endpoint nothing is recorded as uploaded unless it is in
\* the object at that moment.
Promise == INSTANCE GrowingObject WITH strict <- Strict, told <- Told
ImplementsGrowingObject == Promise!Spec

\* Requests that may be applied in the next step.
Outstanding == inflight \cup {Request(r) : r \in {x \in Recorders : pc[x] = "put" /\ ~att[x].completed}}

\* On any endpoint, probed at any moment and with any mixture of what it
\* enforces: a merge never discards audio.  If a session leaves the object, a
\* PUT that was meant to create the object did it.
MergesNeverDiscard ==
  [][object \subseteq object' \/ \E q \in Outstanding : q.header # "If-Match" /\ q.want = object']_vars
=============================================================================
