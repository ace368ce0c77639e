------------------------------- MODULE Upload -------------------------------
(***************************************************************************)
(* The upload path of one recording (internal/recorder/upload.go): every   *)
(* finished session has an upload loop; loops of sessions that share an    *)
(* object key are serialised by the key's mutex, take a worker slot, claim *)
(* the whole group of sessions waiting for that key, compare it with the   *)
(* object in the bucket, and store what is missing as one object.  Only    *)
(* after a session's own sidecar durably says "uploaded" is its capture    *)
(* deleted.  The process may crash or shut down anywhere; the store may    *)
(* answer with an error although it applied a write, or apply it late;     *)
(* sidecar writes may fail; somebody else may write to the bucket.         *)
(*                                                                         *)
(* Data is abstracted to what the decisions look at.  A session is its     *)
(* number in order of SessionStart.  An object is who wrote it and the     *)
(* sequence of batches of sessions it holds: one batch per PUT, and inside *)
(* a batch the sessions are in capture order because claimGroup sorts the  *)
(* group.  An ETag and a size identify that content.  An object key is its *)
(* extension and the set of "-n" suffixes renameGroup appended, which only *)
(* ever grow.  The video companion and the .json document are not part of  *)
(* this module.                                                            *)
(***************************************************************************)
EXTENDS Integers, Sequences, FiniteSets

CONSTANTS Sessions,          \* session numbers, in order of SessionStart
          Kind,              \* Kind[s]: what s captured: audio, junk bytes, nothing
          Workers,           \* UPLOAD_CONCURRENCY
          CondWrites,        \* the endpoint enforces If-Match / If-None-Match
          RemuxMayFail,      \* ffmpeg may refuse the input
          MaxParts,          \* maxPartsPerObject
          MaxRemuxFailures,  \* maxRemuxFailures
          MaxKeyRenames,     \* maxKeyRenames
          MaxImmediate,      \* maxImmediateRetries
          Faults,            \* bounds: the mixes of faults that may happen
          Nobody

Kinds == {"audio", "junk", "empty"}
FaultKinds == {"crash", "shutdown", "sidecar", "late", "foreign"}

ASSUME SessionsAssumption == Sessions \subseteq Nat /\ IsFiniteSet(Sessions) /\ Nobody \notin Sessions
ASSUME KindAssumption     == Kind \in [Sessions -> Kinds]
ASSUME LimitsAssumption   == {Workers, MaxParts, MaxRemuxFailures, MaxKeyRenames, MaxImmediate} \subseteq Nat
ASSUME SwitchAssumption   == {CondWrites, RemuxMayFail} \subseteq BOOLEAN
ASSUME FaultsAssumption   == Faults \subseteq [FaultKinds -> Nat]

VARIABLES mem,       \* Manager.sessions: state, key and rename count of each session
          disk,      \* the sidecars: the same fields as last written
          file,      \* the capture files
          bucket,    \* the objects, by key
          inflight,  \* PUTs the client gave up on that may still be applied
          pc,        \* where each session's upload loop is
          att,       \* the loop's current attempt (locals of uploadOnce)
          imm,       \* uploadLoop's consecutive immediate retries
          holder,    \* who holds each key's mutex (see KeyMutex)
          remuxFailures,  \* Manager.remuxFailures
          phase,     \* up, draining (shuttingDown), cancelled (uploadCancel called)
          faults     \* faults left, by kind

vars == <<mem, disk, file, bucket, inflight, pc, att, imm, holder, remuxFailures, phase, faults>>
storeVars == <<bucket, inflight>>

-----------------------------------------------------------------------------
Keys == [ext : {"m4a", "aac"}, sfx : SUBSET (2 .. MaxKeyRenames + 1)]
BaseKey == [ext |-> "m4a", sfx |-> {}]
FallbackKey(k) == [k EXCEPT !.ext = "aac"]
WithSuffix(k, n) == [k EXCEPT !.sfx = @ \cup {n}]

\* "none": not started yet, "gone": forgotten by retention.
SessionStates == {"none", "recording", "finalized", "uploading", "uploaded", "failed", "gone"}
SessionRecords == [state : SessionStates, key : Keys, renames : 0 .. MaxKeyRenames]
Known == {s \in Sessions : mem[s].state \notin {"none", "gone"}}
Terminal == {"uploaded", "failed"}

\* Objects: "us" carries this recording's manifest, "foreign" none or another
\* recording's, "corrupt" a manifest whose parts count contradicts its list.
Writers == {"none", "us", "foreign", "corrupt"}
Objects == [by : Writers, parts : Seq(SUBSET Sessions)]
Absent == [by |-> "none", parts |-> <<>>]
Held(o) == UNION {o.parts[i] : i \in DOMAIN o.parts}
StoredAt(s, k) == bucket[k].by = "us" /\ s \in Held(bucket[k])
Stored(s) == \E k \in Keys : StoredAt(s, k)

\* Mutant: a merge that forgets what the object already held.
BuiltAfresh(remote, add) == [by |-> "us", parts |-> <<add>>]

\* A new object, or a merge: the stored object's parts with the new sessions
\* appended.
Built(remote, add) == [by |-> "us", parts |-> Append(remote.parts, add)]

\* How an attempt ends: done, a sibling still records, the object moved, an error
\* to retry after a backoff, a PermanentError to retry every 15 minutes.
Outcomes == {"nil", "deferred", "again", "retry", "permanent"}
Idle == [key |-> BaseKey, dest |-> BaseKey, group |-> {}, add |-> {}, done |-> {},
         remote |-> Absent, todo |-> {}, cur |-> Nobody, lost |-> FALSE, err |-> "nil"]
Attempts == [key : Keys, dest : Keys, group : SUBSET Sessions, add : SUBSET Sessions,
             done : SUBSET Sessions, remote : Objects, todo : SUBSET Sessions,
             cur : Sessions \cup {Nobody}, lost : BOOLEAN, err : Outcomes]
PCs == {"off", "start", "lock", "slot", "claim", "examine", "build", "put", "fbhead", "fbput",
        "record", "remove", "unlock", "outcome"}
\* Holding the key's mutex; holding a worker slot.
Locked == PCs \ {"off", "start", "lock", "outcome"}
Working == Locked \ {"slot"}
\* Between claimGroup and the attempt's last request to the store.
Attempting == {"examine", "build", "put", "fbhead", "fbput"}

Init == /\ mem = [s \in Sessions |-> [state |-> "none", key |-> BaseKey, renames |-> 0]]
        /\ disk = mem
        /\ file = [s \in Sessions |-> "none"]
        /\ bucket = [k \in Keys |-> Absent]
        /\ inflight = {}
        /\ pc = [s \in Sessions |-> "off"]
        /\ att = [s \in Sessions |-> Idle]
        /\ imm = [s \in Sessions |-> 0]
        /\ holder = [k \in Keys |-> Nobody]
        /\ remuxFailures = [k \in Keys |-> 0]
        /\ phase = "up"
        /\ faults \in Faults

-----------------------------------------------------------------------------
\* Helpers shared by the actions.

\* save() of the sessions in S after mem changed.  The callers ignore or only
\* log its error, so a failing write leaves the old sidecar behind.
Save(S) ==
  \E W \in SUBSET S :
    /\ W # S => faults["sidecar"] > 0
    /\ disk' = [s \in Sessions |-> IF s \in W THEN mem'[s] ELSE disk[s]]
    /\ faults' = IF W = S THEN faults ELSE [faults EXCEPT !["sidecar"] = @ - 1]

SetState(S, state) == [s \in Sessions |-> IF s \in S THEN [mem[s] EXCEPT !.state = state] ELSE mem[s]]

\* End of the attempt: the outcome is handled once slot and mutex are free.
Return(s, err) == /\ pc' = [pc EXCEPT ![s] = "unlock"]
                  /\ att' = [att EXCEPT ![s].err = err]

\* failMember for every session in F, then return err.
FailThenReturn(s, F, err) ==
  /\ mem' = SetState(F, "failed")
  /\ Save(F)
  /\ Return(s, err)
  /\ UNCHANGED remuxFailures

\* renameGroup: the whole group moves to the next "-n" key, unless it has
\* moved too often (a PermanentError; the members failed before stay failed).
RenameGroup(s, F) ==
  LET g == att[s].group
  IN \E r \in {mem[x].renames : x \in g} :
       /\ \A x \in g : mem[x].renames <= r
       /\ \/ /\ r >= MaxKeyRenames
             /\ FailThenReturn(s, F, "permanent")
          \/ /\ r < MaxKeyRenames
             /\ mem' = [x \in Sessions |->
                          IF x \in g THEN [state |-> "finalized", renames |-> r + 1,
                                           key |-> WithSuffix(att[s].key, r + 2)]
                                     ELSE mem[x]]
             /\ Save(g)
             /\ remuxFailures' = [remuxFailures EXCEPT ![att[s].key] = 0]
             /\ Return(s, "again")

\* completeGroup, first half (under Manager.mu): every member is uploaded under
\* dest, the sessions in F have failed before.  The members' sidecars are
\* written afterwards, one by one.
CompleteGroup(s, members, dest, F) ==
  /\ mem' = [x \in Sessions |->
               IF x \in members THEN [mem[x] EXCEPT !.state = "uploaded", !.key = dest]
                                ELSE SetState(F, "failed")[x]]
  /\ Save(F)
  /\ remuxFailures' = [remuxFailures EXCEPT ![att[s].key] = 0, ![dest] = 0]
  /\ att' = [att EXCEPT ![s].todo = members, ![s].dest = dest]
  /\ pc' = [pc EXCEPT ![s] = "record"]

-----------------------------------------------------------------------------
\* Capturing: the part of the lifecycle that decides which sessions share a
\* key.  Sessions overlap while an older one is still being stopped.

\* startSessionLocked with keyForLocked: the newest known session of the
\* recording whose key names an .m4a lends its key and its rename count.
StartSession(s) ==
  /\ phase = "up"
  /\ mem[s].state = "none"
  /\ \A o \in Sessions : o < s => mem[o].state # "none"
  /\ \E pin \in SessionRecords :
       /\ \/ /\ \A o \in Known : mem[o].key.ext # "m4a"
             /\ pin = [state |-> "recording", key |-> BaseKey, renames |-> 0]
          \/ \E o \in Known :
               /\ mem[o].key.ext = "m4a"
               /\ \A x \in Known : mem[x].key.ext = "m4a" => x <= o
               /\ pin = [mem[o] EXCEPT !.state = "recording"]
       /\ mem' = [mem EXCEPT ![s] = pin]
       /\ disk' = [disk EXCEPT ![s] = pin]
  /\ file' = [file EXCEPT ![s] = "empty"]
  /\ UNCHANGED <<storeVars, pc, att, imm, holder, remuxFailures, phase, faults>>

\* finalize, then enqueueUpload: no loop is started once shutting down.
Finalize(s) ==
  /\ mem[s].state = "recording"
  /\ mem' = [mem EXCEPT ![s].state = "finalized"]
  /\ file' = [file EXCEPT ![s] = Kind[s]]
  /\ Save({s})
  /\ pc' = IF phase = "up" THEN [pc EXCEPT ![s] = "start"] ELSE pc
  /\ UNCHANGED <<storeVars, att, imm, holder, remuxFailures, phase>>

\* retention: a terminal session is forgotten, long after its loop ended.
Retire(s) ==
  /\ pc[s] = "off"
  /\ \/ mem[s].state = "uploaded" /\ file[s] = "none"
     \/ mem[s].state = "failed" /\ file[s] \in {"none", "empty"}
  /\ mem' = [mem EXCEPT ![s].state = "gone"]
  /\ disk' = [disk EXCEPT ![s].state = "gone"]
  /\ file' = [file EXCEPT ![s] = "none"]
  /\ UNCHANGED <<storeVars, pc, att, imm, holder, remuxFailures, phase, faults>>

-----------------------------------------------------------------------------
\* uploadLoop up to the attempt.

\* The key is read under Manager.mu before blocking on its mutex.
ReadKey(s) ==
  /\ pc[s] = "start"
  /\ att' = [att EXCEPT ![s] = [Idle EXCEPT !.key = mem[s].key, !.dest = mem[s].key]]
  /\ pc' = [pc EXCEPT ![s] = "lock"]
  /\ UNCHANGED <<mem, disk, file, storeVars, imm, holder, remuxFailures, phase, faults>>

\* Mutant: the key's mutex is not taken.
AcquireKeyFree(s) ==
  /\ pc[s] = "lock"
  /\ holder' = [holder EXCEPT ![att[s].key] = s]
  /\ pc' = [pc EXCEPT ![s] = "slot"]
  /\ UNCHANGED <<mem, disk, file, storeVars, att, imm, remuxFailures, phase, faults>>

AcquireKey(s) ==
  /\ pc[s] = "lock"
  /\ holder[att[s].key] = Nobody
  /\ holder' = [holder EXCEPT ![att[s].key] = s]
  /\ pc' = [pc EXCEPT ![s] = "slot"]
  /\ UNCHANGED <<mem, disk, file, storeVars, att, imm, remuxFailures, phase, faults>>

AcquireSlot(s) ==
  /\ pc[s] = "slot"
  /\ Cardinality({x \in Sessions : pc[x] \in Working}) < Workers
  /\ pc' = [pc EXCEPT ![s] = "claim"]
  /\ UNCHANGED <<mem, disk, file, storeVars, att, imm, holder, remuxFailures, phase, faults>>

\* uploadCancel wakes a loop that waits for a slot or for its next retry.
LoopCancelled(s) ==
  /\ phase = "cancelled"
  /\ pc[s] \in {"start", "slot"}
  /\ holder' = IF pc[s] = "slot" THEN [holder EXCEPT ![att[s].key] = Nobody] ELSE holder
  /\ pc' = [pc EXCEPT ![s] = "off"]
  /\ att' = [att EXCEPT ![s] = Idle]
  /\ imm' = [imm EXCEPT ![s] = 0]
  /\ UNCHANGED <<mem, disk, file, storeVars, remuxFailures, phase, faults>>

\* The sessions an attempt on key k handles.
Group(k) == {x \in Sessions : mem[x].key = k /\ mem[x].state \in {"finalized", "uploading"}}

\* claimGroup, under Manager.mu.
ClaimGroup(s) ==
  /\ pc[s] = "claim"
  /\ LET k == att[s].key
     IN \/ /\ mem[s].state \in Terminal \cup {"gone"}
           /\ Return(s, "nil")
           /\ UNCHANGED <<mem, disk, faults>>
        \/ /\ mem[s].state \notin Terminal \cup {"gone"}
           /\ mem[s].key # k
           /\ Return(s, "again")
           /\ UNCHANGED <<mem, disk, faults>>
        \/ /\ mem[s].state \notin Terminal \cup {"gone"}
           /\ mem[s].key = k
           /\ \E o \in Sessions : mem[o].key = k /\ mem[o].state = "recording"
           /\ UNCHANGED mem
           /\ Save({s})
           /\ Return(s, "deferred")
        \/ /\ mem[s].state \notin Terminal \cup {"gone"}
           /\ mem[s].key = k
           /\ \A o \in Sessions : mem[o].key = k => mem[o].state # "recording"
           /\ mem' = SetState(Group(k), "uploading")
           /\ Save(Group(k))
           /\ att' = [att EXCEPT ![s].group = Group(k)]
           /\ pc' = [pc EXCEPT ![s] = "examine"]
  /\ UNCHANGED <<file, storeVars, imm, holder, remuxFailures, phase>>

-----------------------------------------------------------------------------
\* uploadOnce.

Empties(g) == {x \in g : file[x] = "empty"}
Locals(g)  == {x \in g : file[x] \in {"audio", "junk"}}
Missing(g) == {x \in g : file[x] = "none"}

\* Mutant: the manifest is not asked what is stored already.
NewUnchecked(g, o) == Locals(g)

\* Mutant: whatever the manifest does not list fails, on disk or not.
FailedUnlisted(g, o) == g \ (IF o.by = "us" THEN Held(o) ELSE {})

\* What the object's manifest lists, and how it splits the group.
Listed(o)  == IF o.by = "us" THEN Held(o) ELSE {}
New(g, o)  == Locals(g) \ Listed(o)
Done(g, o) == (Locals(g) \cup Missing(g)) \cap Listed(o)
Failed(g, o) == Empties(g) \cup (Missing(g) \ Listed(o))

\* A new session is older than one the object holds: the timeline would run
\* backwards.
OutOfOrder(g, o) == \E x \in New(g, o), y \in Listed(o) : x < y
PartsCap(g, o) == o.by = "us" /\ New(g, o) # {}
                  /\ Cardinality(Listed(o)) + Cardinality(New(g, o)) > MaxParts

\* An object may be merged into only where the precondition is enforced.
MayMerge(o) == o.by = "us" => CondWrites

\* classifyMembers, the HEAD of the key, and every decision up to the build:
\* an object that is not this recording's, a part that would go backwards, a
\* full object or an endpoint without conditional writes move the group away;
\* sessions the manifest lists are done; sessions without audio fail.
Examine(s) ==
  /\ pc[s] = "examine"
  /\ LET g      == att[s].group
         o      == bucket[att[s].key]
         failed == Failed(g, o)
         junk   == {x \in New(g, o) : file[x] = "junk"}
         add    == New(g, o) \ junk
     IN \/ /\ o.by = "foreign"
           /\ RenameGroup(s, Empties(g))
        \/ /\ o.by = "corrupt"
           /\ FailThenReturn(s, Empties(g), "permanent")
        \/ /\ OutOfOrder(g, o) \/ PartsCap(g, o)
           /\ RenameGroup(s, failed)
        \/ /\ o.by \in {"none", "us"} /\ ~OutOfOrder(g, o) /\ ~PartsCap(g, o)
           /\ \/ /\ add = {} /\ Done(g, o) = {}
                 /\ FailThenReturn(s, failed \cup junk, "nil")
              \/ /\ add = {} /\ Done(g, o) # {}
                 /\ CompleteGroup(s, Done(g, o), att[s].key, failed \cup junk)
              \/ /\ add # {} /\ ~MayMerge(o)
                 /\ RenameGroup(s, failed \cup junk)
              \/ /\ add # {} /\ MayMerge(o)
                 /\ mem' = SetState(failed \cup junk, "failed")
                 /\ Save(failed \cup junk \cup add)
                 /\ att' = [att EXCEPT ![s].add = add, ![s].done = Done(g, o), ![s].remote = o]
                 /\ pc' = [pc EXCEPT ![s] = "build"]
                 /\ UNCHANGED remuxFailures
  /\ UNCHANGED <<file, storeVars, imm, holder, phase>>

\* A retryable error: the HEAD, the conditional-write probe, the disk preflight,
\* measuring, the download.  Empty captures were failed before the HEAD.
AttemptError(s) ==
  /\ pc[s] \in {"examine", "build", "fbhead"}
  /\ FailThenReturn(s, IF pc[s] = "examine" THEN Empties(att[s].group) ELSE {}, "retry")
  /\ UNCHANGED <<file, storeVars, imm, holder, phase>>

\* fetchRemotePart (an If-Match download) and the remux.
Build(s) ==
  /\ pc[s] = "build"
  /\ LET k == att[s].key
     IN IF att[s].remote # Absent /\ bucket[k] # att[s].remote
          THEN Return(s, "again")
          ELSE /\ pc' = [pc EXCEPT ![s] = "put"]
               /\ UNCHANGED att
  /\ UNCHANGED <<mem, disk, file, storeVars, imm, holder, remuxFailures, phase, faults>>

\* noteRemuxFailure; at the limit uploadFallback takes over, which never merges.
RemuxFails(s) ==
  /\ RemuxMayFail
  /\ pc[s] = "build"
  /\ LET k == att[s].key
         n == remuxFailures[k] + 1
     IN \/ /\ n < MaxRemuxFailures
           /\ remuxFailures' = [remuxFailures EXCEPT ![k] = n]
           /\ Return(s, "retry")
           /\ UNCHANGED <<mem, disk, faults>>
        \/ /\ n >= MaxRemuxFailures
           /\ att[s].remote # Absent
           /\ RenameGroup(s, {})
        \/ /\ n >= MaxRemuxFailures
           /\ att[s].remote = Absent
           /\ pc' = [pc EXCEPT ![s] = "fbhead"]
           /\ UNCHANGED <<mem, disk, faults, att, remuxFailures>>
  /\ UNCHANGED <<file, storeVars, imm, holder, phase>>

\* Mutants: PUTs carry no precondition; any refusal counts as "already there".
MayPutAlways(k, remote) == TRUE
PutObjectTrusting(s, k, remote, o) ==
  /\ CompleteGroup(s, att[s].add \cup att[s].done, k, {})
  /\ bucket' = IF CondWrites => bucket[k] = remote THEN [bucket EXCEPT ![k] = o] ELSE bucket
  /\ UNCHANGED inflight

\* The precondition of a PUT that saw remote under k: If-None-Match for a new
\* object, If-Match for a merge.  Without enforcement every PUT is applied.
MayPut(k, remote) == CondWrites => bucket[k] = remote

\* S3.Upload of object o under k after seeing remote, and what the attempt
\* does next.  A refused If-None-Match is a success when the stored object is
\* the one this PUT would have written (equal size), else it starts over.
PutObject(s, k, remote, o) ==
  \/ /\ MayPut(k, remote)
     /\ bucket' = [bucket EXCEPT ![k] = o]
     /\ CompleteGroup(s, att[s].add \cup att[s].done, k, {})
     /\ UNCHANGED inflight
  \/ /\ ~MayPut(k, remote)
     /\ remote = Absent /\ bucket[k] = o
     /\ CompleteGroup(s, att[s].add \cup att[s].done, k, {})
     /\ UNCHANGED storeVars
  \/ /\ ~MayPut(k, remote)
     /\ ~(remote = Absent /\ bucket[k] = o)
     /\ Return(s, "again")
     /\ UNCHANGED <<mem, disk, faults, storeVars, remuxFailures>>

\* The PUT is answered with an error (timeout, connection reset, failed
\* verification): it was applied, or not, or will be when nobody waits for it.
PutFails(s, k, remote, o) ==
  /\ \/ /\ MayPut(k, remote)
        /\ bucket' = [bucket EXCEPT ![k] = o]
        /\ UNCHANGED <<inflight, faults>>
     \/ UNCHANGED <<storeVars, faults>>
     \/ /\ faults["late"] > 0
        /\ faults' = [faults EXCEPT !["late"] = @ - 1]
        /\ inflight' = inflight \cup {[key |-> k, remote |-> remote, obj |-> o]}
        /\ UNCHANGED bucket
  /\ Return(s, "retry")
  /\ UNCHANGED <<mem, disk, remuxFailures>>

Put(s) ==
  /\ pc[s] = "put"
  /\ PutObject(s, att[s].key, att[s].remote, Built(att[s].remote, att[s].add))
  /\ UNCHANGED <<file, imm, holder, phase>>

PutError(s) ==
  /\ pc[s] = "put"
  /\ PutFails(s, att[s].key, att[s].remote, Built(att[s].remote, att[s].add))
  /\ UNCHANGED <<file, imm, holder, phase>>

\* uploadFallback: HEAD of the .aac key.
FallbackHead(s) ==
  /\ pc[s] = "fbhead"
  /\ LET k == FallbackKey(att[s].key)
         o == bucket[k]
         ours == o.by = "us" /\ att[s].add \subseteq Held(o)
     IN \/ /\ o # Absent /\ ~ours
           /\ RenameGroup(s, {})
        \/ /\ o # Absent /\ ours
           /\ CompleteGroup(s, att[s].add \cup att[s].done, k, {})
        \/ /\ o = Absent
           /\ pc' = [pc EXCEPT ![s] = "fbput"]
           /\ UNCHANGED <<mem, disk, att, remuxFailures, faults>>
  /\ UNCHANGED <<file, storeVars, imm, holder, phase>>

\* ... and a PUT of the raw captures as a new object.
FallbackPut(s) ==
  /\ pc[s] = "fbput"
  /\ PutObject(s, FallbackKey(att[s].key), Absent, Built(Absent, att[s].add))
  /\ UNCHANGED <<file, imm, holder, phase>>

FallbackPutError(s) ==
  /\ pc[s] = "fbput"
  /\ PutFails(s, FallbackKey(att[s].key), Absent, Built(Absent, att[s].add))
  /\ UNCHANGED <<file, imm, holder, phase>>

\* completeGroup, second half: one member's sidecar is written (fsynced) ...
RecordUpload(s) ==
  /\ pc[s] = "record"
  /\ \E x \in att[s].todo :
       \/ /\ disk' = [disk EXCEPT ![x] = [state |-> "uploaded", key |-> att[s].dest,
                                          renames |-> mem[x].renames]]
          /\ att' = [att EXCEPT ![s].todo = @ \ {x}, ![s].cur = x]
          /\ pc' = [pc EXCEPT ![s] = "remove"]
          /\ UNCHANGED faults
       \/ /\ faults["sidecar"] > 0
          /\ faults' = [faults EXCEPT !["sidecar"] = @ - 1]
          /\ att' = [att EXCEPT ![s].todo = @ \ {x}, ![s].lost = TRUE]
          /\ UNCHANGED <<disk, pc>>
  /\ UNCHANGED <<mem, file, storeVars, imm, holder, remuxFailures, phase>>

\* ... and only then its capture removed (or left behind with a warning).
RemoveCapture(s) ==
  /\ pc[s] = "remove"
  /\ \/ /\ file' = [file EXCEPT ![att[s].cur] = "none"]
        /\ UNCHANGED faults
     \/ /\ faults["sidecar"] > 0
        /\ faults' = [faults EXCEPT !["sidecar"] = @ - 1]
        /\ UNCHANGED file
  /\ att' = [att EXCEPT ![s].cur = Nobody]
  /\ pc' = [pc EXCEPT ![s] = "record"]
  /\ UNCHANGED <<mem, disk, storeVars, imm, holder, remuxFailures, phase>>

\* All members recorded: an unwritten sidecar makes the attempt fail.
Recorded(s) ==
  /\ pc[s] = "record"
  /\ att[s].todo = {}
  /\ Return(s, IF att[s].lost THEN "retry" ELSE "nil")
  /\ UNCHANGED <<mem, disk, file, storeVars, imm, holder, remuxFailures, phase, faults>>

-----------------------------------------------------------------------------
\* uploadLoop after the attempt.

\* Mutant: the mutex of the key the session has now is released.
UnlockRenamed(s) ==
  /\ pc[s] = "unlock"
  /\ holder' = [holder EXCEPT ![mem[s].key] = Nobody]
  /\ att' = [att EXCEPT ![s] = [Idle EXCEPT !.err = att[s].err]]
  /\ pc' = [pc EXCEPT ![s] = "outcome"]
  /\ UNCHANGED <<mem, disk, file, storeVars, imm, remuxFailures, phase, faults>>

\* The slot and the key's mutex are released before the outcome is handled:
\* another loop may run an attempt on the same sessions in between.
Unlock(s) ==
  /\ pc[s] = "unlock"
  /\ holder' = [holder EXCEPT ![att[s].key] = Nobody]
  /\ att' = [att EXCEPT ![s] = [Idle EXCEPT !.err = att[s].err]]
  /\ pc' = [pc EXCEPT ![s] = "outcome"]
  /\ UNCHANGED <<mem, disk, file, storeVars, imm, remuxFailures, phase, faults>>

LoopEnds(s) == /\ pc' = [pc EXCEPT ![s] = "off"]
               /\ att' = [att EXCEPT ![s] = Idle]
               /\ imm' = [imm EXCEPT ![s] = 0]

LoopRepeats(s, n) == /\ pc' = [pc EXCEPT ![s] = "start"]
                     /\ att' = [att EXCEPT ![s] = Idle]
                     /\ imm' = [imm EXCEPT ![s] = n]

Outcome(s) ==
  /\ pc[s] = "outcome"
  /\ LET err == att[s].err
     IN \/ /\ err = "nil"
           /\ LoopEnds(s)
           /\ UNCHANGED <<mem, disk, faults>>
        \/ /\ err # "nil" /\ phase = "cancelled"
           /\ \/ /\ mem[s].state = "uploading"
                 /\ mem' = [mem EXCEPT ![s].state = "finalized"]
                 /\ Save({s})
              \/ /\ mem[s].state # "uploading"
                 /\ UNCHANGED <<mem, disk, faults>>
           /\ LoopEnds(s)
        \/ /\ err = "deferred" /\ phase # "cancelled"
           /\ IF phase = "draining" THEN LoopEnds(s) ELSE LoopRepeats(s, 0)
           /\ UNCHANGED <<mem, disk, faults>>
        \/ /\ err = "again" /\ phase # "cancelled" /\ imm[s] < MaxImmediate
           /\ LoopRepeats(s, imm[s] + 1)
           /\ UNCHANGED <<mem, disk, faults>>
        \/ /\ phase # "cancelled"
           /\ err \in {"retry", "permanent"} \/ (err = "again" /\ imm[s] >= MaxImmediate)
           /\ mem' = [mem EXCEPT ![s].state = "finalized"]
           /\ Save({s})
           /\ LoopRepeats(s, 0)
  /\ UNCHANGED <<file, storeVars, holder, remuxFailures, phase>>

-----------------------------------------------------------------------------
\* The process.

\* Shutdown: active recordings are suspended (they stay "recording" with a
\* written sidecar), uploads may finish until uploadCancel is called.
Shutdown ==
  /\ phase = "up"
  /\ faults["shutdown"] > 0
  /\ faults' = [faults EXCEPT !["shutdown"] = @ - 1]
  /\ phase' = "draining"
  /\ UNCHANGED <<mem, disk, file, storeVars, pc, att, imm, holder, remuxFailures>>

CancelUploads ==
  /\ phase = "draining"
  /\ phase' = "cancelled"
  /\ UNCHANGED <<mem, disk, file, storeVars, pc, att, imm, holder, remuxFailures, faults>>

\* migrateKeyLocked: an unfinished session whose key does not name an .m4a
\* takes the key of the newest older session that does (migrated ones in
\* between took the same), else the base key.
Lenders(s) == {o \in Sessions : /\ o < s /\ disk[o].state \notin {"none", "gone"}
                               /\ disk[o].key.ext = "m4a"}
NewestOf(o, S) == IF S = {} THEN o = Nobody ELSE o \in S /\ \A x \in S : x <= o
Migrated(s, lender) ==
  IF disk[s].state \in Terminal \/ disk[s].key.ext = "m4a" THEN disk[s]
  ELSE IF lender = Nobody THEN [disk[s] EXCEPT !.key = BaseKey]
  ELSE [disk[s] EXCEPT !.key = disk[lender].key, !.renames = disk[lender].renames]

\* Recover: of two unfinished captures the older is superseded.
Superseded(s) == /\ disk[s].state = "recording"
                 /\ \E o \in Sessions : o > s /\ disk[o].state = "recording"

\* Mutant: a session found uploading is left as it is.
RecoveredStateAsSaved(s) ==
  CASE disk[s].state = "recording" -> IF Superseded(s) THEN "finalized" ELSE "recording"
    [] disk[s].state = "uploaded" /\ file[s] # "none" -> "finalized"
    [] OTHER -> disk[s].state

\* Recover, for one sidecar: an older unfinished capture is superseded, an
\* interrupted upload starts over, an uploaded session whose capture is still
\* there is verified again.
RecoveredState(s) ==
  CASE disk[s].state = "recording" -> IF Superseded(s) THEN "finalized" ELSE "recording"
    [] disk[s].state = "uploading" -> "finalized"
    [] disk[s].state = "uploaded" /\ file[s] # "none" -> "finalized"
    [] OTHER -> disk[s].state

\* The process starts again: after a crash at any point, or once a shutdown has
\* drained.  Migrated and superseded sessions are saved, the rest is not.
Restart ==
  /\ \/ /\ faults["crash"] > 0
        /\ faults' = [faults EXCEPT !["crash"] = @ - 1]
     \/ /\ phase # "up"
        /\ \A s \in Sessions : pc[s] = "off"
        /\ UNCHANGED faults
  /\ \E lender \in [Sessions -> Sessions \cup {Nobody}] :
       /\ \A s \in Sessions : NewestOf(lender[s], Lenders(s))
       /\ mem' = [s \in Sessions |-> [Migrated(s, lender[s]) EXCEPT !.state = RecoveredState(s)]]
       /\ disk' = [s \in Sessions |-> IF Superseded(s) THEN mem'[s] ELSE Migrated(s, lender[s])]
  /\ file' = [s \in Sessions |-> IF Superseded(s) THEN Kind[s] ELSE file[s]]
  /\ pc' = [s \in Sessions |-> IF RecoveredState(s) = "finalized" THEN "start" ELSE "off"]
  /\ att' = [s \in Sessions |-> Idle]
  /\ imm' = [s \in Sessions |-> 0]
  /\ holder' = [k \in Keys |-> Nobody]
  /\ remuxFailures' = [k \in Keys |-> 0]
  /\ phase' = "up"
  /\ UNCHANGED storeVars

-----------------------------------------------------------------------------
\* The bucket (external).

\* A PUT nobody waits for any more is applied, if its precondition holds.
LateLand ==
  \E p \in inflight :
    /\ inflight' = inflight \ {p}
    /\ bucket' = IF MayPut(p.key, p.remote) THEN [bucket EXCEPT ![p.key] = p.obj] ELSE bucket
    /\ UNCHANGED <<mem, disk, file, pc, att, imm, holder, remuxFailures, phase, faults>>

\* Somebody else creates an object (nobody deletes or replaces ours).
ForeignPut(k, by) ==
  /\ faults["foreign"] > 0
  /\ faults' = [faults EXCEPT !["foreign"] = @ - 1]
  /\ bucket[k] = Absent
  /\ bucket' = [bucket EXCEPT ![k].by = by]
  /\ UNCHANGED <<mem, disk, file, inflight, pc, att, imm, holder, remuxFailures, phase>>

LoopStep(s) ==
  \/ ReadKey(s) \/ AcquireKey(s) \/ AcquireSlot(s) \/ LoopCancelled(s) \/ ClaimGroup(s)
  \/ Examine(s) \/ AttemptError(s) \/ Build(s) \/ RemuxFails(s)
  \/ Put(s) \/ PutError(s) \/ FallbackHead(s) \/ FallbackPut(s) \/ FallbackPutError(s)
  \/ RecordUpload(s) \/ RemoveCapture(s) \/ Recorded(s) \/ Unlock(s) \/ Outcome(s)

Next == \/ \E s \in Sessions : StartSession(s) \/ Finalize(s) \/ Retire(s) \/ LoopStep(s)
        \/ Shutdown \/ CancelUploads \/ Restart \/ LateLand
        \/ \E k \in Keys, by \in {"foreign", "corrupt"} : ForeignPut(k, by)

Spec == Init /\ [][Next]_vars

\* A loop keeps running; a recording is stopped at its end or rotated; a mutex
\* (starvation mode) and the slot channel (FIFO) serve whoever keeps asking; an
\* outage of the store or of the disk ends (a PermanentError need not).
LoopRuns(s) == \/ ReadKey(s) \/ ClaimGroup(s) \/ Examine(s) \/ Build(s) \/ RemuxFails(s) \/ Put(s)
               \/ FallbackHead(s) \/ FallbackPut(s)
               \/ RecordUpload(s) \/ RemoveCapture(s) \/ Recorded(s) \/ Unlock(s) \/ Outcome(s)
Outage(s) == AttemptError(s) \/ PutError(s) \/ FallbackPutError(s)
Fairness == /\ \A s \in Sessions : /\ WF_vars(Finalize(s)) /\ WF_vars(LoopRuns(s))
                                  /\ SF_vars(AcquireKey(s)) /\ SF_vars(AcquireSlot(s))
            /\ <>[][\A s \in Sessions : ~Outage(s)]_vars

FairSpec == Spec /\ Fairness

-----------------------------------------------------------------------------
TypeOK ==
  /\ mem \in [Sessions -> SessionRecords]
  /\ disk \in [Sessions -> SessionRecords]
  /\ file \in [Sessions -> {"none"} \cup Kinds]
  /\ bucket \in [Keys -> Objects]
  /\ pc \in [Sessions -> PCs]
  /\ att \in [Sessions -> Attempts]
  /\ \A p \in inflight : p \in [key : Keys, remote : Objects, obj : Objects]
  /\ imm \in [Sessions -> 0 .. MaxImmediate]
  /\ holder \in [Keys -> Sessions \cup {Nobody}]
  /\ remuxFailures \in [Keys -> Nat]
  /\ phase \in {"up", "draining", "cancelled"}
  /\ faults \in [FaultKinds -> Nat]

\* Captured audio is never lost: once a session with audio is finished, its
\* capture is on disk or some object of this recorder holds it, whatever
\* crashes, failed writes and ambiguous PUTs happened.
AudioSafe == \A s \in Sessions :
  Kind[s] = "audio" /\ disk[s].state \notin {"none", "recording"} => file[s] = "audio" \/ Stored(s)

\* A session is never given up while its audio is only on disk: nobody would
\* look at that capture again.
NothingAbandoned == \A s \in Sessions :
  mem[s].state \in Terminal /\ file[s] = "audio" => Stored(s)

\* A sidecar that says "uploaded" is right about where: the object under its
\* key holds the session.
UploadedIsStored == \A s \in Sessions :
  disk[s].state = "uploaded" => StoredAt(s, disk[s].key)

\* An object of this recorder holds every session once, in capture order.
MergedInOrder == \A k \in Keys : \A i, j \in DOMAIN bucket[k].parts :
  i < j => \A x \in bucket[k].parts[i], y \in bucket[k].parts[j] : x < y

\* Two attempts that may still write to the bucket never handle the same
\* session: loops that share an object are serialised by its key.
AttemptsDisjoint == \A r, s \in Sessions :
  r # s /\ pc[r] \in Attempting /\ pc[s] \in Attempting => att[r].group \cap att[s].group = {}

\* The loops are callers as KeyMutex, which KeyedLocks implements, has them: each waits
\* for one key at a time and gives back the one it was granted, although renameGroup
\* changes its session's key in between; only the end of the process takes a mutex from
\* a loop.
Want == [s \in Sessions |-> IF pc[s] \in Locked \cup {"lock"} THEN att[s].key ELSE Nobody]
Mutexes == INSTANCE KeyMutex WITH Procs <- Sessions, None <- Nobody, want <- Want
UsesKeyMutex == Mutexes!Init /\ [][Mutexes!Next \/ Restart]_(Mutexes!vars)

\* A merge or a retry never drops a part that an object already holds.
PartsKept == [][\A k \in Keys : Held(bucket[k]) \subseteq Held(bucket'[k])]_vars

\* An object somebody else wrote is never replaced.
ForeignKept == [][\A k \in Keys : bucket[k].by \in {"foreign", "corrupt"} => bucket'[k] = bucket[k]]_vars

\* What moves a key's group away: a foreign object, or a session to add that the
\* object may not be merged with, or whose remux may fail where uploadFallback
\* cannot help: next to an object, or with the .aac key taken.
RawTaken(k, add) == LET o == bucket[FallbackKey(k)]
                    IN o # Absent /\ ~(o.by = "us" /\ add \subseteq Held(o))
Conflict(k) ==
  LET o == bucket[k]
      g == Group(k)
  IN \/ o.by = "foreign"
     \/ /\ New(g, o) # {}
        /\ \/ OutOfOrder(g, o) \/ PartsCap(g, o) \/ ~MayMerge(o)
           \/ RemuxMayFail /\ (o # Absent \/ RawTaken(k, New(g, o)))

\* Where a session may stay for good, retried every 15 minutes: its key's object
\* has a manifest that contradicts itself, or its group would have to move once
\* more and renameGroup's limit is reached (a PermanentError).
Blocked(s) == \/ bucket[mem[s].key].by = "corrupt"
              \/ /\ \E x \in Group(mem[s].key) : mem[x].renames >= MaxKeyRenames
                 /\ Conflict(mem[s].key)

\* In the end every finished session is uploaded, failed or blocked in one of
\* these two ways, and stays so: no loop ends, or waits for another loop or for
\* a slot, with work left.
Drains == <>[](\A s \in Sessions : mem[s].state \in {"finalized", "uploading"} => Blocked(s))
=============================================================================
