----------------------------- MODULE Lifecycle ------------------------------
(***************************************************************************)
(* When a recording is captured (internal/recorder/manager.go): Reconcile  *)
(* compares the last good schedule with the active captures every second,  *)
(* stops and starts sessions; a stopped session is finalized in the        *)
(* background, so its successor may start before the sidecar says so; the  *)
(* process may crash or shut down at any point and resumes from sidecars   *)
(* that lag behind memory.  Reconcile holds Manager.mu throughout and is   *)
(* one action; stopping ffmpeg and writing the final sidecar is another.   *)
(*                                                                         *)
(* A session is a recording id and a part number.  Of a schedule item the  *)
(* window is kept: start stands for start - startEarly, late for stopLate. *)
(* What happens to a finished session is the subject of Upload: here it is *)
(* "finished" until retention forgets it ("gone").                         *)
(***************************************************************************)
EXTENDS Integers, FiniteSets

CONSTANTS Ids,                 \* recording ids
          Items,               \* windows the schedule may give an item
          MaxParts,            \* bound: sessions per id
          MaxTime,             \* bound: the clock stops here
          MaxSessionDuration,  \* MAX_SESSION_DURATION, 0: never rotate
          MaxRecordings,       \* MAX_RECORDINGS, 0: unlimited
          Faults,              \* bounds: the mixes of events of the environment that may happen
          None, Absent, Invalid, NoSchedule

FaultKinds == {"fetch", "crash", "shutdown", "start", "sidecar", "cache", "disk", "stepback"}
Reasons == {"none", "ended", "removed", "rotated", "superseded", "error"}
Time == 0 .. MaxTime
Sessions == Ids \X (1 .. MaxParts)
SessionRecords == [state : {"none", "recording", "finished", "gone"}, reason : Reasons,
                   start : Time, end : Nat, late : Nat]
\* What a schedule says of Ids.  It has other items too: one in which none of
\* these is valid is not refused.
Schedules == [Ids -> Items \cup {Absent, Invalid}]

ASSUME ItemsAssumption  == Items \subseteq [start : Nat, end : Nat, late : Nat]
ASSUME BoundsAssumption == {MaxParts, MaxTime, MaxSessionDuration, MaxRecordings} \subseteq Nat
ASSUME IdsAssumption    == IsFiniteSet(Ids)
ASSUME FaultsAssumption == Faults \subseteq [FaultKinds -> Nat]
ASSUME ValuesAssumption == None \notin Sessions /\ Absent \notin Items /\ Invalid \notin Items
                           /\ Absent # Invalid /\ NoSchedule \notin Schedules

VARIABLES mem,         \* Manager.sessions
          disk,        \* the sidecars as last written
          active,      \* Manager.active: the session an id is captured into, or None
          supervised,  \* ids whose active capture has its supervisor goroutine
          stopping,    \* background finalizers: the session and why it was stopped
          sched,       \* Manager.sched, or NoSchedule
          cache,       \* schedule.cache.json
          diskLow,     \* free disk is below MIN_FREE_DISK
          now,         \* the wall clock
          phase,       \* up, or down: shuttingDown
          faults       \* events left, by kind

vars == <<mem, disk, active, supervised, stopping, sched, cache, diskLow, now, phase, faults>>

NoSession == [state |-> "none", reason |-> "none", start |-> 0, end |-> 0, late |-> 0]

Init == /\ mem = [s \in Sessions |-> NoSession]
        /\ disk = mem
        /\ active = [i \in Ids |-> None]
        /\ supervised = {}
        /\ stopping = {}
        /\ sched = NoSchedule
        /\ cache = NoSchedule
        /\ diskLow = FALSE
        /\ now = 0
        /\ phase = "up"
        /\ faults \in Faults

Happens(kind) == /\ faults[kind] > 0
                 /\ faults' = [faults EXCEPT ![kind] = @ - 1]

-----------------------------------------------------------------------------
\* Reconcile.

Recording == {i \in Ids : active[i] # None}
\* Mutants: an unknown schedule counts as an empty one; any finished session covers
\* a window.
GoneIfUnknown(i) == sched = NoSchedule \/ sched[i] = Absent
CoveredByAny(i) == \E n \in 1 .. MaxParts : mem[<<i, n>>].state = "finished"

Valid(i)  == sched # NoSchedule /\ sched[i] \in Items
Gone(i)   == sched # NoSchedule /\ sched[i] = Absent

\* applyItem for a valid item; an invalid one leaves the last good definition.
Applied(i) == IF Valid(i) THEN [mem[active[i]] EXCEPT !.end = sched[i].end, !.late = sched[i].late]
                          ELSE mem[active[i]]

\* Why the active capture of i stops now, "none" if it does not.
StopReason(i) ==
  LET s == Applied(i)
  IN CASE Gone(i) -> "removed"
       [] ~Gone(i) /\ now >= s.end + s.late -> "ended"
       [] ~Gone(i) /\ now < s.end + s.late /\ MaxSessionDuration > 0
            /\ now - s.start >= MaxSessionDuration -> "rotated"
       [] OTHER -> "none"

\* windowFor and coveredLocked.
InWindow(i) == Valid(i) /\ sched[i].start <= now /\ now < sched[i].end + sched[i].late
Covered(i) == \E n \in 1 .. MaxParts : /\ mem[<<i, n>>].state = "finished"
                                       /\ mem[<<i, n>>].reason = "ended"
                                       /\ mem[<<i, n>>].end >= sched[i].end

AtCap(n) == MaxRecordings > 0 /\ n >= MaxRecordings

\* The first unused part number; no Reconcile starts more than MaxParts.
NextPart(i) == {n \in 1 .. MaxParts : /\ mem[<<i, n>>].state = "none"
                                      /\ \A m \in 1 .. n - 1 : mem[<<i, m>>].state # "none"}

\* startSessionLocked for the ids in starts: the sidecar is written first.
Started(s) == [state |-> "recording", reason |-> "none", start |-> now,
               end |-> sched[s[1]].end, late |-> sched[s[1]].late]

Reconcile ==
  /\ phase = "up"
  /\ LET stops  == {i \in Recording : StopReason(i) # "none"}
         left   == Recording \ stops
         wanted == {i \in Ids \ left : InWindow(i) /\ ~Covered(i)}
     IN \E starts \in SUBSET wanted : \E fails \in SUBSET (wanted \ starts) :
          /\ \/ fails = {} /\ UNCHANGED faults
             \/ fails # {} /\ Happens("start")
          \* items are tried in document order until the cap is reached
          /\ diskLow => starts = {} /\ fails = {}
          /\ starts # {} => ~AtCap(Cardinality(left) + Cardinality(starts) - 1)
          /\ starts \cup fails # wanted => diskLow \/ AtCap(Cardinality(left) + Cardinality(starts))
          /\ \A i \in wanted : NextPart(i) # {}
          /\ LET new == {s \in Sessions : s[1] \in starts /\ s[2] \in NextPart(s[1])}
             IN /\ mem' = [s \in Sessions |-> CASE s \in new -> Started(s)
                                                [] s = active[s[1]] -> Applied(s[1])
                                                [] OTHER -> mem[s]]
                /\ disk' = [s \in Sessions |-> IF s \in new THEN mem'[s] ELSE disk[s]]
                /\ active' = [i \in Ids |-> IF i \in starts THEN CHOOSE s \in new : s[1] = i
                                            ELSE IF i \in left THEN active[i] ELSE None]
          /\ supervised' = left \cup starts
          /\ stopping' = stopping \cup {[s |-> active[i], why |-> StopReason(i)] : i \in stops}
  /\ UNCHANGED <<sched, cache, diskLow, now, phase>>

\* finalize, when the capture's ffmpeg is gone.  Its error is only logged: a
\* sidecar that could not be written still says "recording".
Finalize(e) ==
  /\ e \in stopping
  /\ stopping' = stopping \ {e}
  /\ mem' = IF e.why = "shutdown" THEN mem
            ELSE [mem EXCEPT ![e.s].state = "finished", ![e.s].reason = e.why]
  /\ \/ disk' = [disk EXCEPT ![e.s] = mem'[e.s]] /\ UNCHANGED faults
     \/ UNCHANGED disk /\ Happens("sidecar")
  /\ UNCHANGED <<active, supervised, sched, cache, diskLow, now, phase>>

\* persist: schedule changes reach the sidecars of the active captures that have
\* grown since their last save (and whose sidecar could be written).
Persist ==
  /\ phase = "up"
  /\ \E W \in SUBSET Recording :
       disk' = [s \in Sessions |-> IF s[1] \in W /\ s = active[s[1]] THEN mem[s] ELSE disk[s]]
  /\ UNCHANGED <<mem, active, supervised, stopping, sched, cache, diskLow, now, phase, faults>>

\* retention, once the upload is over.
Forget(s) ==
  /\ mem[s].state = "finished" /\ disk[s].state = "finished"
  /\ mem' = [mem EXCEPT ![s].state = "gone"]
  /\ disk' = [disk EXCEPT ![s].state = "gone"]
  /\ UNCHANGED <<active, supervised, stopping, sched, cache, diskLow, now, phase, faults>>

-----------------------------------------------------------------------------
\* The schedule: pollOnce after a successful fetch (a failed or unmodified one
\* changes nothing); the cache may not be writable.
Fetch(doc) ==
  /\ phase = "up"
  /\ sched' = doc
  /\ \/ cache' = doc /\ Happens("fetch")
     \/ /\ faults["fetch"] > 0 /\ faults["cache"] > 0
        /\ faults' = [faults EXCEPT !["fetch"] = @ - 1, !["cache"] = @ - 1]
        /\ UNCHANGED cache
  /\ UNCHANGED <<mem, disk, active, supervised, stopping, diskLow, now, phase>>

\* RunSchedulePoller starts with the cached schedule, if there is one.
LoadCache ==
  /\ phase = "up"
  /\ sched = NoSchedule /\ cache # NoSchedule
  /\ sched' = cache
  /\ UNCHANGED <<mem, disk, active, supervised, stopping, cache, diskLow, now, phase, faults>>

-----------------------------------------------------------------------------
\* The process.

\* Mutant: shutdown stops captures that stay active.
ShutdownKeepsActive ==
  /\ phase = "up"
  /\ Happens("shutdown")
  /\ phase' = "down"
  /\ stopping' = stopping \cup {[s |-> active[i], why |-> "shutdown"] : i \in Recording}
  /\ supervised' = {}
  /\ UNCHANGED <<mem, disk, active, sched, cache, diskLow, now>>

\* Shutdown: every active capture is stopped and parked for resume.
Shutdown ==
  /\ phase = "up"
  /\ Happens("shutdown")
  /\ phase' = "down"
  /\ stopping' = stopping \cup {[s |-> active[i], why |-> "shutdown"] : i \in Recording}
  /\ active' = [i \in Ids |-> None]
  /\ supervised' = {}
  /\ UNCHANGED <<mem, disk, sched, cache, diskLow, now>>

Unfinished(i) == {s \in Sessions : s[1] = i /\ disk[s].state = "recording"}
IsNewest(s, S) == IF S = {} THEN s = None ELSE s \in S /\ \A x \in S : disk[x].start <= disk[s].start

\* Mutant: an older unfinished session is left alone.
RecoverAsFound(s, newest, errors) == IF s \in errors THEN "error" ELSE "none"

\* Why Recover finishes the unfinished session s, "none" if it does not.
RecoverAs(s, newest, errors) ==
  IF s \in errors THEN "error" ELSE IF s # newest[s[1]] THEN "superseded" ELSE "none"

\* A sidecar as Recover takes it over.
Recovered(s, why) ==
  IF disk[s].state = "recording" /\ why # "none"
    THEN [disk[s] EXCEPT !.state = "finished", !.reason = why] ELSE disk[s]

\* Recover: of an id's unfinished sessions the newest is reopened, the older
\* ones are superseded; a capture that cannot be reopened is finished.
Restart ==
  /\ \/ Happens("crash")
     \/ phase = "down" /\ stopping = {} /\ UNCHANGED faults
  /\ \E newest \in [Ids -> Sessions \cup {None}], errors \in SUBSET Sessions :
       /\ \A i \in Ids : IsNewest(newest[i], Unfinished(i))
       /\ errors \subseteq UNION {Unfinished(i) : i \in Ids}
       /\ errors # {} => faults["start"] > 0  \* a bound on the model, not a count
       /\ mem' = [s \in Sessions |-> Recovered(s, RecoverAs(s, newest, errors))]
       /\ disk' = mem'
       /\ active' = [i \in Ids |-> IF newest[i] \in errors THEN None ELSE newest[i]]
  /\ supervised' = {}
  /\ stopping' = {}
  /\ sched' = NoSchedule
  /\ phase' = "up"
  /\ UNCHANGED <<cache, diskLow, now>>

\* The environment.
Tick == /\ now < MaxTime
        /\ now' = now + 1
        /\ UNCHANGED <<mem, disk, active, supervised, stopping, sched, cache, diskLow, phase, faults>>

StepBack == /\ now > 0
            /\ now' = now - 1
            /\ Happens("stepback")
            /\ UNCHANGED <<mem, disk, active, supervised, stopping, sched, cache, diskLow, phase>>

DiskChanges == /\ Happens("disk")
               /\ diskLow' = ~diskLow
               /\ UNCHANGED <<mem, disk, active, supervised, stopping, sched, cache, now, phase>>

Next == \/ Reconcile \/ Persist \/ LoadCache \/ Shutdown \/ Restart
        \/ \E e \in stopping : Finalize(e)
        \/ \E s \in Sessions : Forget(s)
        \/ \E doc \in Schedules : Fetch(doc)
        \/ Tick \/ StepBack \/ DiskChanges

Spec == Init /\ [][Next]_vars

\* The reconcile ticker and the clock go on, ffmpeg exits (SIGKILL at the
\* latest), the poller loads the cache, a process that shut down is restarted.
Fairness == /\ WF_vars(Reconcile) /\ WF_vars(Tick) /\ WF_vars(LoadCache)
            /\ WF_vars(\E e \in stopping : Finalize(e))
            /\ WF_vars(phase = "down" /\ stopping = {} /\ Restart)

FairSpec == Spec /\ Fairness
-----------------------------------------------------------------------------
TypeOK == /\ mem \in [Sessions -> SessionRecords]
          /\ disk \in [Sessions -> SessionRecords]
          /\ active \in [Ids -> Sessions \cup {None}]
          /\ supervised \subseteq Recording
          /\ stopping \subseteq [s : Sessions, why : Reasons \cup {"shutdown"}]
          /\ sched \in Schedules \cup {NoSchedule}
          /\ cache \in Schedules \cup {NoSchedule}
          /\ diskLow \in BOOLEAN /\ now \in Time /\ phase \in {"up", "down"}
          /\ faults \in [FaultKinds -> Nat]

\* A session that says "recording" belongs to somebody who will finish it: a
\* forgotten one would defer the uploads of its recording for ever.
NoOrphan == \A s \in Sessions :
  mem[s].state = "recording" =>
    \/ active[s[1]] = s
    \/ \E e \in stopping : e.s = s
    \/ phase = "down"

\* A session is captured or being stopped, never both, and stopped once.
OneOwner == /\ \A i \in Recording : /\ active[i][1] = i
                                    /\ mem[active[i]].state = "recording"
                                    /\ \A e \in stopping : e.s # active[i]
            /\ \A e, f \in stopping : e.s = f.s => e = f

\* An id leaves its active capture only because its item is absent from the
\* schedule in force, the latest known end has passed, the capture is rotated, or
\* the process shuts down or starts again; an item that became invalid or a
\* schedule that is not known stops nothing, and no capture is replaced by
\* another one for any other reason.
Stops(i) == active[i] # None /\ active'[i] # active[i]
Removed(i) == sched # NoSchedule /\ sched[i] = Absent
Due(i) == now >= Applied(i).end + Applied(i).late
ProcessStops == Shutdown \/ Restart
Rotates(i) == MaxSessionDuration > 0 /\ now - mem[active[i]].start >= MaxSessionDuration
StopsOnlyWhenDue == [][\A i \in Ids :
  Stops(i) => Removed(i) \/ Due(i) \/ Rotates(i) \/ ProcessStops]_vars

\* "An active recording stops only when the latest known end + stopLate has
\* passed or the item is absent from a successfully fetched schedule": a rotated
\* recording goes on with its next part at once.
RotationContinues == [][\A i \in Ids :
  Stops(i) /\ active'[i] = None => Removed(i) \/ Due(i) \/ ProcessStops]_vars

\* Every capture ends, unless it goes on because its window stays open: what
\* Upload's fairness of Finalize rests on.
CapturesEnd == \A s \in Sessions :
  mem[s].state = "recording" ~>
    mem[s].state # "recording" \/ (active[s[1]] = s /\ now < mem[s].end + mem[s].late)

\* An item whose window is open is captured, resumed after a restart, or its
\* window has been captured to its end.
ItemsCaptured == \A i \in Ids :
  InWindow(i) ~> \/ i \in supervised \/ ~InWindow(i) \/ diskLow
                 \/ \E n \in 1 .. MaxParts : mem[<<i, n>>].reason = "ended" /\ mem[<<i, n>>].end >= sched[i].end
=============================================================================
