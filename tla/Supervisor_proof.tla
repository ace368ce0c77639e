-------------------------- MODULE Supervisor_proof --------------------------
(***************************************************************************)
(* Proofs about Supervisor: for every set of sources, whatever they are    *)
(* like, and any number of schedule changes, write errors and crashes.     *)
(***************************************************************************)
EXTENDS Supervisor, TLAPS

-----------------------------------------------------------------------------
\* Type correctness.

RunRecords == [source : Sources, codec : {"copy", "aac"}, video : BOOLEAN, maps : Maps, trial : BOOLEAN]

RecordsTyped  == session \in SessionRecords /\ disk \in SessionRecords /\ snap \in SessionRecords
ControlTyped  == /\ pc \in {"top", "codec", "video", "begin", "run", "wait", "down", "done"}
                 /\ probe \in {"todo", "ok", "failed"}
                 /\ run \in RunRecords
CountersTyped == /\ copyFailures \in 0 .. 2 /\ videoFailures \in 0 .. 2
                 /\ videoCounterOf \in Sources
FlagsTyped    == safeArgs \in BOOLEAN /\ videoTrial \in BOOLEAN /\ videoSuspect \in BOOLEAN
WorldTyped    == /\ up \in BOOLEAN /\ air \subseteq BOOLEAN
                 /\ faults \in [FaultKinds -> Nat]

\* The type invariant in parts that the steps below treat one by one.
LEMMA TypeParts == /\ TypeOK <=> RecordsTyped /\ ControlTyped /\ CountersTyped /\ FlagsTyped /\ WorldTyped
                   /\ TypeOK' <=> RecordsTyped' /\ ControlTyped' /\ CountersTyped' /\ FlagsTyped' /\ WorldTyped'
BY DEF TypeOK, RecordsTyped, ControlTyped, CountersTyped, FlagsTyped, WorldTyped, RunRecords

\* Using up an event keeps the bounds typed and raises none of them.
LEMMA HappensType ==
  ASSUME faults \in [FaultKinds -> Nat], NEW kind \in FaultKinds, Happens(kind)
  PROVE  /\ faults' \in [FaultKinds -> Nat]
         /\ faults'[kind] = faults[kind] - 1
         /\ \A other \in FaultKinds \ {kind} : faults'[other] = faults[other]
BY DEF Happens

\* What applyItem leaves when the source changes is a session.
LEMMA UnprobedType ==
  ASSUME NEW it \in Items, NEW old \in Requests
  PROVE  Unprobed(it, old) \in SessionRecords /\ Request(it, old) \in Requests
BY ItemsAssumption DEF Unprobed, Request, SessionRecords, Maps

\* A new supervisor's run is a run.
LEMMA NoRunType == ASSUME NEW src \in Sources PROVE NoRun(src) \in RunRecords
BY DEF NoRun, RunRecords, Maps

LEMMA CountedType == ASSUME NEW n \in 0 .. 2 PROVE Counted(n) \in 0 .. 2
BY DEF Counted

LEMMA InitType == Init => TypeOK
<1> SUFFICES ASSUME NEW it \in Items,
                    session = Unprobed(it, "auto"), disk = session, snap = session, run = NoRun(it.source),
                    copyFailures = 0, safeArgs = FALSE, videoFailures = 0,
                    videoTrial = FALSE, videoSuspect = FALSE, videoCounterOf = it.source,
                    pc = "top", probe = "todo", up \in BOOLEAN, air = {}, faults = Faults
             PROVE  TypeOK
  BY DEF Init
<1>1. it.source \in Sources
  BY ItemsAssumption
<1>2. "auto" \in Requests
  BY DEF Requests
<1>3. RecordsTyped
  BY <1>2, UnprobedType DEF RecordsTyped
<1>4. ControlTyped
  BY <1>1, NoRunType DEF ControlTyped
<1>5. CountersTyped
  BY <1>1 DEF CountersTyped
<1>6. FlagsTyped
  BY DEF FlagsTyped
<1>7. WorldTyped
  BY FaultsAssumption DEF WorldTyped
<1> QED
  BY <1>3, <1>4, <1>5, <1>6, <1>7, TypeParts

LEMMA SnapshotType == ASSUME TypeOK, Snapshot PROVE TypeOK'
<1>1. session.source \in Sources
  BY TypeParts DEF RecordsTyped, SessionRecords
<1>2. CountersTyped'
  BY <1>1, TypeParts DEF Snapshot, CountersTyped
<1>3. FlagsTyped'
  BY TypeParts DEF Snapshot, FlagsTyped
<1> QED
  BY <1>2, <1>3, TypeParts DEF Snapshot, RecordsTyped, ControlTyped, WorldTyped

LEMMA DecideType ==
  ASSUME TypeOK, NEW codec \in {"copy", "aac"}, Decide(codec)
  PROVE  session' \in SessionRecords /\ disk' \in SessionRecords /\ run' \in RunRecords
<1>1. session' \in SessionRecords
  BY TypeParts DEF Decide, RecordsTyped, SessionRecords
<1>2. run' \in RunRecords
  BY TypeParts DEF Decide, ControlTyped, RunRecords
<1> QED
  BY <1>1, <1>2, TypeParts DEF Decide, Save, RecordsTyped

LEMMA ResolveCodecType == ASSUME TypeOK, ResolveCodec PROVE TypeOK'
<1>1. snap \in SessionRecords /\ run \in RunRecords
  BY TypeParts DEF RecordsTyped, ControlTyped
<1>2. probe' \in {"todo", "ok", "failed"}
  BY TypeParts DEF ResolveCodec, ProbeOnce, ControlTyped
<1>3. session' \in SessionRecords /\ disk' \in SessionRecords /\ run' \in RunRecords
  <2>1. CASE snap.codec # "unknown" /\ run' = [run EXCEPT !.codec = snap.codec] /\ UNCHANGED <<session, disk>>
    <3>1. snap.codec \in {"copy", "aac"}
      BY <1>1, <2>1 DEF SessionRecords
    <3>2. run' \in RunRecords
      BY <1>1, <2>1, <3>1 DEF RunRecords
    <3> QED
      BY <2>1, <3>2, TypeParts DEF RecordsTyped
  <2>2. CASE snap.request # "auto" /\ Decide(snap.request)
    <3>1. snap.request \in {"copy", "aac"}
      BY <1>1, <2>2 DEF SessionRecords, Requests
    <3> QED
      BY <2>2, <3>1, DecideType
  <2>3. CASE Decide(IF Probed.audio = "aac" THEN "copy" ELSE "aac")
    BY <2>3, DecideType
  <2>4. CASE run' = [run EXCEPT !.codec = "aac"] /\ UNCHANGED <<session, disk>>
    <3>1. run' \in RunRecords
      BY <1>1, <2>4 DEF RunRecords
    <3> QED
      BY <2>4, <3>1, TypeParts DEF RecordsTyped
  <2> QED
    BY <2>1, <2>2, <2>3, <2>4 DEF ResolveCodec
<1> QED
  BY <1>2, <1>3, TypeParts
     DEF ResolveCodec, counters, RecordsTyped, ControlTyped, CountersTyped, FlagsTyped, WorldTyped

LEMMA ResolveVideoType == ASSUME TypeOK, ResolveVideo PROVE TypeOK'
<1>1. snap \in SessionRecords /\ run \in RunRecords /\ session \in SessionRecords
  BY TypeParts DEF RecordsTyped, ControlTyped
<1>2. probe' \in {"todo", "ok", "failed"}
  BY TypeParts DEF ResolveVideo, ProbeOnce, ControlTyped
<1>3. Probed \in Traits
  BY <1>1, TraitAssumption DEF Probed, SessionRecords
<1>4. session' \in SessionRecords /\ disk' \in SessionRecords /\ run' \in RunRecords
  <2> DEFINE found == Probed.video # "none"
             maps  == IF found THEN Probed.maps ELSE "plain"
  <2>1. CASE run' = [run EXCEPT !.video = FALSE] /\ UNCHANGED <<session, disk>>
    <3>1. run' \in RunRecords
      BY <1>1, <2>1 DEF RunRecords
    <3> QED
      BY <2>1, <3>1, TypeParts DEF RecordsTyped
  <2>2. CASE run' = [run EXCEPT !.video = snap.video = "on", !.maps = snap.maps] /\ UNCHANGED <<session, disk>>
    <3>1. run' \in RunRecords
      BY <1>1, <2>2 DEF RunRecords, SessionRecords
    <3> QED
      BY <2>2, <3>1, TypeParts DEF RecordsTyped
  <2>3. CASE /\ session' = [session EXCEPT !.video = IF found THEN "on" ELSE "none", !.maps = maps]
             /\ Save
             /\ run' = [run EXCEPT !.video = found, !.maps = maps]
    <3>1. maps \in Maps /\ found \in BOOLEAN
      BY <1>3 DEF Traits, Maps
    <3>2. session' \in SessionRecords
      BY <1>1, <2>3, <3>1 DEF SessionRecords
    <3>3. run' \in RunRecords
      BY <1>1, <2>3, <3>1 DEF RunRecords
    <3> QED
      BY <2>3, <3>2, <3>3, TypeParts DEF Save, RecordsTyped
  <2> QED
    BY <2>1, <2>2, <2>3 DEF ResolveVideo
<1> QED
  BY <1>2, <1>4, TypeParts
     DEF ResolveVideo, counters, RecordsTyped, ControlTyped, CountersTyped, FlagsTyped, WorldTyped

LEMMA BeginRunType == ASSUME TypeOK, BeginRun PROVE TypeOK'
<1>1. /\ snap.source \in Sources /\ run \in RunRecords /\ videoTrial \in BOOLEAN
      /\ faults \in [FaultKinds -> Nat]
  BY TypeParts DEF RecordsTyped, ControlTyped, FlagsTyped, WorldTyped, SessionRecords
<1>2. run' \in RunRecords
  BY <1>1 DEF BeginRun, RunRecords
<1>3. faults' \in [FaultKinds -> Nat]
  BY <1>1, HappensType DEF BeginRun, FaultKinds
<1>4. FlagsTyped'
  BY TypeParts DEF BeginRun, FlagsTyped
<1>5. CountersTyped'
  BY TypeParts DEF BeginRun, CountersTyped
<1>6. WorldTyped'
  BY <1>3, TypeParts DEF BeginRun, WorldTyped
<1> QED
  BY <1>2, <1>4, <1>5, <1>6, TypeParts DEF BeginRun, RecordsTyped, ControlTyped

-----------------------------------------------------------------------------
\* The end of a run: everything but the session and the counters.

LEMMA RunEndedType ==
  ASSUME TypeOK, NEW e, RunEnded(e)
  PROVE  ControlTyped' /\ WorldTyped' /\ videoCounterOf' \in Sources /\ snap' \in SessionRecords
<1>1. faults' \in [FaultKinds -> Nat]
  BY TypeParts, HappensType DEF RunEnded, WorldTyped, FaultKinds
<1> QED
  BY <1>1, TypeParts DEF RunEnded, RecordsTyped, ControlTyped, CountersTyped, WorldTyped

\* How a run ended, as the bookkeeping sees it.
LEMMA EndingType ==
  ASSUME TypeOK, NEW e \in Endings \cup WriteErrors
  PROVE  e.werr \in BOOLEAN /\ e.bytes \in BOOLEAN /\ e.err \in BOOLEAN
BY DEF Endings, WriteErrors, EndingRecords

\* What a trial says before the branches is a count and a flag.
LEMMA BeforeType ==
  ASSUME TypeOK, NEW e, e.werr \in BOOLEAN, e.bytes \in BOOLEAN
  PROVE  FailuresBefore(e) \in 0 .. 2 /\ SuspectBefore(e) \in BOOLEAN
<1>1. videoFailures \in 0 .. 2 /\ videoSuspect \in BOOLEAN /\ run \in RunRecords
  BY TypeParts DEF CountersTyped, FlagsTyped, ControlTyped
<1>2. FailuresBefore(e) \in 0 .. 2
  BY <1>1 DEF FailuresBefore
<1>3. SuspectBefore(e) \in BOOLEAN
  BY <1>1 DEF SuspectBefore
<1> QED
  BY <1>2, <1>3

\* Turning video off, giving up stream copy and mapping the first audio leave a session.
LEMMA DecisionsType ==
  ASSUME session \in SessionRecords
  PROVE  /\ [session EXCEPT !.video = "none", !.maps = "plain"] \in SessionRecords
         /\ [session EXCEPT !.maps = "variant"] \in SessionRecords
         /\ [session EXCEPT !.codec = "aac"] \in SessionRecords
BY DEF SessionRecords, Maps

\* A branch at the end of a run is well typed once its session and counters are.
LEMMA BranchType ==
  ASSUME TypeOK, NEW e, RunEnded(e), session' \in SessionRecords, Save,
         copyFailures' \in 0 .. 2, videoFailures' \in 0 .. 2,
         safeArgs' \in BOOLEAN, videoTrial' \in BOOLEAN, videoSuspect' \in BOOLEAN
  PROVE  TypeOK'
<1>1. disk' \in SessionRecords
  BY TypeParts DEF Save, RecordsTyped
<1> QED
  BY <1>1, RunEndedType, TypeParts DEF RecordsTyped, CountersTyped, FlagsTyped

LEMMA EndRunType ==
  ASSUME TypeOK, NEW e \in Endings \cup WriteErrors,
         OptionFault(e) \/ VideoFault(e) \/ CopyRejected(e) \/ SilentWithVideo(e) \/ OtherEnd(e)
  PROVE  TypeOK'
<1>1. /\ session \in SessionRecords
      /\ copyFailures \in 0 .. 2 /\ videoFailures \in 0 .. 2
      /\ safeArgs \in BOOLEAN /\ videoTrial \in BOOLEAN
  BY TypeParts DEF RecordsTyped, CountersTyped, FlagsTyped
<1>2. e.werr \in BOOLEAN /\ e.bytes \in BOOLEAN
  BY EndingType
<1>3. FailuresBefore(e) \in 0 .. 2 /\ SuspectBefore(e) \in BOOLEAN
  BY <1>2, BeforeType
<1>4. Counted(FailuresBefore(e)) \in 0 .. 2 /\ Counted(copyFailures) \in 0 .. 2
  BY <1>1, <1>3, CountedType
<1>5. run \in RunRecords
  BY TypeParts DEF ControlTyped
<1>6. CASE OptionFault(e)
  BY <1>1, <1>3, <1>6, BranchType DEF OptionFault
<1>7. CASE VideoFault(e)
  <2>1. session' \in SessionRecords
    BY <1>1, <1>7, DecisionsType DEF VideoFault, DisableVideo
  <2>2. copyFailures' \in 0 .. 2 /\ videoFailures' \in 0 .. 2
    BY <1>1, <1>4, <1>7 DEF VideoFault, DisableVideo
  <2>3. safeArgs' \in BOOLEAN /\ videoTrial' \in BOOLEAN /\ videoSuspect' \in BOOLEAN
    BY <1>1, <1>7 DEF VideoFault, DisableVideo
  <2> QED
    BY <1>7, <2>1, <2>2, <2>3, BranchType DEF VideoFault
<1>8. CASE CopyRejected(e)
  <2>1. session' \in SessionRecords
    BY <1>1, <1>8, DecisionsType DEF CopyRejected
  <2> QED
    BY <1>1, <1>3, <1>4, <1>8, <2>1, BranchType DEF CopyRejected
<1>9. CASE SilentWithVideo(e)
  <2>1. session' \in SessionRecords
    BY <1>1, <1>9, DecisionsType DEF SilentWithVideo, DisableVideo
  <2>2. copyFailures' \in 0 .. 2 /\ videoFailures' \in 0 .. 2
    BY <1>1, <1>4, <1>9 DEF SilentWithVideo, DisableVideo
  <2>3. safeArgs' \in BOOLEAN /\ videoTrial' \in BOOLEAN /\ videoSuspect' \in BOOLEAN
    BY <1>1, <1>9 DEF SilentWithVideo, DisableVideo
  <2> QED
    BY <1>9, <2>1, <2>2, <2>3, BranchType DEF SilentWithVideo
<1>10. CASE OtherEnd(e)
  <2>1. videoSuspect' \in BOOLEAN
    BY <1>2, <1>3, <1>5, <1>10 DEF OtherEnd, RunRecords
  <2> QED
    BY <1>1, <1>3, <1>10, <2>1, BranchType DEF OtherEnd
<1> QED
  BY <1>6, <1>7, <1>8, <1>9, <1>10

-----------------------------------------------------------------------------
\* The manager and the environment.

LEMMA ForgetType ==
  ASSUME NEW s \in SessionRecords, Forget(s)
  PROVE  /\ snap' \in SessionRecords /\ probe' = "todo" /\ run' \in RunRecords /\ air' = {}
         /\ CountersTyped' /\ FlagsTyped'
<1>1. s.source \in Sources
  BY DEF SessionRecords
<1>2. CountersTyped'
  BY <1>1 DEF Forget, CountersTyped
<1>3. FlagsTyped'
  BY DEF Forget, FlagsTyped
<1> QED
  BY <1>1, <1>2, <1>3, NoRunType DEF Forget

LEMMA ApplyItemType == ASSUME TypeOK, ApplyItem PROVE TypeOK'
<1>1. session \in SessionRecords /\ faults \in [FaultKinds -> Nat]
  BY TypeParts DEF RecordsTyped, WorldTyped
<1>2. session.request \in Requests
  BY <1>1 DEF SessionRecords
<1>3. session' \in SessionRecords
  BY <1>1, <1>2, UnprobedType DEF ApplyItem, SessionRecords
<1>4. faults' \in [FaultKinds -> Nat]
  BY <1>1, HappensType DEF ApplyItem, FaultKinds
<1> QED
  BY <1>3, <1>4, TypeParts
     DEF ApplyItem, counters, RecordsTyped, ControlTyped, CountersTyped, FlagsTyped, WorldTyped

LEMMA StopCrashType == ASSUME TypeOK, Stop \/ Crash PROVE TypeOK'
<1>1. session \in SessionRecords /\ disk \in SessionRecords /\ faults \in [FaultKinds -> Nat] /\ up \in BOOLEAN
  BY TypeParts DEF RecordsTyped, WorldTyped
<1>2. CASE Stop
  BY <1>1, <1>2, ForgetType, TypeParts DEF Stop, RecordsTyped, ControlTyped, WorldTyped
<1>3. CASE Crash
  <2>1. faults' \in [FaultKinds -> Nat]
    BY <1>1, <1>3, HappensType DEF Crash, FaultKinds
  <2> QED
    BY <1>1, <1>3, <2>1, ForgetType, TypeParts DEF Crash, RecordsTyped, ControlTyped, WorldTyped
<1> QED
  BY <1>2, <1>3

LEMMA SourceType == ASSUME TypeOK, Outage \/ Return PROVE TypeOK'
<1>1. air \subseteq BOOLEAN /\ faults \in [FaultKinds -> Nat]
  BY TypeParts DEF WorldTyped
<1>2. Seen(TRUE) \subseteq BOOLEAN /\ Seen(FALSE) \subseteq BOOLEAN
  BY <1>1 DEF Seen
<1>3. faults' \in [FaultKinds -> Nat]
  BY <1>1, HappensType DEF Outage, Return, FaultKinds
<1> QED
  BY <1>2, <1>3, TypeParts
     DEF Outage, Return, counters, RecordsTyped, ControlTyped, CountersTyped, FlagsTyped, WorldTyped

LEMMA NextType == TypeOK /\ [Next]_vars => TypeOK'
<1> SUFFICES ASSUME TypeOK, [Next]_vars PROVE TypeOK'
  OBVIOUS
<1>1. CASE Snapshot \/ ResolveCodec \/ ResolveVideo \/ BeginRun
  BY <1>1, SnapshotType, ResolveCodecType, ResolveVideoType, BeginRunType
<1>2. CASE EndRun
  BY <1>2, EndRunType DEF EndRun
<1>3. CASE Retry \/ Persist \/ Restart \/ UNCHANGED vars
  BY <1>3, TypeParts
     DEF Retry, Persist, Restart, vars, counters, RecordsTyped, ControlTyped, CountersTyped, FlagsTyped,
         WorldTyped
<1>4. CASE ApplyItem
  BY <1>4, ApplyItemType
<1>5. CASE Stop \/ Crash
  BY <1>5, StopCrashType
<1>6. CASE Outage \/ Return
  BY <1>6, SourceType
<1> QED
  BY <1>1, <1>2, <1>3, <1>4, <1>5, <1>6 DEF Next, Supervise

\* The supervisor's state is well typed, and its counters of consecutive failures
\* never pass the value they are compared with.
THEOREM TypeCorrect == Spec => []TypeOK
<1>1. Init => TypeOK
  BY InitType
<1>2. TypeOK /\ [Next]_vars => TypeOK'
  BY NextType
<1> QED
  BY <1>1, <1>2, PTL DEF Spec

-----------------------------------------------------------------------------
\* Stream copy.

\* Only the bookkeeping at its end takes a run to the back-off.
LEMMA RunEndsByEndRun == [Next]_vars /\ RunEnds => EndRun
BY DEF Next, vars, RunEnds, Supervise, Snapshot, ResolveCodec, ResolveVideo, BeginRun, Retry, ApplyItem, Persist,
       Stop, Crash, Restart, Outage, Return

\* A run that ended with a rejection and not with a fault of the video output could
\* really not be copied.
LEMMA RejectionIsReal ==
  ASSUME NEW e \in Endings \cup WriteErrors, ~IsVideoFault(e), IsRejection(e)
  PROVE  Uncopyable
<1>1. "reject" \in e.lines /\ ~e.werr
  BY DEF IsRejection
<1>2. ~VideoFails(e)
  <2> SUFFICES ASSUME VideoFails(e) PROVE FALSE
    OBVIOUS
  <2>1. "video" \in e.lines /\ e.err /\ run.video
    BY <1>1 DEF VideoFails, VideoBroken
  <2> QED
    BY <1>1, <2>1 DEF IsVideoFault
<1>3. Refused(e)
  BY <1>1, <1>2 DEF Endings, WriteErrors, HungUp, CutOff
<1> QED
  BY <1>1, <1>3 DEF Refused

\* Stream copy is given up only for a stream that cannot be copied.
THEOREM CopyGivenUpHolds == Spec => CopyGivenUpRightly
<1>1. TypeOK /\ [Next]_vars => (RunEnds /\ session.codec # "aac" /\ session'.codec = "aac" => Uncopyable)
  <2> SUFFICES ASSUME TypeOK, [Next]_vars, RunEnds, session.codec # "aac", session'.codec = "aac"
               PROVE  Uncopyable
    OBVIOUS
  <2>1. PICK e \in Endings \cup WriteErrors :
           OptionFault(e) \/ VideoFault(e) \/ CopyRejected(e) \/ SilentWithVideo(e) \/ OtherEnd(e)
    BY RunEndsByEndRun DEF EndRun
  <2>2. session \in SessionRecords
    BY TypeParts DEF RecordsTyped
  <2>3. /\ [session EXCEPT !.video = "none", !.maps = "plain"].codec = session.codec
        /\ [session EXCEPT !.maps = "variant"].codec = session.codec
    BY <2>2 DEF SessionRecords
  <2>4. ~OptionFault(e) /\ ~OtherEnd(e)
    BY DEF OptionFault, OtherEnd
  <2>5. ~VideoFault(e)
    BY <2>3 DEF VideoFault, DisableVideo
  <2>6. ~SilentWithVideo(e)
    BY <2>3 DEF SilentWithVideo, DisableVideo
  <2>7. CopyRejected(e)
    BY <2>1, <2>4, <2>5, <2>6
  <2> QED
    BY <2>7, RejectionIsReal DEF CopyRejected
<1> QED
  BY <1>1, TypeCorrect, PTL DEF Spec, CopyGivenUpRightly

-----------------------------------------------------------------------------
(***************************************************************************)
(* The video output.  With at most one outage, the evidence is conclusive: *)
(* two empty runs with video mean a silent video output or the outage, and *)
(* when a run without video has written audio since, the outage is over.   *)
(***************************************************************************)

Silent == Trait[videoCounterOf].video = "silent"
Spent  == faults["outage"] = 0

\* The iteration works for the source the counters are about.
SameSource == /\ pc \in {"codec", "video", "begin", "run"} => snap.source = videoCounterOf
              /\ pc = "run" => run.source = videoCounterOf

\* Somebody knows of a video stream: it has been reached before.
VideoKnown == \/ session.video = "on" \/ disk.video = "on" \/ snap.video = "on"
              \/ probe = "ok"
              \/ pc \in {"begin", "run"} /\ run.video

\* A source that was reached and is away now has used up the outage.
AwayOnce == /\ VideoKnown /\ ~up => Spent
            /\ pc = "run" /\ run.video /\ FALSE \in air => Spent
            /\ pc # "run" => air = {}

\* The trial runs without video, and for a reason.
TrialJustified == /\ pc = "run" /\ run.trial => ~run.video
                  /\ videoTrial \/ (pc = "run" /\ run.trial) => Silent \/ Spent
                  /\ pc = "run" /\ run.trial /\ TRUE \in air => Silent \/ up

\* What a trial with audio makes suspicious is the video output, or all is well again.
SuspicionJustified == videoSuspect => Silent \/ (Spent /\ up /\ FALSE \notin air)

IInv == /\ faults["outage"] <= 1
        /\ SameSource
        /\ AwayOnce
        /\ TrialJustified
        /\ SuspicionJustified

Inv == TypeOK /\ IInv

LEMMA InitIInv == Init /\ Faults["outage"] <= 1 => IInv
BY DEF Init, IInv, SameSource, AwayOnce, VideoKnown, TrialJustified, SuspicionJustified, Unprobed

\* Only an outage uses up the outage.
LEMMA OutageKept ==
  ASSUME TypeOK, NEW kind \in {"item", "write", "crash"}, Happens(kind)
  PROVE  faults'["outage"] = faults["outage"]
BY TypeParts, HappensType DEF WorldTyped, FaultKinds

LEMMA SnapshotIInv == ASSUME Inv, Snapshot PROVE IInv'
<1>1. SameSource'
  BY DEF Snapshot, SameSource
<1>2. AwayOnce'
  BY DEF Inv, IInv, Snapshot, AwayOnce, VideoKnown, Spent
<1>3. TrialJustified'
  BY DEF Inv, IInv, Snapshot, TrialJustified, Silent, Spent
<1>4. SuspicionJustified'
  BY DEF Inv, IInv, Snapshot, SuspicionJustified, Silent, Spent
<1> QED
  BY <1>1, <1>2, <1>3, <1>4 DEF Inv, IInv, Snapshot

\* A probe succeeds only while the source can be reached.
LEMMA ProbeSeesSource == ASSUME ProbeOnce, probe' = "ok" PROVE probe = "ok" \/ up
BY DEF ProbeOnce

LEMMA ResolveCodecIInv == ASSUME Inv, ResolveCodec PROVE IInv'
<1>1. session \in SessionRecords
  BY TypeParts DEF Inv, RecordsTyped
<1>2. session'.video = session.video
  BY <1>1 DEF ResolveCodec, Decide, SessionRecords
<1>3. disk' = disk \/ disk' = session'
  BY DEF ResolveCodec, Decide, Save
<1>4. probe' = "ok" => probe = "ok" \/ up
  BY ProbeSeesSource DEF ResolveCodec
<1>5. AwayOnce'
  BY <1>2, <1>3, <1>4 DEF Inv, IInv, ResolveCodec, AwayOnce, VideoKnown, Spent
<1> QED
  BY <1>5 DEF Inv, IInv, ResolveCodec, counters, SameSource, TrialJustified, SuspicionJustified, Silent, Spent

LEMMA ResolveVideoIInv == ASSUME Inv, ResolveVideo PROVE IInv'
<1>1. session \in SessionRecords /\ run \in RunRecords
  BY TypeParts DEF Inv, RecordsTyped, ControlTyped
<1>2. probe' = "ok" => probe = "ok" \/ up
  BY ProbeSeesSource DEF ResolveVideo
<1>3. run'.video => snap.video = "on" \/ probe' = "ok"
  BY <1>1 DEF ResolveVideo, RunRecords
<1>4. session'.video = "on" => session.video = "on" \/ probe' = "ok"
  BY <1>1 DEF ResolveVideo, SessionRecords
<1>5. disk' = disk \/ disk' = session'
  BY DEF ResolveVideo, Save
<1>6. AwayOnce'
  BY <1>2, <1>3, <1>4, <1>5 DEF Inv, IInv, ResolveVideo, AwayOnce, VideoKnown, Spent
<1> QED
  BY <1>6 DEF Inv, IInv, ResolveVideo, counters, SameSource, TrialJustified, SuspicionJustified, Silent, Spent

LEMMA BeginRunIInv == ASSUME Inv, BeginRun PROVE IInv'
<1>1. run \in RunRecords /\ up \in BOOLEAN
  BY TypeParts DEF Inv, ControlTyped, WorldTyped
<1>2. faults'["outage"] = faults["outage"]
  BY OutageKept DEF Inv, BeginRun
<1>3. /\ run'.source = snap.source
      /\ run'.video => run.video /\ ~videoTrial
      /\ run'.trial => videoTrial
  BY <1>1 DEF BeginRun, RunRecords
<1>4. disk' = disk \/ disk' = session
  BY DEF BeginRun
<1>5. SameSource'
  BY <1>3 DEF Inv, IInv, BeginRun, SameSource
<1>6. AwayOnce'
  BY <1>1, <1>2, <1>3, <1>4 DEF Inv, IInv, BeginRun, AwayOnce, VideoKnown, Spent
<1>7. TrialJustified'
  BY <1>1, <1>2, <1>3 DEF Inv, IInv, BeginRun, TrialJustified, Silent, Spent
<1>8. SuspicionJustified'
  BY <1>1, <1>2 DEF Inv, IInv, BeginRun, SuspicionJustified, Silent, Spent
<1> QED
  BY <1>2, <1>5, <1>6, <1>7, <1>8 DEF Inv, IInv

\* A run with video that ends empty and without a telling line has a silent video
\* output or met the outage.
LEMMA EmptyRunHasCause ==
  ASSUME NEW e \in Endings \cup WriteErrors,
         IsSilent(e), ~IsOptionFault(e), ~IsVideoFault(e), ~IsRejection(e)
  PROVE  \/ VideoBroken /\ Trait[run.source].video = "silent"
         \/ FALSE \in air
<1>1. run.video /\ ~e.bytes /\ ~e.werr
  BY DEF IsSilent
<1>2. e \in Endings
  BY <1>1 DEF WriteErrors
<1>3. ~Refused(e)
  <2>1. ~(Picky /\ e.lines = {"option"})
    BY <1>1 DEF IsOptionFault, Picky
  <2>2. ~(Uncopyable /\ e.lines = {"reject"})
    BY <1>1 DEF IsRejection, Uncopyable
  <2> QED
    BY <2>1, <2>2 DEF Refused
<1>4. CASE VideoFails(e)
  <2>1. "video" \notin e.lines
    BY <1>1 DEF IsVideoFault
  <2> QED
    BY <1>4, <2>1 DEF VideoFails
<1>5. ~HungUp(e)
  BY <1>1 DEF HungUp
<1> QED
  BY <1>2, <1>3, <1>4, <1>5 DEF Endings

\* A run that wrote audio, and could write it, has reached its source.
LEMMA AudioMeansReached ==
  ASSUME NEW e \in Endings \cup WriteErrors, e.bytes, ~e.werr
  PROVE  TRUE \in air
BY DEF Endings, WriteErrors, CutOff

LEMMA EndRunIInv ==
  ASSUME Inv, NEW e \in Endings \cup WriteErrors,
         OptionFault(e) \/ VideoFault(e) \/ CopyRejected(e) \/ SilentWithVideo(e) \/ OtherEnd(e)
  PROVE  IInv'
<1>1. RunEnded(e) /\ Save
  BY DEF OptionFault, VideoFault, CopyRejected, SilentWithVideo, OtherEnd
<1>2. faults'["outage"] = faults["outage"]
  BY <1>1, OutageKept DEF Inv, RunEnded
<1>3. session \in SessionRecords
  BY TypeParts DEF Inv, RecordsTyped
<1>4. session'.video = "on" => session.video = "on"
  <2>1. /\ [session EXCEPT !.video = "none", !.maps = "plain"].video = "none"
        /\ [session EXCEPT !.maps = "variant"].video = session.video
        /\ [session EXCEPT !.codec = "aac"].video = session.video
    BY <1>3 DEF SessionRecords
  <2> QED
    BY <2>1 DEF OptionFault, VideoFault, CopyRejected, SilentWithVideo, OtherEnd, DisableVideo
<1>5. SameSource'
  BY <1>1 DEF RunEnded, SameSource
<1>6. AwayOnce'
  BY <1>1, <1>2, <1>4 DEF Inv, IInv, RunEnded, Save, AwayOnce, VideoKnown, Spent
<1>7. videoTrial' => videoTrial \/ Silent \/ Spent
  <2>1. CASE SilentWithVideo(e)
    <3>1. run.video /\ run.source = videoCounterOf /\ pc = "run"
      BY <2>1 DEF Inv, IInv, SameSource, SilentWithVideo, IsSilent, RunEnded
    <3>2. Silent \/ FALSE \in air
      BY <2>1, <3>1, EmptyRunHasCause DEF SilentWithVideo, Silent
    <3> QED
      BY <3>1, <3>2 DEF Inv, IInv, AwayOnce
  <2>2. CASE OptionFault(e) \/ VideoFault(e) \/ CopyRejected(e) \/ OtherEnd(e)
    BY <2>2 DEF OptionFault, VideoFault, CopyRejected, OtherEnd, DisableVideo
  <2> QED
    BY <2>1, <2>2
<1>8. TrialJustified'
  BY <1>1, <1>2, <1>7 DEF Inv, IInv, RunEnded, TrialJustified, Silent, Spent
<1>9. videoSuspect' => SuspectBefore(e)
  BY DEF OptionFault, VideoFault, CopyRejected, SilentWithVideo, OtherEnd, DisableVideo
<1>10. SuspectBefore(e) => Silent \/ (Spent /\ up)
  <2>1. CASE videoSuspect
    BY <2>1 DEF Inv, IInv, SuspicionJustified
  <2>2. CASE run.trial /\ ~e.werr /\ e.bytes
    <3>1. TRUE \in air /\ pc = "run"
      BY <1>1, <2>2, AudioMeansReached DEF RunEnded
    <3> QED
      BY <2>2, <3>1 DEF Inv, IInv, TrialJustified
  <2> QED
    BY <2>1, <2>2 DEF SuspectBefore
<1>11. SuspicionJustified'
  BY <1>1, <1>2, <1>9, <1>10 DEF RunEnded, SuspicionJustified, Silent, Spent
<1> QED
  BY <1>2, <1>5, <1>6, <1>8, <1>11 DEF Inv, IInv

LEMMA ApplyItemIInv == ASSUME Inv, ApplyItem PROVE IInv'
<1>1. session \in SessionRecords
  BY TypeParts DEF Inv, RecordsTyped
<1>2. session'.video = "on" => session.video = "on"
  BY <1>1 DEF ApplyItem, Unprobed, SessionRecords
<1>3. faults'["outage"] = faults["outage"]
  BY OutageKept DEF Inv, ApplyItem
<1> QED
  BY <1>2, <1>3 DEF Inv, IInv, ApplyItem, counters, SameSource, AwayOnce, VideoKnown, TrialJustified,
                    SuspicionJustified, Silent, Spent

LEMMA ProcessIInv == ASSUME Inv, Retry \/ Persist \/ Restart \/ UNCHANGED vars PROVE IInv'
<1>1. CASE Retry \/ Restart
  <2>1. AwayOnce'
    BY <1>1 DEF Inv, IInv, Retry, Restart, AwayOnce, VideoKnown, Spent
  <2>2. pc' = "top" /\ UNCHANGED <<videoTrial, videoSuspect, videoCounterOf, up, air, faults>>
    BY <1>1 DEF Retry, Restart, counters
  <2>3. (Silent' <=> Silent) /\ (Spent' <=> Spent)
    BY <2>2 DEF Silent, Spent
  <2>4. TrialJustified'
    BY <2>2, <2>3 DEF Inv, IInv, TrialJustified
  <2>5. SuspicionJustified'
    BY <2>2, <2>3 DEF Inv, IInv, SuspicionJustified
  <2> QED
    BY <1>1, <2>1, <2>4, <2>5 DEF Inv, IInv, Retry, Restart, SameSource
<1>2. CASE Persist \/ UNCHANGED vars
  <2>1. UNCHANGED <<session, pc, snap, probe, run, counters, up, air, faults>> /\ disk' \in {disk, session}
    BY <1>2 DEF Persist, vars
  <2>2. AwayOnce'
    BY <2>1 DEF Inv, IInv, AwayOnce, VideoKnown, Spent
  <2>3. (Silent' <=> Silent) /\ (Spent' <=> Spent)
    BY <2>1 DEF counters, Silent, Spent
  <2>4. UNCHANGED <<pc, run, up, air, videoTrial, videoSuspect>>
    BY <2>1 DEF counters
  <2>5. TrialJustified'
    BY <2>3, <2>4 DEF Inv, IInv, TrialJustified
  <2>6. SuspicionJustified'
    BY <2>3, <2>4 DEF Inv, IInv, SuspicionJustified
  <2> QED
    BY <2>1, <2>2, <2>5, <2>6 DEF Inv, IInv, counters, SameSource
<1> QED
  BY <1>1, <1>2

LEMMA StopCrashIInv == ASSUME Inv, Stop \/ Crash PROVE IInv'
<1>1. faults'["outage"] = faults["outage"]
  BY OutageKept DEF Inv, Stop, Crash
<1>2. /\ pc' \in {"done", "down"} /\ air' = {} /\ probe' = "todo" /\ up' = up /\ disk' = disk
      /\ session' = session \/ session' = disk
      /\ snap' = session'
      /\ videoTrial' = FALSE /\ videoSuspect' = FALSE
  BY DEF Stop, Crash, Forget
<1> QED
  BY <1>1, <1>2 DEF Inv, IInv, SameSource, AwayOnce, VideoKnown, TrialJustified, SuspicionJustified, Spent

LEMMA SourceIInv == ASSUME Inv, Outage \/ Return PROVE IInv'
<1>1. /\ faults \in [FaultKinds -> Nat] /\ up \in BOOLEAN
      /\ faults["outage"] <= 1
  BY TypeParts DEF Inv, IInv, WorldTyped
<1>2. CASE Outage
  <2>1. faults["outage"] = 1 /\ faults'["outage"] = 0
    BY <1>1, <1>2 DEF Outage, Happens, FaultKinds
  <2>2. AwayOnce'
    BY <1>2, <2>1 DEF Inv, IInv, Outage, Seen, AwayOnce, Spent
  <2>3. /\ UNCHANGED <<run, videoTrial, videoSuspect, videoCounterOf>>
        /\ Spent' /\ ~Spent
    BY <1>2, <2>1 DEF Outage, counters, Spent
  <2>4. videoSuspect => Silent
    BY <2>3 DEF Inv, IInv, SuspicionJustified
  <2>5. Silent' <=> Silent
    BY <2>3 DEF Silent
  <2>6. videoTrial \/ (pc = "run" /\ run.trial) => Silent
    BY <2>3 DEF Inv, IInv, TrialJustified
  <2>7. pc = "run" /\ run.trial => ~run.video
    BY DEF Inv, IInv, TrialJustified
  <2>8. pc' = pc
    BY <1>2 DEF Outage
  <2>9. TrialJustified'
    BY <2>3, <2>5, <2>6, <2>7, <2>8 DEF TrialJustified
  <2>10. SuspicionJustified'
    BY <2>3, <2>4, <2>5 DEF SuspicionJustified
  <2> QED
    BY <1>2, <2>1, <2>2, <2>9, <2>10 DEF Inv, IInv, Outage, counters, SameSource
<1>3. CASE Return
  <2>1. AwayOnce'
    BY <1>3 DEF Inv, IInv, Return, Seen, AwayOnce, Spent
  <2>2. TrialJustified'
    BY <1>3 DEF Inv, IInv, Return, Seen, TrialJustified, counters, Silent, Spent
  <2>3. SuspicionJustified'
    BY <1>3 DEF Inv, IInv, Return, Seen, SuspicionJustified, counters, Silent, Spent
  <2> QED
    BY <1>3, <2>1, <2>2, <2>3 DEF Inv, IInv, Return, counters, SameSource
<1> QED
  BY <1>2, <1>3

LEMMA NextIInv == Inv /\ [Next]_vars => IInv'
<1> SUFFICES ASSUME Inv, [Next]_vars PROVE IInv'
  OBVIOUS
<1>1. CASE Snapshot \/ ResolveCodec \/ ResolveVideo \/ BeginRun
  BY <1>1, SnapshotIInv, ResolveCodecIInv, ResolveVideoIInv, BeginRunIInv
<1>2. CASE EndRun
  BY <1>2, EndRunIInv DEF EndRun
<1>3. CASE Retry \/ Persist \/ Restart \/ UNCHANGED vars
  BY <1>3, ProcessIInv
<1>4. CASE ApplyItem
  BY <1>4, ApplyItemIInv
<1>5. CASE Stop \/ Crash
  BY <1>5, StopCrashIInv
<1>6. CASE Outage \/ Return
  BY <1>6, SourceIInv
<1> QED
  BY <1>1, <1>2, <1>3, <1>4, <1>5, <1>6 DEF Next, Supervise

\* Video is turned off only at the end of a run with a fault of the video output.
LEMMA GivenUpByFault ==
  ASSUME Inv, [Next]_vars, VideoGivenUp
  PROVE  VideoBroken
<1>1. PICK e \in Endings \cup WriteErrors :
         OptionFault(e) \/ VideoFault(e) \/ CopyRejected(e) \/ SilentWithVideo(e) \/ OtherEnd(e)
  BY RunEndsByEndRun DEF EndRun, VideoGivenUp
<1>2. session \in SessionRecords
  BY TypeParts DEF Inv, RecordsTyped
<1>3. session.video # "none" /\ session'.video = "none"
  BY DEF VideoGivenUp
<1>4. /\ [session EXCEPT !.maps = "variant"].video = session.video
      /\ [session EXCEPT !.codec = "aac"].video = session.video
  BY <1>2 DEF SessionRecords
<1>5. ~OptionFault(e) /\ ~CopyRejected(e) /\ ~OtherEnd(e)
  BY <1>3, <1>4 DEF OptionFault, CopyRejected, OtherEnd
<1>6. CASE VideoFault(e)
  <2>1. "video" \in e.lines
    BY <1>6 DEF VideoFault, IsVideoFault
  <2>2. e \in Endings
    BY <2>1 DEF WriteErrors
  <2>3. e.lines # {} /\ e.lines # {"option"} /\ e.lines # {"reject"}
    BY <2>1
  <2>4. ~Refused(e)
    BY <2>3 DEF Refused
  <2>5. ~HungUp(e) /\ ~CutOff(e)
    BY <2>3 DEF HungUp, CutOff
  <2>6. VideoFails(e)
    BY <2>2, <2>4, <2>5 DEF Endings
  <2> QED
    BY <2>6 DEF VideoFails
<1>7. CASE SilentWithVideo(e)
  <2>1. SuspectBefore(e)
    BY <1>3, <1>7 DEF SilentWithVideo
  <2>2. run.video /\ pc = "run" /\ run.source = videoCounterOf /\ ~run.trial
    BY <1>7 DEF Inv, IInv, SameSource, TrialJustified, SilentWithVideo, IsSilent, RunEnded
  <2>3. Silent \/ FALSE \notin air
    BY <2>1, <2>2 DEF Inv, IInv, SuspectBefore, SuspicionJustified
  <2>4. CASE Silent
    BY <2>2, <2>4 DEF Silent, VideoBroken
  <2>5. CASE FALSE \notin air
    BY <1>7, <2>5, EmptyRunHasCause DEF SilentWithVideo
  <2> QED
    BY <2>3, <2>4, <2>5
<1> QED
  BY <1>1, <1>5, <1>6, <1>7

\* One outage, wherever it falls, never costs the picture of a source whose video can
\* be recorded as it was mapped.
THEOREM VideoBlamedHolds == Spec => VideoBlamedRightly
<1>1. CASE Faults["outage"] <= 1
  <2>1. Init => Inv
    BY <1>1, InitType, InitIInv DEF Inv
  <2>2. Inv /\ [Next]_vars => Inv'
    BY NextType, NextIInv DEF Inv
  <2>3. Inv /\ [Next]_vars => (Faults["outage"] <= 1 /\ VideoGivenUp => VideoBroken)
    BY GivenUpByFault
  <2> QED
    BY <2>1, <2>2, <2>3, PTL DEF Spec, VideoBlamedRightly
<1>2. CASE ~(Faults["outage"] <= 1)
  BY <1>2, PTL DEF Spec, VideoBlamedRightly
<1> QED
  BY <1>1, <1>2
=============================================================================
