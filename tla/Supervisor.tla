----------------------------- MODULE Supervisor -----------------------------
(***************************************************************************)
(* The supervisor of one capture (internal/recorder/ffmpeg.go): it probes  *)
(* the source, runs ffmpeg, reads from how the run ended whose fault that  *)
(* was, and runs it again.  From a sequence of runs it must find settings  *)
(* that work: give up stream copy, the video output or optional options    *)
(* when they are at fault, and none of them because the source was away    *)
(* for a while.  The decisions are fields of the session, written under    *)
(* Manager.mu; a probe or a run works from a copy of the session, and the  *)
(* schedule may give the session another source meanwhile.                 *)
(*                                                                         *)
(* What a source is like is a record of traits.  The bytes of a capture    *)
(* and its run table, the length of the back-off and the names of the TS   *)
(* files are left out.                                                     *)
(***************************************************************************)
EXTENDS Naturals

CONSTANTS Sources,      \* the URLs the schedule may name
          Trait,        \* what ffprobe and ffmpeg find there
          Items,        \* the schedule's items: a source and the codec asked for
          RecordVideo,  \* Session.Video, pinned when the session is created
          Faults        \* bounds: how often each event of the environment may happen

Requests == {"auto", "copy", "aac"}

FaultKinds == {"item", "outage", "write", "crash"}

\* "own" also maps the variant's own audio into the video output.
Maps == {"plain", "variant", "own"}

\* audio: codec of the first audio stream; copies: the ADTS muxer takes it;
\* video: absent, good, or failing with or without an error line; maps: what
\* decideVideo maps; ownWorks: the video output can take the variant's audio;
\* picky: ffmpeg refuses an optional option for this source.
Traits == [audio : {"aac", "other"}, copies : BOOLEAN,
           video : {"none", "works", "loud", "silent"}, maps : Maps, ownWorks : BOOLEAN,
           picky : BOOLEAN]

ASSUME TraitAssumption   == Trait \in [Sources -> Traits]
ASSUME ItemsAssumption   == Items \subseteq [source : Sources, codec : Requests \cup {"omitted"}]
ASSUME VideoAssumption   == RecordVideo \in BOOLEAN
ASSUME FaultsAssumption  == Faults \in [FaultKinds -> Nat]

VARIABLES session,         \* the session: source, codec request and decisions
          disk,            \* its sidecar
          pc,              \* where the supervisor goroutine is
          snap,            \* its copy of the session in this iteration
          probe,           \* the memo of probeOnce: todo, ok, failed
          run,             \* the run being prepared or running
          copyFailures, safeArgs, videoFailures, videoTrial, videoSuspect, videoCounterOf,
          up,              \* the source can be reached
          air,             \* values of up since this run began
          faults           \* events left, by kind

counters == <<copyFailures, safeArgs, videoFailures, videoTrial, videoSuspect, videoCounterOf>>
vars == <<session, disk, pc, snap, probe, run, counters, up, air, faults>>

SessionRecords == [source : Sources, request : Requests, codec : {"unknown", "copy", "aac"},
                   video : {"unknown", "none", "on"}, maps : Maps]

\* applyItem: an item without a codec leaves the request as it was.
Request(it, old) == IF it.codec = "omitted" THEN old ELSE it.codec

\* The session of an item as long as nothing is known about its source.
Unprobed(it, old) ==
  [source |-> it.source, request |-> Request(it, old), codec |-> "unknown", video |-> "unknown", maps |-> "plain"]

NoRun(src) == [source |-> src, codec |-> "aac", video |-> FALSE, maps |-> "plain", trial |-> FALSE]

Init == \E it \in Items :
          /\ session = Unprobed(it, "auto")
          /\ disk = session
          /\ snap = session
          /\ run = NoRun(it.source)
          /\ copyFailures = 0 /\ safeArgs = FALSE /\ videoFailures = 0
          \* the first iteration sets videoCounterOf
          /\ videoTrial = FALSE /\ videoSuspect = FALSE /\ videoCounterOf = it.source
          /\ pc = "top" /\ probe = "todo"
          /\ up \in BOOLEAN /\ air = {}
          /\ faults = Faults

Happens(kind) == /\ faults[kind] > 0
                 /\ faults' = [faults EXCEPT ![kind] = @ - 1]

\* save and saveQuick: the whole session, and every caller ignores the error.
Save == disk' \in {disk, session'}

\* Counters are only ever compared with 2.
Counted(n) == IF n < 2 THEN n + 1 ELSE 2

-----------------------------------------------------------------------------
\* One iteration of supervise, up to the start of ffmpeg.

Snapshot ==
  /\ pc = "top"
  /\ snap' = session
  /\ videoCounterOf' = session.source
  /\ IF session.source # videoCounterOf
     THEN videoFailures' = 0 /\ videoTrial' = FALSE /\ videoSuspect' = FALSE
     ELSE UNCHANGED <<videoFailures, videoTrial, videoSuspect>>
  /\ probe' = "todo"
  /\ pc' = "codec"
  /\ UNCHANGED <<session, disk, run, copyFailures, safeArgs, up, air, faults>>

\* probeOnce: asks ffprobe once per iteration.
ProbeOnce == probe' = IF probe # "todo" THEN probe ELSE IF up THEN "ok" ELSE "failed"

Probed == Trait[snap.source]

\* resolveCodec: a requested codec is taken as it is, a failed probe decides
\* only this run.  The decision goes to the session as it is now.
Decide(codec) == /\ session' = [session EXCEPT !.codec = codec]
                 /\ Save
                 /\ run' = [run EXCEPT !.codec = codec]

ResolveCodec ==
  /\ pc = "codec"
  /\ \/ /\ snap.codec # "unknown"
        /\ run' = [run EXCEPT !.codec = snap.codec]
        /\ UNCHANGED <<session, disk, probe>>
     \/ /\ snap.codec = "unknown" /\ snap.request # "auto"
        /\ Decide(snap.request)
        /\ UNCHANGED probe
     \/ /\ snap.codec = "unknown" /\ snap.request = "auto"
        /\ ProbeOnce
        /\ IF probe' = "ok"
           THEN Decide(IF Probed.audio = "aac" THEN "copy" ELSE "aac")
           ELSE run' = [run EXCEPT !.codec = "aac"] /\ UNCHANGED <<session, disk>>
  /\ pc' = "video"
  /\ UNCHANGED <<snap, counters, up, air, faults>>

\* resolveVideo, with decideVideo.
ResolveVideo ==
  /\ pc = "video"
  /\ \/ /\ ~RecordVideo
        /\ run' = [run EXCEPT !.video = FALSE]
        /\ UNCHANGED <<session, disk, probe>>
     \/ /\ RecordVideo /\ snap.video # "unknown"
        /\ run' = [run EXCEPT !.video = snap.video = "on", !.maps = snap.maps]
        /\ UNCHANGED <<session, disk, probe>>
     \/ /\ RecordVideo /\ snap.video = "unknown"
        /\ ProbeOnce
        /\ LET found == Probed.video # "none"
               maps  == IF found THEN Probed.maps ELSE "plain"
           IN IF probe' = "ok"
              THEN /\ session' = [session EXCEPT !.video = IF found THEN "on" ELSE "none", !.maps = maps]
                   /\ Save
                   /\ run' = [run EXCEPT !.video = found, !.maps = maps]
              ELSE run' = [run EXCEPT !.video = FALSE] /\ UNCHANGED <<session, disk>>
  /\ pc' = "begin"
  /\ UNCHANGED <<snap, counters, up, air, faults>>

\* The audio-only trial is used up by the run that starts; a run with video needs
\* a TS file name that is on disk (prepareVideoFile) and goes without it otherwise.
BeginRun ==
  /\ pc = "begin"
  /\ \/ /\ run.video /\ ~videoTrial
        /\ run' = [run EXCEPT !.source = snap.source, !.trial = FALSE]
        /\ disk' = session
        /\ UNCHANGED faults
     \/ /\ run' = [run EXCEPT !.source = snap.source, !.video = FALSE, !.trial = videoTrial]
        /\ IF run.video /\ ~videoTrial THEN Happens("write") ELSE UNCHANGED faults
        /\ UNCHANGED disk
  /\ videoTrial' = FALSE
  /\ air' = {up}
  /\ pc' = "run"
  /\ UNCHANGED <<session, snap, probe, copyFailures, safeArgs, videoFailures, videoSuspect,
                 videoCounterOf, up>>

-----------------------------------------------------------------------------
\* What ffmpeg does with a run.

Picky == Trait[run.source].picky /\ ~safeArgs

Uncopyable == run.codec = "copy" /\ (Trait[run.source].audio # "aac" \/ ~Trait[run.source].copies)

\* Maps found in another source may not exist in this one.
MapsWork(t, maps) == \/ maps = "plain"
                     \/ maps = "variant" /\ t.maps # "plain"
                     \/ maps = "own" /\ t.maps = "own" /\ t.ownWorks

VideoBroken == /\ run.video
               /\ \/ Trait[run.source].video # "works"
                  \/ ~MapsWork(Trait[run.source], run.maps)

Delivers == ~Picky /\ ~Uncopyable /\ ~VideoBroken

\* How a run may end: whether writing the capture failed, whether audio was
\* written, whether the exit was non-zero, and which telling lines were printed.
EndingRecords == [werr : BOOLEAN, bytes : BOOLEAN, err : BOOLEAN,
                  lines : SUBSET {"option", "reject", "video"}]

Refused(e) == /\ ~e.bytes /\ e.err
              /\ \/ Picky /\ e.lines = {"option"}
                 \/ ~Picky /\ Uncopyable /\ e.lines = {"reject"}

\* A video output that fails with a line may do so after audio was written, and its
\* own ADTS muxer prints what looks like a rejection of the copy.
VideoFails(e) == /\ VideoBroken /\ ~Picky
                 /\ e.bytes => ~Uncopyable
                 /\ IF Trait[run.source].video = "silent"
                    THEN ~e.bytes /\ e.lines = {}
                    ELSE e.err /\ {"video"} \subseteq e.lines /\ e.lines \subseteq {"video", "reject"}

\* The server closes the connection of a run that delivers.
HungUp(e) == Delivers /\ e.bytes /\ e.lines = {}

\* A run that loses its source may have written audio before, if it could.
CutOff(e) == e.lines = {} /\ (e.bytes => Delivers /\ TRUE \in air)

Endings == {e \in EndingRecords :
              /\ ~e.werr
              /\ \/ TRUE \in air /\ (Refused(e) \/ VideoFails(e) \/ HungUp(e))
                 \/ FALSE \in air /\ CutOff(e)}

WriteErrors == {e \in EndingRecords : e.werr /\ e.err /\ e.lines = {}}

-----------------------------------------------------------------------------
\* The bookkeeping at the end of a run, one action per branch of supervise.
\* The branches are tried in this order.

\* Mutant: what looks like a rejection of the copy is one, whatever else was printed.
IsVideoFaultUnlessRejected(e) ==
  run.video /\ ~e.werr /\ "video" \in e.lines /\ "reject" \notin e.lines /\ (e.err \/ ~e.bytes)

\* Mutant: only a run that exits with an error counts.
IsSilentOnError(e) == run.video /\ ~e.bytes /\ ~e.werr /\ e.err

IsOptionFault(e) == ~e.bytes /\ ~safeArgs /\ ~e.werr /\ "option" \in e.lines
IsVideoFault(e)  == run.video /\ ~e.werr /\ "video" \in e.lines /\ (e.err \/ ~e.bytes)
IsRejection(e)   == run.codec = "copy" /\ ~e.bytes /\ ~e.werr /\ "reject" \in e.lines
IsSilent(e)      == run.video /\ ~e.bytes /\ ~e.werr

\* A trial that wrote audio raises the suspicion, one that did not clears the count.
FailuresBefore(e) == IF run.trial /\ ~e.werr THEN 0 ELSE videoFailures
SuspectBefore(e)  == videoSuspect \/ (run.trial /\ ~e.werr /\ e.bytes)

RunEnded(e) == /\ pc = "run"
               /\ \/ e \in Endings /\ UNCHANGED faults
                  \/ e \in WriteErrors /\ Happens("write")
               /\ pc' = "wait"
               /\ air' = {}
               /\ UNCHANGED <<snap, probe, run, videoCounterOf, up>>

OptionFault(e) ==
  /\ RunEnded(e) /\ IsOptionFault(e)
  /\ safeArgs' = TRUE
  /\ copyFailures' = 0
  /\ videoFailures' = FailuresBefore(e) /\ videoSuspect' = SuspectBefore(e)
  /\ UNCHANGED <<session, videoTrial>>
  /\ Save

\* disableVideoLocked: for the rest of the session.
DisableVideo == /\ session' = [session EXCEPT !.video = "none", !.maps = "plain"]
                /\ videoFailures' = 0 /\ videoTrial' = FALSE /\ videoSuspect' = FALSE

VideoFault(e) ==
  /\ RunEnded(e) /\ ~IsOptionFault(e) /\ IsVideoFault(e)
  /\ IF Counted(FailuresBefore(e)) = 2
     THEN DisableVideo
     ELSE /\ videoFailures' = Counted(FailuresBefore(e)) /\ videoSuspect' = FALSE
          \* one more try, with the first audio instead of the variant's own
          /\ session' = IF run.maps = "own" /\ session.maps = "own"
                        THEN [session EXCEPT !.maps = "variant"] ELSE session
          /\ UNCHANGED videoTrial
  /\ UNCHANGED <<copyFailures, safeArgs>>
  /\ Save

CopyRejected(e) ==
  /\ RunEnded(e) /\ ~IsOptionFault(e) /\ ~IsVideoFault(e) /\ IsRejection(e)
  /\ copyFailures' = Counted(copyFailures)
  /\ session' = IF snap.request # "copy" /\ copyFailures' = 2
                THEN [session EXCEPT !.codec = "aac"] ELSE session
  /\ videoFailures' = FailuresBefore(e) /\ videoSuspect' = SuspectBefore(e)
  /\ UNCHANGED <<safeArgs, videoTrial>>
  /\ Save

\* Mutant: two empty runs settle it, without a trial.
SilentWithVideoNoTrial(e) ==
  /\ RunEnded(e) /\ ~IsOptionFault(e) /\ ~IsVideoFault(e) /\ ~IsRejection(e) /\ IsSilent(e)
  /\ IF Counted(FailuresBefore(e)) = 2
     THEN DisableVideo
     ELSE /\ videoFailures' = Counted(FailuresBefore(e))
          /\ UNCHANGED <<session, videoTrial, videoSuspect>>
  /\ UNCHANGED <<copyFailures, safeArgs>>
  /\ Save

SilentWithVideo(e) ==
  /\ RunEnded(e) /\ ~IsOptionFault(e) /\ ~IsVideoFault(e) /\ ~IsRejection(e) /\ IsSilent(e)
  /\ IF SuspectBefore(e)
     THEN DisableVideo
     ELSE /\ videoFailures' = Counted(FailuresBefore(e))
          /\ videoTrial' = (Counted(FailuresBefore(e)) = 2)
          /\ videoSuspect' = FALSE
          /\ UNCHANGED session
  /\ UNCHANGED <<copyFailures, safeArgs>>
  /\ Save

\* No branch above: audio was written, or nothing can be learnt from the run.
OtherEnd(e) ==
  /\ RunEnded(e) /\ ~IsOptionFault(e) /\ ~IsVideoFault(e) /\ ~IsRejection(e) /\ ~IsSilent(e)
  /\ copyFailures' = IF e.bytes THEN 0 ELSE copyFailures
  /\ videoFailures' = IF e.bytes /\ ~run.trial THEN 0 ELSE FailuresBefore(e)
  /\ videoSuspect' = (SuspectBefore(e) /\ ~(e.bytes /\ run.video))
  /\ UNCHANGED <<session, safeArgs, videoTrial>>
  /\ Save

EndRun == \E e \in Endings \cup WriteErrors :
            OptionFault(e) \/ VideoFault(e) \/ CopyRejected(e) \/ SilentWithVideo(e) \/ OtherEnd(e)

\* The back-off is over.
Retry == /\ pc = "wait"
         /\ pc' = "top"
         /\ UNCHANGED <<session, disk, snap, probe, run, counters, up, air, faults>>

-----------------------------------------------------------------------------
\* The manager and the environment.

\* applyItem, called by Reconcile: a new source is probed again.  It does not
\* stop the run.
ApplyItem ==
  /\ pc \notin {"down", "done"}
  /\ Happens("item")
  /\ \E it \in Items :
       session' = IF it.source = session.source THEN [session EXCEPT !.request = Request(it, @)]
                  ELSE Unprobed(it, session.request)
  /\ session' # session
  /\ UNCHANGED <<disk, pc, snap, probe, run, counters, up, air>>

Persist == /\ pc \notin {"down", "done"}
           /\ disk # session
           /\ disk' = session
           /\ UNCHANGED <<session, pc, snap, probe, run, counters, up, air, faults>>

\* The goroutine ends, and what it has learnt about runs with it.
Forget(s) == /\ snap' = s /\ probe' = "todo" /\ run' = NoRun(s.source) /\ air' = {}
             /\ copyFailures' = 0 /\ safeArgs' = FALSE /\ videoFailures' = 0
             /\ videoTrial' = FALSE /\ videoSuspect' = FALSE /\ videoCounterOf' = s.source

\* stopLocked cancels the context: every step of the supervisor checks it.
Stop == /\ pc \notin {"down", "done"}
        /\ pc' = "done"
        /\ Forget(session)
        /\ UNCHANGED <<session, disk, up, faults>>

Crash == /\ pc \notin {"down", "done"}
         /\ Happens("crash")
         /\ pc' = "down"
         /\ session' = disk
         /\ Forget(disk)
         /\ UNCHANGED <<disk, up>>

\* Recover: a new supervisor with the decisions of the sidecar.
Restart == /\ pc = "down"
           /\ pc' = "top"
           /\ UNCHANGED <<session, disk, snap, probe, run, counters, up, air, faults>>

Seen(state) == IF pc = "run" THEN air \cup {state} ELSE {}

Outage == /\ up
          /\ Happens("outage")
          /\ up' = FALSE
          /\ air' = Seen(FALSE)
          /\ UNCHANGED <<session, disk, pc, snap, probe, run, counters>>

Return == /\ ~up
          /\ up' = TRUE
          /\ air' = Seen(TRUE)
          /\ UNCHANGED <<session, disk, pc, snap, probe, run, counters, faults>>

Supervise == Snapshot \/ ResolveCodec \/ ResolveVideo \/ BeginRun \/ EndRun \/ Retry

Next == Supervise \/ ApplyItem \/ Persist \/ Stop \/ Crash \/ Restart \/ Outage \/ Return

Spec == Init /\ [][Next]_vars

\* The goroutine runs, a run that delivers nothing ends (its process exits or the
\* watchdog kills it), every outage ends and a crashed process is started again.
\* A write error never has to happen, and not for ever.
FairSpec == /\ Spec
            /\ WF_vars(Snapshot \/ ResolveCodec \/ ResolveVideo \/ BeginRun \/ Retry)
            /\ WF_vars((FALSE \in air \/ ~Delivers) /\ EndRun /\ UNCHANGED faults)
            /\ WF_vars(Restart) /\ WF_vars(Return)

-----------------------------------------------------------------------------
\* Properties.

\* Every variable keeps its type; of the counters only 0, 1 and 2 are told apart.
TypeOK ==
  /\ {session, disk, snap} \subseteq SessionRecords
  /\ pc \in {"top", "codec", "video", "begin", "run", "wait", "down", "done"}
  /\ probe \in {"todo", "ok", "failed"}
  /\ run \in [source : Sources, codec : {"copy", "aac"}, video : BOOLEAN, maps : Maps, trial : BOOLEAN]
  /\ {copyFailures, videoFailures} \subseteq 0 .. 2
  /\ {safeArgs, videoTrial, videoSuspect, up} \cup air \subseteq BOOLEAN
  /\ videoCounterOf \in Sources
  /\ faults \in [FaultKinds -> Nat]

RunEnds == pc = "run" /\ pc' = "wait"
VideoGivenUp == RunEnds /\ session.video # "none" /\ session'.video = "none"

\* An outage of the source, wherever it falls in the sequence of runs, does not
\* cost the picture: when video is turned off, the video output of the run that has
\* just ended was really at fault (supervise's attribution, disableVideoLocked).
\* Two outages may: one before the trial without video, one in the run after it.
VideoBlamedRightly == [][Faults["outage"] <= 1 /\ VideoGivenUp => VideoBroken]_vars

\* Stream copy is given up only for a source whose stream cannot be copied: what
\* a failing video output prints is never taken for a rejection (looksLikeCopyRejection).
CopyGivenUpRightly ==
  [][RunEnds /\ session.codec # "aac" /\ session'.codec = "aac" => Uncopyable]_vars

\* A codec=copy request can only be met if the source can be copied.
Capturable == session.request = "copy" => Trait[session.source].audio = "aac" /\ Trait[session.source].copies

\* Neither a broken video output nor a stream that cannot be copied nor an option
\* that ffmpeg refuses costs the audio for good: once outages are over the
\* supervisor settles on runs that deliver, and there is always another one.
AudioFlows == <>[]Capturable => /\ <>[](pc = "run" => Delivers)
                                /\ []<>(pc \in {"run", "done"})

\* The comment in applyItem: the decisions are forgotten "to re-probe against the
\* new source".  So what the session says was found out about its own source.
DecisionsFit ==
  LET t == Trait[session.source]
  IN /\ session.codec = "copy" /\ session.request # "copy" => t.audio = "aac"
     /\ session.codec = "aac" /\ session.request # "aac" => t.audio # "aac" \/ ~t.copies
     /\ session.video = "on" => t.video # "none"
     /\ session.video = "none" => t.video # "works"
=============================================================================
