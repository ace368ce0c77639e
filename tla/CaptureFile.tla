----------------------------- MODULE CaptureFile -----------------------------
(***************************************************************************)
(* The capture of one session and its run table (captureWriter, beginRun,  *)
(* openRunRecord, endRun, trimTail in internal/recorder/ffmpeg.go; the     *)
(* table in session.go; internal/adts).  ffmpeg is run again and again and *)
(* every run appends to the same file.  The table says which bytes belong  *)
(* to which run: a run has its own wall clock and its own video file, so   *)
(* a frame that is counted to another run is played at the wrong time.     *)
(*                                                                         *)
(* The file is a sequence of pieces, and offsets count pieces.  ffmpeg's   *)
(* output is frames and nothing else; the pipe cuts it anywhere.  Frame    *)
(* counts, durations and the clock itself are left out.                    *)
(***************************************************************************)
EXTENDS Integers, Sequences

CONSTANTS MaxRuns,     \* cap of the run table
          MinChain,    \* frames that make a tail trustworthy
          Window,      \* what TrimPartialTail reads
          Faults,      \* bounds: failed writes and saves, crashes
          RunBound,    \* bound: runs of ffmpeg
          FileBound    \* bound: pieces of the file

FaultKinds == {"write", "save", "crash"}

ASSUME MaxRunsAssumption  == MaxRuns \in Nat /\ MaxRuns >= 2
ASSUME ChainAssumption    == MinChain \in Nat \ {0} /\ Window \in Nat /\ Window > MinChain
ASSUME FaultsAssumption   == Faults \in [FaultKinds -> Nat]
ASSUME BoundsAssumption   == RunBound \in Nat /\ FileBound \in Nat

VARIABLES file,      \* the capture
          bytes,     \* activeRecording.bytes
          runs,      \* Session.Runs
          disk,      \* the runs in the sidecar
          pc,        \* the supervisor: top, run, flushed; done, measured; down
          restart,   \* whether the next run trims the tail first
          run,       \* runState, writeErr and the number of the run
          split,     \* adts.Splitter
          faults     \* events left, by kind

vars == <<file, bytes, runs, disk, pc, restart, run, split, faults>>

RunNumbers == 1 .. RunBound

\* A loose frame is complete, but the splitter passed it on as junk.
Pieces == [run : RunNumbers, kind : {"frame", "loose", "part"}]

Records == [covers : SUBSET RunNumbers, offset : Nat, bytes : Nat, open : BOOLEAN,
            files : SUBSET RunNumbers]

\* synced: the splitter trusts frame boundaries; held: what it buffers; ready: frames
\* it has passed to onFrame.
NewSplit == [synced |-> FALSE, held |-> "none", ready |-> 0]

NewRun(n, offset, video) == [n |-> n, offset |-> offset, bytes |-> 0, endBytes |-> 0, started |-> FALSE,
                             werr |-> FALSE, video |-> video]

Init == /\ file = <<>> /\ bytes = 0
        /\ runs = <<>> /\ disk = <<>>
        /\ pc = "top" /\ restart = FALSE
        /\ run = NewRun(0, 0, FALSE) /\ split = NewSplit
        /\ faults = Faults

Happens(kind) == /\ faults[kind] > 0
                 /\ faults' = [faults EXCEPT ![kind] = @ - 1]

\* save and saveQuick: errors are ignored.
SaveOrFail == \/ disk' = runs' /\ UNCHANGED faults
              \/ UNCHANGED disk /\ Happens("save")

-----------------------------------------------------------------------------
\* internal/adts: TrimPartialTail.

\* The number of complete frames in front of the last piece.
ChainLength(f) ==
  CHOOSE k \in 0 .. Len(f) - 1 :
    /\ \A i \in Len(f) - k .. Len(f) - 1 : f[i].kind # "part"
    /\ k = Len(f) - 1 \/ f[Len(f) - 1 - k].kind = "part"

EndsPartially(f) == f # <<>> /\ f[Len(f)].kind = "part"

\* ScanTail: a chain is trusted when it is long enough, or is the whole file.
Trusted(f) == \/ ChainLength(f) >= MinChain
              \/ ChainLength(f) >= 1 /\ ChainLength(f) = Len(f) - 1 /\ Len(f) <= Window

Trimmed(f) == IF EndsPartially(f) /\ Trusted(f) THEN SubSeq(f, 1, Len(f) - 1) ELSE f

-----------------------------------------------------------------------------
\* session.go: the run table.

\* Mutant: the two oldest records are merged, whatever they are.
CoalesceOldest(table) ==
  LET a == table[1]
      b == table[2]
  IN <<[a EXCEPT !.covers = @ \cup b.covers, !.bytes = @ + b.bytes, !.files = @ \cup b.files]>>
     \o SubSeq(table, 3, Len(table))

\* appendRun: the oldest pair that agrees on having video files, never the last record;
\* if there is none the oldest pair, without its video files.
Alike(a, b) == (a.files = {}) <=> (b.files = {})

Coalesced(table) ==
  LET pairs == {j \in 1 .. Len(table) - 2 : Alike(table[j], table[j + 1])}
      i == IF pairs = {} THEN 1 ELSE CHOOSE j \in pairs : \A k \in pairs : j <= k
      a == table[i]
      b == table[i + 1]
  IN SubSeq(table, 1, i - 1)
     \o <<[covers |-> a.covers \cup b.covers, offset |-> a.offset, bytes |-> a.bytes + b.bytes, open |-> FALSE,
           files  |-> IF pairs = {} THEN {} ELSE a.files \cup b.files]>>
     \o SubSeq(table, i + 2, Len(table))

AppendRun(table, r) == IF Len(table) < MaxRuns THEN Append(table, r) ELSE Coalesced(Append(table, r))

HasOpenRun(table) == table # <<>> /\ table[Len(table)].open

\* fixOpenRun: what a crash left open ends at the end of the trimmed file.
FixOpenRun(table, size) ==
  IF ~HasOpenRun(table) THEN table
  ELSE LET n == Len(table)
           start == table[n].offset
       IN [table EXCEPT ![n].open = FALSE, ![n].bytes = IF size >= start THEN size - start ELSE @]

-----------------------------------------------------------------------------
\* The supervisor and the writer of ffmpeg's output.

\* Mutant: only a recovered capture is trimmed.
BeginUntrimmed ==
  /\ pc = "top"
  /\ run.n < RunBound
  /\ \E video \in BOOLEAN : run' = NewRun(run.n + 1, bytes, video)
  /\ split' = NewSplit
  /\ pc' = "run"
  /\ UNCHANGED <<file, bytes, runs, disk, restart, faults>>

\* trimTail and beginRun; the run may record video.
Begin ==
  /\ pc = "top"
  /\ run.n < RunBound
  /\ file' = IF restart THEN Trimmed(file) ELSE file
  /\ bytes' = bytes - (Len(file) - Len(file'))
  /\ \E video \in BOOLEAN : run' = NewRun(run.n + 1, bytes', video)
  /\ split' = NewSplit
  /\ pc' = "run"
  /\ UNCHANGED <<runs, disk, restart, faults>>

\* Splitter.Feed: the bytes up to the end of a frame arrive.  The first frame is held
\* until a second header confirms it.
FeedFrame ==
  /\ pc = "run" /\ split.ready = 0 /\ ~run.werr
  /\ split' = IF split.synced THEN [split EXCEPT !.held = "none", !.ready = 1]
              ELSE IF split.held = "frame" THEN [synced |-> TRUE, held |-> "none", ready |-> 2]
              ELSE [split EXCEPT !.held = "frame"]
  /\ UNCHANGED <<file, bytes, runs, disk, pc, restart, run, faults>>

\* Splitter.Feed: the header and some more of the next frame arrive.
FeedPart ==
  /\ pc = "run" /\ split.ready = 0 /\ ~run.werr /\ split.held # "part"
  /\ split' = IF split.held = "frame" THEN [synced |-> TRUE, held |-> "part", ready |-> 1]
              ELSE [split EXCEPT !.held = "part"]
  /\ UNCHANGED <<file, bytes, runs, disk, pc, restart, run, faults>>

\* Mutant: the record is saved by the next persist.
OpenRecordLazily ==
  /\ pc = "run" /\ split.ready > 0 /\ ~run.started
  /\ run' = [run EXCEPT !.started = TRUE]
  /\ runs' = AppendRun(runs, [covers |-> {run.n}, offset |-> run.offset, bytes |-> 0, open |-> TRUE,
                              files  |-> IF run.video THEN {run.n} ELSE {}])
  /\ UNCHANGED <<disk, file, bytes, pc, restart, split, faults>>

\* onFrame: the first frame opens the run's record, which is saved before the frame is written.
OpenRecord ==
  /\ pc = "run" /\ split.ready > 0 /\ ~run.started
  /\ run' = [run EXCEPT !.started = TRUE]
  /\ runs' = AppendRun(runs, [covers |-> {run.n}, offset |-> run.offset, bytes |-> 0, open |-> TRUE,
                              files  |-> IF run.video THEN {run.n} ELSE {}])
  /\ SaveOrFail
  /\ UNCHANGED <<file, bytes, pc, restart, split>>

\* writeRaw: after an error it does nothing until the next run; a failed write may
\* leave a part of the piece.
Written(piece) == /\ Len(file) < FileBound
                  /\ file' = Append(file, piece)
                  /\ bytes' = bytes + 1

WriteRaw(kind, r) ==
  \/ /\ r.werr
     /\ run' = r
     /\ UNCHANGED <<file, bytes, faults>>
  \/ /\ ~r.werr
     /\ Written([run |-> r.n, kind |-> kind])
     /\ run' = [r EXCEPT !.bytes = @ + 1]
     /\ UNCHANGED faults
  \/ /\ ~r.werr
     /\ Happens("write")
     /\ \/ run' = [r EXCEPT !.werr = TRUE] /\ UNCHANGED <<file, bytes>>
        \/ /\ Written([run |-> r.n, kind |-> "part"])
           /\ run' = [r EXCEPT !.werr = TRUE, !.bytes = @ + 1]

WriteFrame ==
  /\ pc = "run" /\ split.ready > 0 /\ run.started
  /\ WriteRaw("frame", run)
  /\ split' = [split EXCEPT !.ready = @ - 1]
  /\ UNCHANGED <<runs, disk, pc, restart>>

\* Mutant: the length is read after the flush.
FlushThenRead ==
  /\ pc = "run" /\ split.ready = 0
  /\ \/ split.held = "none" /\ run' = [run EXCEPT !.endBytes = run.bytes] /\ UNCHANGED <<file, bytes, faults>>
     \/ split.held = "frame" /\ WriteRaw("loose", [run EXCEPT !.endBytes = run.bytes + 1])
     \/ split.held = "part" /\ WriteRaw("part", [run EXCEPT !.endBytes = run.bytes + 1])
  /\ split' = NewSplit
  /\ pc' = "flushed"
  /\ UNCHANGED <<runs, disk, restart>>

\* endRun, first section: the length of the run is read before what the splitter
\* holds is flushed.  ffmpeg has ended by itself or was stopped.
Flush ==
  /\ pc = "run" /\ split.ready = 0
  /\ LET ended == [run EXCEPT !.endBytes = run.bytes]
     IN \/ split.held = "none" /\ run' = ended /\ UNCHANGED <<file, bytes, faults>>
        \/ split.held = "frame" /\ WriteRaw("loose", ended)
        \/ split.held = "part" /\ WriteRaw("part", ended)
  /\ split' = NewSplit
  /\ pc' = "flushed"
  /\ UNCHANGED <<runs, disk, restart>>

\* endRun, second section: a run without a frame has no record, a video file without
\* bytes is not kept.
CloseRecord ==
  /\ pc = "flushed"
  /\ \/ ~run.started /\ UNCHANGED <<runs, disk, faults>>
     \/ /\ run.started
        /\ \E dropVideo \in BOOLEAN :
             runs' = IF ~HasOpenRun(runs) THEN runs
                     ELSE [runs EXCEPT ![Len(runs)].open = FALSE, ![Len(runs)].bytes = run.endBytes,
                                       ![Len(runs)].files = IF dropVideo THEN @ \ {run.n} ELSE @]
        /\ SaveOrFail
  /\ pc' = "top" /\ restart' = TRUE
  /\ UNCHANGED <<file, bytes, run, split>>

-----------------------------------------------------------------------------
\* The manager.

Up == pc \in {"top", "run", "flushed"}

\* persist: copies the live counter into the open record; a sidecar whose capture has
\* not grown is not written.
Persist ==
  /\ Up
  /\ runs' = IF HasOpenRun(runs) THEN [runs EXCEPT ![Len(runs)].bytes = run.bytes] ELSE runs
  /\ disk' \in {disk, runs'}
  /\ <<runs', disk'>> # <<runs, disk>>
  /\ UNCHANGED <<file, bytes, pc, restart, run, split, faults>>

\* finalize: the window has closed.
Finalize ==
  /\ pc = "top"
  /\ pc' = "done"
  /\ UNCHANGED <<file, bytes, runs, restart, run, split>>
  /\ SaveOrFail

\* measure: a last trim, and every record gets its true extent.
Extent(table, i, size) ==
  (IF i < Len(table) THEN table[i + 1].offset ELSE size) - table[i].offset

Measure ==
  /\ pc = "done"
  /\ file' = Trimmed(file)
  /\ runs' = [i \in DOMAIN runs |-> [runs[i] EXCEPT !.bytes =
                IF Extent(runs, i, Len(file')) >= 0 THEN Extent(runs, i, Len(file')) ELSE @]]
  /\ pc' = "measured"
  /\ SaveOrFail
  /\ UNCHANGED <<bytes, restart, run, split>>

\* The process and its ffmpeg end; a write that is under way may be cut.
Crash ==
  /\ Up
  /\ Happens("crash")
  /\ \/ UNCHANGED file
     \/ /\ pc = "run" /\ split.ready > 0 /\ run.started /\ ~run.werr /\ Len(file) < FileBound
        /\ file' = Append(file, [run |-> run.n, kind |-> "part"])
  /\ pc' = "down"
  /\ runs' = disk
  /\ bytes' = 0 /\ restart' = FALSE
  /\ run' = NewRun(run.n, 0, FALSE) /\ split' = NewSplit
  /\ UNCHANGED disk

\* Recover and openActive: the session goes on with the runs of its sidecar.
Recover ==
  /\ pc = "down"
  /\ file' = Trimmed(file)
  /\ bytes' = Len(file')
  /\ runs' = FixOpenRun(runs, bytes')
  /\ restart' = TRUE
  /\ pc' = "top"
  /\ UNCHANGED <<disk, run, split, faults>>

\* A shutdown is a finalize that keeps the session, and a restart later.
Suspend ==
  /\ pc = "top"
  /\ pc' = "down"
  /\ \/ disk' = runs /\ UNCHANGED faults
     \/ UNCHANGED disk /\ Happens("save")
  /\ runs' = disk'
  /\ bytes' = 0 /\ restart' = FALSE
  /\ UNCHANGED <<file, run, split>>

Supervise == Begin \/ FeedFrame \/ FeedPart \/ OpenRecord \/ WriteFrame \/ Flush \/ CloseRecord

Next == Supervise \/ Persist \/ Finalize \/ Measure \/ Suspend \/ Crash \/ Recover

Spec == Init /\ [][Next]_vars

-----------------------------------------------------------------------------
\* Properties.

\* Every variable keeps its type, the table its cap, and only its last record is open.
TypeOK ==
  /\ file \in Seq(Pieces)
  /\ bytes \in Nat
  /\ {runs, disk} \subseteq Seq(Records)
  /\ \A table \in {runs, disk} : /\ Len(table) <= MaxRuns
                                 /\ \A i \in 1 .. Len(table) - 1 : ~table[i].open
  /\ pc \in {"top", "run", "flushed", "done", "measured", "down"}
  /\ restart \in BOOLEAN
  /\ run \in [n : 0 .. RunBound, offset : Nat, bytes : Nat, endBytes : Nat, started : BOOLEAN, werr : BOOLEAN,
              video : BOOLEAN]
  /\ split \in [synced : BOOLEAN, held : {"none", "frame", "part"}, ready : 0 .. 2]
  /\ faults \in [FaultKinds -> Nat]

NoneFailed(kind) == faults[kind] = Faults[kind]

\* ScanRuns: the record a byte is counted to.
Owner(table, pos) ==
  CHOOSE k \in DOMAIN table :
    /\ \A j \in 2 .. k : pos >= table[j].offset
    /\ k = Len(table) \/ pos < table[k + 1].offset

\* Every frame of the capture is counted to the run that recorded it, so it is played at
\* its own time, through crashes, trimmed tails and the cap of the table, unless the
\* save of a new record failed (openRunRecord: "so a crash within the first persist
\* interval keeps the run's offset and anchor durable").
CountedRight ==
  NoneFailed("save") =>
    \A i \in DOMAIN file : file[i].kind = "frame" =>
      runs # <<>> /\ file[i].run \in runs[Owner(runs, i - 1)].covers

\* The runs of the table do not overlap and end within the file, whatever the persister
\* and a crash have left in it; a failed write may break it, but measure mends that.
RangesDisjoint ==
  (NoneFailed("write") /\ Up) \/ pc = "measured" =>
    \A i \in DOMAIN runs :
      runs[i].offset + runs[i].bytes <= IF i < Len(runs) THEN runs[i + 1].offset ELSE Len(file)

\* No run is appended to a torn frame that can be recognised (trimTail).
NoBuriedPart ==
  \A i \in 1 .. Len(file) - 1 : file[i].kind = "part" => ~Trusted(SubSeq(file, 1, i))

\* A record names the video files of all of its runs or of none: the companion plays a
\* record's video files instead of its audio (appendRun).
VideoComplete == \A i \in DOMAIN runs : runs[i].files \in {{}, runs[i].covers}
=============================================================================
