# Verification of spectado-stream-recorder

The recorder captures audio (and optionally video) streams on a schedule, stores every capture in an
S3 bucket as one `.m4a` per recording, and deletes the local capture afterwards.  What it promises
is that **recorded audio is never lost**: over crashes, restarts, reordered uploads, ambiguous answers
of the object store, other writers of the bucket, a full disk and a clock that jumps.  This directory
holds TLA+ models of the parts of the program that carry this promise, the TLC runs that check them on
small instances, and TLAPS proofs of the central facts for every instance.

Run from this directory:

    tlc -workers 2 -config UploadMerge.cfg MCUpload      # any run of PROJECT.json
    tlapm Upload_proof.tla                               # any *_proof module

`PROJECT.json` lists the runs, the deliberate bugs (mutants) each property must catch, the source lines
behind every definition, the hazards and the findings.

## 1. Inventory

Paths are relative to `src/`; `recorder/` stands for `internal/recorder/`.

| Component | State it keeps | Operations | Talks to |
|---|---|---|---|
| **Schedule fetcher** `internal/schedule/schedule.go` | last ETag, cache file | `Fetch` (conditional GET, parse, cache), `LoadCache` | HTTP server, disk |
| **Poller** `recorder/poller.go` | failure counters, interval | `RunSchedulePoller`, `pollOnce` | fetcher; `applyScheduleLocked` and `Reconcile` of the manager |
| **Session lifecycle** `recorder/manager.go` | `sched`, `active`, `sessions`, `stopping`, `diskLow`, `shuttingDown` under one mutex; sidecars on disk | `Reconcile`, `startSessionLocked`, `stopLocked`, `finalize`, `Recover`, `persist`, `retention`, `Shutdown` | supervisors (cancel, done), upload loops (`enqueueUpload`) |
| **Sessions and sidecars** `recorder/session.go` | one JSON per session, atomically replaced | `save`, `saveQuick`, `loadSession`, `applyItem`, `objectKey`, run table | everybody |
| **Supervisor** `recorder/ffmpeg.go` | one goroutine per capture: back-off, codec and video decisions | `supervise`, `runOnce`, watchdog, `disableVideoLocked` | ffmpeg, capture file, session |
| **Capture file, run table** `recorder/ffmpeg.go`, `session.go`, `internal/adts/splitter.go` | append-only ADTS file, byte ranges of runs | `openActive` (tail trim), writes of whole frames, `endRun`, `fixOpenRun` | disk |
| **Upload path** `recorder/upload.go` | one loop per finished session, worker slots, key mutexes, `remuxFailures`; session states in memory and sidecars | `uploadLoop`, `claimGroup`, `uploadOnce`, `build`, `uploadFallback`, `renameGroup`, `completeGroup` | bucket, remuxer, disk |
| **Key locks** `recorder/locks.go` | reference-counted mutex table | `lock`, `unlock` | upload loops |
| **Object store client** `internal/storage/s3.go` | `conditional` flag, the probe's cached answer | `Upload`, `Overwrite`, `Head`, `Download`, `ConditionalWrites` (probe) | S3 |
| **Video companion** `recorder/upload.go` (1350 ff.), `internal/remux/video.go` | `videoFailures`, `videoNoSpace` | `headVideo`, `uploadVideo`, `putVideo`, `convergeVideo` | upload attempt, bucket, remuxer |
| **Kept mode** `recorder/upload.go` | `.m4a` next to the capture | `keepLocally`, `keepVideo` | disk, remuxer |
| **Remuxer** `internal/remux/` | none | merge, extract, verify | ffmpeg, ffprobe |
| **Metadata** `recorder/objectmeta.go` | none | manifest, description, run-table trimming | – |
| **ADTS, ID3, HLS anchors** | none (pure) | parsing | – |
| **Config, HTTP API, metrics, sysmon, main** | none that anything reads back | – | – |

How they interact.  The poller replaces `Manager.sched` and runs `Reconcile`; a ticker runs `Reconcile`
every second.  Reconcile, under `Manager.mu`, takes sessions out of `active` (stops) and puts new ones in
(starts); a stopped session is finalized by a goroutine of its own, which waits for ffmpeg, writes the
sidecar and starts an upload loop.  Upload loops of sessions with the same object key are serialised by
the key's mutex; an attempt claims *all* finished sessions of its key, so a loop often finds its session
already done by another one.  Only sidecars, captures and the bucket survive a crash.

Hard behaviours, and what correctness means there:

* *Upload path* – two loops, a crash, a late PUT, a foreign writer and a failing sidecar write can fall
  between any two steps.  Correct: captured audio is on disk or in an object at all times; a sidecar
  that says `uploaded` is right; an object never loses a part and lists its parts in capture order; a
  foreign object is never replaced; every finished session ends.
* *Lifecycle* – stops are asynchronous, sidecars lag behind memory, the schedule changes in between.
  Correct: a capture stops only when it is due; a session in state `recording` always has somebody who
  will finish it (otherwise its siblings' uploads are deferred for ever); it is stopped once; an
  open window is captured.
* *Key locks* – entries are deleted while others wait.  Correct: one mutex per key, no leaked entry.
* *Supervisor* – only a sequence of runs can tell a broken video output or an uncopyable stream from a
  source that is away, and three fallbacks share that sequence.  Correct: nothing is given up for an
  outage, and audio flows again whatever is broken.
* *Capture file* – a crash leaves a partial frame and an open run, the persister and `endRun` write the same record, and
  a full table merges records.  Correct: every frame belongs to the run that recorded it, and runs do not overlap.
* *Fetcher and poller* – the ETag, the schedule in force and the cache file are written one after the other, and the
  cache is parsed a second time after a restart.  Correct: the ETag never outruns what is in force; a schedule in
  force is a right reading of something the URL served; the server's last good document comes in force.
* *Object store client* – an answer may be lost after its request was carried out, the SDK repeats requests, an endpoint
  may ignore a precondition or reject it, on single-part or on multipart PUTs only, and the probe that finds out asks once.
  Correct: on an endpoint that enforces preconditions the object of a key only grows; elsewhere nothing is merged.
* *Video companion, document, kept mode* – three objects of one key are stored one after the other, the `.mp4` first,
  and the attempt may fail between any two of them; the companion may be given up; the process may start again
  in the other mode.  Correct: audio never depends on the `.mp4`; captured pictures are deleted only when they
  may be, and a stored picture is not painted black by a retry.

## 2. Modules

| Module | Models | Extends |
|---|---|---|
| `KeyMutex` | abstract specification: one mutex per key | – |
| `KeyedLocks` | `locks.go`: the reference-counted table | – |
| `MCKeyedLocks`, `KeyedLocks_proof` | instance; proofs | `KeyedLocks` |
| `Upload` | the upload path of one recording, its sidecars, captures and objects, the process and the store around it | – |
| `MCUpload`, `Upload_proof` | instances; proofs | `Upload` |
| `GrowingObject` | abstract specification: what is stored under a key stays | – |
| `ObjectStore` | `s3.go` and the attempt that drives it, at one key, with several processes | `GrowingObject` (instance) |
| `MCObjectStore`, `ObjectStore_proof` | instance; proofs | `ObjectStore` |
| `Companion` | `.mp4`, `.json` and `.m4a` of one recording, kept mode | – |
| `MCCompanion`, `Companion_proof` | instance; proofs | `Companion` |
| `Lifecycle` | Reconcile, finalize, Recover, Shutdown, retention, the schedule as the poller applies it | – |
| `MCLifecycle`, `Lifecycle_proof` | instances; proofs | `Lifecycle` |
| `Supervisor` | `supervise` of one capture: probing, runs, attribution of failures, the session's decisions | – |
| `MCSupervisor`, `Supervisor_proof` | instance; proofs | `Supervisor` |
| `CaptureFile` | the capture of one session and its run table: trim, splitter, `onFrame`, `endRun`, `persist`, `measure` | – |
| `MCCaptureFile`, `CaptureFile_proof` | instance; proofs | `CaptureFile` |
| `SchedulePoller` | fetcher with its ETag, parser, cache file, poller | – |
| `MCSchedulePoller`, `SchedulePoller_proof` | instance; proofs | `SchedulePoller` |

### KeyedLocks

`locks` is the table, `refs` and `owner` the two fields of the entry objects (heap addresses, so that a
stale pointer is visible), `lk` and `key` the locals of each goroutine.  `lock` is two steps: `Enter` (the
section under `keyedLocks.mu`) and `Acquire` (`l.mu.Lock()` returns); `unlock` is `Unlock` and `Leave`.
The gap between them is where the entry could be deleted under a waiter.  `Mutex` maps the table to
`KeyMutex` (the holder of a key is the owner of its current entry), and `ImplementsKeyMutex` says every
step is one of `KeyMutex` or a stutter.  The callers are in `Upload`: `UsesKeyMutex` says that its loops take and give back
mutexes only as `KeyMutex` allows, so the two modules meet in the same specification.

### Upload

Sessions are numbers in order of `SessionStart`; `mem` is `Manager.sessions` (state, key, rename count),
`disk` the sidecars, `file` the captures, `bucket` the objects, `att[s]` the locals of the attempt that
loop `s` runs, `pc[s]` where it is.  An object is its writer and a sequence of batches: one batch per PUT.
The steps of a loop are cut exactly where another goroutine, the store or a crash can come in between:

| `pc` | action | code |
|---|---|---|
| start | `ReadKey` | key read under `mu` |
| lock, slot | `AcquireKey`, `AcquireSlot`, `LoopCancelled` | key mutex, `uploadSem`, `ctx.Done` |
| claim | `ClaimGroup` | `claimGroup` (one section under `mu`) |
| examine | `Examine`, `AttemptError` | `classifyMembers`, HEAD, every decision up to the build |
| build | `Build`, `RemuxFails`, `AttemptError` | If-Match download, remux, `noteRemuxFailure` |
| put | `Put`, `PutError` | `S3.Upload` with its precondition and its ambiguous failures |
| fbhead, fbput | `FallbackHead`, `FallbackPut`, … | `uploadFallback` |
| record, remove | `RecordUpload`, `RemoveCapture`, `Recorded` | second half of `completeGroup`: sidecar (fsync), then removal, member by member |
| unlock, outcome | `Unlock`, `Outcome` | release of slot and mutex; then, *without* the mutex, the handling of the error |

`StartSession`, `Finalize` and `Retire` are the lifecycle as the upload path sees it, with the choice of
the key (`keyForLocked`); `Shutdown`, `CancelUploads` and `Restart` (`Recover`, `migrateKeyLocked`) are the
process; `LateLand` and `ForeignPut` are the bucket's other side.  `Save` may leave any subset of its
sidecars unwritten, because every caller ignores its error.

What is abstracted, and what that excludes:

* An ETag and a size identify the content of an object.  The equal-size recovery of a refused
  If-None-Match (`s3.go:201`) therefore only accepts the object this PUT would have written.  What the client does to
  make a PUT behave like `PutObject` is in `ObjectStore`.
* Recording ids do not occur: one recording, whose sessions all fall inside the one-hour window in which
  an explicit key is pinned.  Two recordings that compute the same key are each other's "foreign" writer.
* Back-off delays and metadata texts are left out; the `.mp4` companion, the `.json` document and kept mode are in `Companion`.
* A session without a decodable frame is failed in `Examine` together with missing and empty ones;
  in the code the measuring error of a later member may come in between, which fails fewer of them
  now and the rest in the next attempt.
* `Restart` reopens every unfinished capture; the branch that finalizes a capture that cannot be reopened
  is in `Lifecycle`.

`Faults` is a set of mixes: each behaviour starts with one of them, so that a run can have every pair of faults without
having all of them at once.

### ObjectStore and GrowingObject

`object` is the set of sessions the object of the key holds, `inflight` the requests that may still be applied although
nobody waits for them, `ready` and `done` what each recorder still has to store and what it has recorded as stored,
`client` the flags of each process' `S3` (`conditional`, and the probe's answer).  One attempt is `Examine` (HEAD and the
choice between a new object and a merge), `Ask` (`Manager.conditionalWrites`), `Fetch` (the If-Match download),
the PUT (`PutAnswered`, `PutLost`, `PutRepeated`), `Conflict` or `Verify`, and `Recheck` (`putObject`).  `endpoint[h][m]` is
what the endpoint does with header `h` on a single-part (`m = FALSE`) or multipart PUT: it enforces it, ignores it, or
answers NotImplemented; `Verdict` is its side of a request.  `PutLost` is the request whose answer never arrives, before or
after it was carried out, and the SDK's next try; a multipart upload is completed once.

`GrowingObject` is the promise: on a strict endpoint the object only grows, and nothing is reported as done that is not in
the object at that moment.  `ImplementsGrowingObject` maps `object` to itself and `told` to the union of `done`; every
step is a `Write`, a `Report` or a stutter.  That a report rests on a size is why `SizeAssumption` is needed: objects with
different sessions of a recording have different sizes.  `MergesNeverDiscard` is about *every* endpoint: only a PUT that was
meant to create the object can take a session out of it.

Left out: the parts of multipart uploads and their clean-up, checksums, the classification of error texts
(a request is answered, refused, not implemented or lost), foreign objects (see `Upload`).

### Companion

One recording.  `captured[s]` says whether the session records video and whether there are TS files; `dir[s]` holds the files
of its directory; `audio`, `video` and `doc` are the objects, by number of renames (`raw` marks the fallback's `.aac` key).
An `.mp4` is its manifest and the sessions it shows the captured picture of, the others being black.  An attempt is
`Begin` (the group, the HEAD of the audio, and the moves to the next key: foreign object, no conditional writes, or a session
older than the object's last part), `HeadVideo` (reuse, extend, or build afresh), the disk preflight, `BuildVideo` or `BuildVideoFails`, `PutVideo`, `PutDoc`,
`PutAudio`, and then, member by member, the sidecar and the removal of `.aac` and TS files.  `Converge` is the attempt that has
nothing to add, `Fallback` the raw upload.  `KeepBegin` … `KeepSave` are `keepLocally`, cut where a crash matters.
`Restart` may change `UPLOAD_DISABLED`.  The attempts of a key follow each other because of its mutex (`Upload`,
`AttemptsDisjoint`); late PUTs, empty and junk captures and the parts cap are in `Upload` only.

The properties are careful about what the code does not promise.  `StoredPicturesStay` excepts an `.mp4` that lags its
`.m4a` (the companion had been given up), one that holds a session which has gone elsewhere since (`Deserted`), and one that a
session has come back to which belongs before a session it lists (`Overtaken`).  `PicturesRemovedRightly` excepts sessions
stored after, or under the key of, a companion given up, and sessions whose stored picture a later `.mp4` left out.  `givenUp` and
`dropped` are history for that.  The last exception of each was found by the attempt to prove the property without it: the
run's two faults do not reach these states, TLC with more of them does.  `Overtaken` takes five (three sessions; the raw
fallback stores the second, after a crash its audio is verified again under an `.m4a` key, and meanwhile an `.mp4` of the
first and third was stored whose `.m4a` failed); `dropped` takes four and two changes of `UPLOAD_DISABLED` (an `.mp4` of three sessions
ahead of an `.m4a` of one, the second is kept locally, the third is stored with a new `.mp4` that has the stored picture of the
session in between no more).

### Lifecycle

A session is a recording id and a part number; of an item the window is kept.  `Reconcile` holds
`Manager.mu` throughout and is one action: all stops, then starts in document order as far as the cap and
the disk allow (any subset that an order of the document explains).  `stopping` holds the background
finalizers, so `Finalize` may happen many ticks later.  `Persist` writes the sidecars of *some* active
captures: the code skips those that have not grown.  `Restart` is `Recover`.  `now` is a wall clock that
may step back.  The sidecar writes of `startSessionLocked` (its failure is `fails`) and of `Recover` are not
split further.

### Supervisor

`session` is the live session (its source, the codec requested and what was decided), `disk` its sidecar,
`snap` the copy an iteration works from, `run` the arguments of the run, the counters those of
`activeRecording`.  One iteration is `Snapshot`, `ResolveCodec`, `ResolveVideo`, `BeginRun`, the run, one of the
five branches at its end (`OptionFault`, `VideoFault`, `CopyRejected`, `SilentWithVideo`, `OtherEnd`, tried in the
code's order) and `Retry`.  The steps are cut where `Manager.mu` is released: `ApplyItem` (the schedule names
another source) may fall into a probe or a run.

What a source is like is a constant record of traits; `Endings` is what ffmpeg may report for a run with these
arguments on such a source.  `air` records whether the source was reachable at some time, always, or never during
the run, so a run that meets an outage ends like an outage (`CutOff`) and may or may not have written audio before;
a server may also close the connection of a run that delivers (`HungUp`).  `VideoBlamedRightly` is about one outage: two,
one before the trial without video and one in the run after it, do cost the picture, which the code accepts.
A TS file name or a sidecar that cannot be written uses up a write error, as does a failed write of the capture.
A run that cannot be started at all looks to the supervisor like a source that is away.  `codec = "auto"` stands for
whatever `AUDIO_CODEC` makes of an unspecified codec as long as that is `auto`; other settings are the explicit
requests.  Left out: the length of the back-off, TS file names, the run table and the byte counts
(see `CaptureFile`), and the decisions inherited from earlier sessions of a recurring show.

### CaptureFile

`file` is the capture, piece by piece; a piece is a frame, a torn part of one, or a *loose* frame: complete, but
passed on by the splitter as junk.  `bytes` is `activeRecording.bytes`, `runs` is `Session.Runs`, `disk` the table in the
sidecar, `run` the `runState` with `writeErr`, `split` the `adts.Splitter` (whether it has found sync, what it holds
back, how many frames it owes to `onFrame`).  A run is `Begin` (tail trim, `beginRun`), then `FeedFrame`/`FeedPart` as
the pipe delivers, then `Flush` and `CloseRecord`.  The steps are cut where `Manager.mu` is released and where a crash
matters: `OpenRecord` (the record is saved) before the first `WriteFrame`; the two sections of `endRun`, between which
the persister may copy the live counter into the record (`Persist`).  `Crash` forgets everything but `file` and `disk`
and may tear the frame that is being written; `Recover` is `openActive`'s trim and `fixOpenRun`; `Measure` is the
last trim and the true extent of every record before an upload.

Abstractions: offsets count pieces, not bytes, so `MinChain` and `Window` (which the code has in frames and in KiB)
are both numbers of pieces; frame counts, durations, wall clocks and file names are left out (a video file is the number
of its run); ffmpeg's ADTS output holds nothing but frames; less than a header after a frame that is held back is left
out; a crash is the end of the process, not of the machine, so what was written stays written.

### SchedulePoller

What `Lifecycle` does in one step (`Fetch`, `LoadCache`), step by step: `Ask` (the request with its If-None-Match),
the answer (`NotModified`, `Answered`, `FetchFails`), `Rejected` or `Stored` (parsing, the ETag, the cache file) and
`Apply` (`applyScheduleLocked`).  The server may `Publish` and the process may `Restart`, also with another
`SCHEDULE_URL`, between any two of them.  `served[u]` is the history of the documents of a URL; the index of a document
in it stands for its ETag and for the order of `FetchedAt`.  `sched` is `Manager.sched`, `cache` the cache file.

A document is a sequence of entries.  Of an entry the model keeps what decides about the other entries: id, start,
key (all keys have one name; what differs is the number of leading slashes, of which `parseItem` trims one) and whether
`parseItem` accepts it.  `Parsed` is `Parse`: the loop over the entries with its rejections and duplicates (`Round`), and the
stable sort by start (`ByStart`, which lists `StartingAt` of every start in turn); `Loaded` is the same parser on
the cached items.  `IsScheduleOf` says what a schedule promises of its document, without following the parser's loop.

Left out: poll intervals and failure counters, the formats of single fields, a cache file that cannot be read (it is
written atomically).  Assumed of the server: an ETag names one document.  `Lifecycle` sees the same schedules without
their parsing; that `SchedulePoller` implements its `Fetch` and `LoadCache` is planned, not shown.

## 3. Runs

| Run | Question | Bounds |
|---|---|---|
| `KeyedLocks` | one count per entry, no leaked entry, waiters served, `KeyMutex` implemented | 3 goroutines, 2 keys, 3 addresses: deletion and re-creation of an entry while a third goroutine waits |
| `UploadMerge` | all safety properties with conditional writes | 2 sessions, 2 workers, remux failures up to the raw fallback; crash + late PUT, crash + foreign object, crash + failed sidecar, late PUT + foreign object, or a shutdown |
| `UploadUnconditional` | what survives on an endpoint without conditional writes; only what has no audio is failed; the loops keep to `KeyMutex` across renames | 3 sessions, the second one junk, one part per object, renames; a crash or a failed sidecar |
| `UploadDrains` | every finished session ends, or is blocked in one of two named ways | 2 sessions, 1 worker, 1 rename, 1 immediate retry, remux failures up to the raw fallback; one crash, or two objects of other writers |
| `ObjectStore` | on a strict endpoint the object only grows; a merge discards nothing anywhere | 2 recorders with 2 and 1 sessions, all 16 mixtures of enforced and ignored preconditions and 3 endpoints that reject one; a lost answer or request, a failed probe, a crash |
| `Companion` | what the `.mp4`, the document and kept mode must never cost | 3 sessions (picture, none, picture; or none, none, no TS files), any 2 faults of 7 kinds, 2 build failures, 1 rename |
| `Lifecycle` | stops only when due, no orphan, one owner; every capture is finished, an open window is captured | 1 id, 3 windows, 5 parts, rotation, 2 or 3 fetches; six mixes of crash, shutdown, clock set back, failed start, sidecar or cache write, disk |
| `LifecycleRotated` (violation) | see findings | 2 fetches, no fault |
| `Supervisor` | nothing is given up for an outage; audio flows | 4 sources, 5 items, one item change, outage, write error and crash |
| `SupervisorStale` (violation) | see findings | two sources and one change |
| `CaptureFile` | every frame is counted to its run; run ranges stay disjoint; nothing is appended to a torn frame | 4 runs, 5 pieces, table cap 2, chain 2, window 3; one failed write, failed save and crash |
| `SchedulePoller` | ETag, schedule in force and cache agree; the last good document comes in force | 2 URLs with up to 2 documents each, 3 kinds of document, one failed cache write, one restart |

Why the bounds are enough.  Two sessions are what a conflict needs: a holder and a waiter, an older and a
newer part, a stored and an unstored member of one group.  More are needed only for the parts cap and for
an innocent bystander among others, which `UploadUnconditional` has.  The limits
(`maxPartsPerObject` = 20, `maxKeyRenames` = 3, `maxRemuxFailures` = 3, `maxImmediateRetries` = 3) are scaled down to 1
or 2 so that both sides of each comparison happen: two foreign objects are what it takes to pass one rename and meet
the limit, in `UploadDrains` and in `Companion`.  One fault of each kind per behaviour makes every pair of a
fault and a step happen, and the mixes put together those faults whose effects meet; the proofs below do not bound them.
In `ObjectStore` three sessions are the smallest object that can lose one while another recorder adds one, and the part
size puts the first object on one side of it and the merged ones on the other.  In `Companion` the third session is one
that comes after an attempt which stored an `.mp4` and failed.  In `Lifecycle`, time has as many instants as
the windows have edges.  In `Supervisor` the four sources are one without trouble, one that fails in every silent way at
once (option, copy and video), one whose variant's own audio fails loudly, and one without AAC and
without video; a source change, an outage, a write error and a crash fall anywhere, so that the counters of one
fault meet those of another.  Counters that are only compared with 2 stop there.  In `CaptureFile` four runs fill a
table of two records twice over, so that a coalesced record is coalesced again; five pieces are a chain on either side of
the trust limit, a torn piece and a frame behind it; one fault of each kind may hit any run, before or after the crash.
In
`SchedulePoller` two documents are a current and a stale one, and the kinds of document are one without entries, one
whose entries are all invalid, and one in which an id and a key are repeated, two entries are rejected and the order has to
change; two URLs are what a changed `SCHEDULE_URL` needs.
`CHECK_DEADLOCK FALSE` is set where the bounds stop the system (all faults used, everything uploaded, the clock at
its end, the capture stopped); `KeyedLocks` never stops and is checked for deadlock.

Fairness, and why the code justifies it.

* `KeyedLocks`: `Acquire` is strongly fair because `sync.Mutex` hands itself over to a waiter that has
  waited a millisecond (starvation mode); `Unlock` and `Leave` run to completion.  Nobody has to call `lock`.
* `Upload`: a loop's own steps are weakly fair; the key mutex and the slot channel (FIFO) strongly fair;
  `Finalize` is weakly fair, which `CapturesEnd` shows for the lifecycle; an outage ends
  (`<>[]` no error step).  A `PermanentError` (a manifest that contradicts itself, the limit of renames) is not an outage: its
  outcome is a different one (`"permanent"`), so that the assumption does not make it go away.  `LateLand`, faults and foreign
  writers are never forced.  `Drains` excepts the two permanent errors and nothing else (`Blocked`): an object whose manifest
  contradicts itself blocks its key, and a group that would have to move once more at `maxKeyRenames` stays
  where it is (`upload.go:1325-1327`; README lines 303-309), both retried every 15 minutes.  Without either exception TLC finds `Drains` violated.
* `Lifecycle`: the ticker, the clock and finalizers go on (ffmpeg is killed at the latest), the poller loads
  its cache, and a process that has shut down is started again.
* `Supervisor`: the goroutine goes on; a run that cannot go on ends, because its process exits or the stall
  watchdog kills it; an outage ends; a process that has crashed is started again.  A run that delivers need not
  end, and a write error never has to happen (`EndRun /\ UNCHANGED faults`).  `AudioFlows` supposes that in the end the
  schedule does not insist on `codec=copy` for a stream that cannot be copied: the code refuses to fall back then.

* `Companion`: an attempt that runs goes on, captures end, and each session's loop gets its turn (strong fairness of `Begin` or
  `KeepBegin`, because every session has a loop of its own and the key's mutex serves whoever waits), so that a group which is
  blocked does not starve the others.  Nothing says that a build ever succeeds or that the disk ever has room; the retries
  end because give-ups are counted, and because faults are bounded: an outage ends.  `AudioThrough` excepts a group at the limit
  of renames whose key somebody else's `.m4a` or `.mp4`, an out-of-order part or a missing precondition blocks (see section 5).
* `SchedulePoller`: the poll timer fires again and again, and a server that is asked for ever answers at last
  (`SF` of `NotModified \/ Answered`).  `Converges` supposes that its last document can be parsed.

## 4. What is proved

All proofs hold for every number of sessions, keys, workers, ids, parts and every limit, and, where not
said otherwise, for any number of faults.  They assume only the `ASSUME`s of the modules, which TLC evaluates in every run.

* `KeyedLocks_proof`: `TypeCorrect`, `MutualExclusionHolds`, `EntriesCountedHolds`, `NoLeakedEntryHolds`, `Refinement`.
  The invariant `IInv` adds to the stated properties that goroutines' pointers agree with the table
  (`PointersMatch`), that two keys never share an entry (`EntriesDistinct`) and that the owner of an entry is
  the goroutine in `held` (`OwnersMatch`).  The refinement maps `Enter` to a request, `Acquire` to a grant, `Unlock` to
  a release and `Leave` to a stutter: that `Leave` deletes only an entry nobody owns is what needs `IInv`.
* `Upload_proof`.  On any endpoint, with any faults: `TypeCorrect`; `AttemptsDisjointHolds`; `NoAudioFailedHolds` (no session with audio is
  ever marked failed); `MergedInOrderHolds` (an object holds its sessions in capture order, each once);
  `UsesKeyMutexHolds` (the loops are callers as `KeyMutex` has them, which `KeyedLocks` implements).  Under `Trusted`:
  `AudioSafeHolds`, `UploadedIsStoredHolds`, `NothingAbandonedHolds`, `PartsKeptHolds`, `ForeignKeptHolds`.  `Trusted` says that
  either the endpoint enforces preconditions, whatever happens, or no PUT is applied late and nobody else writes to the bucket, on
  any endpoint and with all other faults.  It is the weakest hypothesis of its kind: without conditional writes TLC finds
  `PartsKept` violated with one late PUT and `ForeignKept` with one foreign object.
  The two cases of `Trusted` have different arguments that meet in one step lemma.  Captures are deleted
  on the word of memory, so the invariant has the same statements about memory (`MemorySafe`,
  `MemoryRight`); deleting rests on what the attempt saw, so each attempt carries its promise (`AttemptOK`);
  and a PUT applied after its client gave up must not drop a part either (`LateOK`).  With conditional writes the store
  alone makes this safe and the key mutex is not used.  Without them it is the key mutex that does: whoever is between claim and
  last request holds its key's mutex (`LockHeld`), and all its members still have that key (`MembersShareKey`) because only the
  holder renames, so nothing stands under the key when a PUT arrives: an attempt goes on to one only if its HEAD found
  nothing there (`QuietInv`).
  For `UsesKeyMutex` each loop is mapped to the key of its attempt from `ReadKey` to `Unlock`: a step of an attempt leaves that key
  alone whatever it does to its session's (`HoldsOn`), `LockHeld` says that the mutex a loop gives back is its own, and
  `LoopsFinished`, that a session that still records has no loop, keeps `Finalize` from starting a second one.
  For `MergedInOrder` an attempt's additions are after everything it saw in the object; that an object is in order then follows
  because a PUT writes what was seen and the additions, whatever was stored in the meantime.
* `Lifecycle_proof`: `TypeCorrect`, `NoOrphanHolds`, `OneOwnerHolds`, from `ActiveOK`, `StoppingOK` and `DownOK`;
  `StopsOnlyWhenDueHolds`, an action property: an id leaves its active capture, for none or for another one, only for one of four reasons:
  its item is absent from a schedule that is known, its last known end has passed, rotation, or the step is that of Shutdown or Restart
  itself.  Of all other steps only Reconcile takes a session out of `active`, and it keeps every recording for which `StopReason` finds none;
  so a schedule that is not known, or an item that became invalid, stops nothing.
* `ObjectStore_proof`: `TypeCorrect`, `MergesNeverDiscardHolds`, `Refinement` and `AudioKeptHolds`, for any number of recorders,
  sessions, faults and any set of endpoints.  The invariant says what each request still on its way may do: an
  If-Match request exists only where If-Match is enforced for both kinds of PUT (`mergeable` is right whenever it is
  `TRUE`, because a probe that was disturbed only ever answers no), a request without If-Match was built on no object at all,
  and on a strict endpoint no request goes without a precondition.  `AudioKeptHolds` follows from the refinement.
* `Companion_proof`: `TypeCorrect`, `AudioKeptHolds`, `VideoAccountedHolds` and `DocNeverBehindHolds`, for every capture, mode,
  number of renames and of faults of every kind, on any endpoint, because the key's mutex leaves one attempt per key;
  `PicturesRemovedRightlyHolds` and `StoredPicturesStayHolds` likewise;
  `ForeignVideoKeptHolds` under `CondWrites = TRUE`, since without it a video that appears after the HEAD is replaced.  The
  argument: what an object of this recorder lists it goes on listing, because an attempt writes only what it read plus what it
  adds (`AudioInv`: `PresentStored` and `KeyRemembered` say that what it read is still there, `RemovalRight` that a capture is
  removed only when the session is in an object or the sidecar names its `.m4a`; `FinishedKept` is `AudioKept` for whatever memory or a
  sidecar takes for finished, because a restart brings sidecars back into memory).
  `VideoAccounted` is about sidecars; `MarksRight` says it of memory, and `PlanRight` what each step of an attempt knows of the
  `.mp4` it will reuse, extend or has just stored, which is what a mark rests on.  `DocAhead` says that the document holds the target
  of the attempt from `PutDoc` until the audio is stored, so `DocNeverBehind` survives `PutAudio`.
  The two properties about pictures rest on `PictureInv`.  Every session with TS files that an audio object lists is in the `.mp4`
  of that key or was given up (`AudioPictured`), and one that an `.mp4` lists is shown in it, given up or dropped (`PicturesHeld`);
  these two make the removal right.  A stored picture stays because an `.mp4` is only built afresh when the one the HEAD saw,
  which is still there (`SeenRight`), is no extension of the `.m4a`: but lists are in capture order (`ListsRight`, `AttemptRight`), and
  an ordered list that misses nothing of another below its own end is a prefix of it (`OrderedPrefix`), so unless the `.mp4` lags, is
  deserted or overtaken it would have been extended (`StoredIsExtended`).
* `CaptureFile_proof`: `TypeCorrect`, `CountedRightHolds`, `RangesDisjointHolds`, `NoBuriedPartHolds` and `VideoCompleteHolds`, for any number
  of runs and faults, any cap of the table, chain and trim window.  A position of the file is *firm* if no trim will ever cut in
  front of it.  The offset of every record, in memory and in the sidecar, is firm, and so is the end of a record that was closed
  while no write failed.  Together with the order of the offsets, and with a sidecar that lists what memory listed at its last
  save, this carries the ranges and the counts through crashes, trims and failed saves.
* `Supervisor_proof`: `TypeCorrect`, `CopyGivenUpHolds` (any number of outages) and `VideoBlamedHolds` (one outage).  The
  first needs only that a run with a fault of its video output is never read as a rejection.  The second needs an
  invariant about evidence: the counters are about the source that runs (`SameSource`), a source with known video
  that is away has used up the outage (`AwayOnce`), the trial without video starts only if the video output is
  silent or the outage is spent (`TrialJustified`), and audio in the trial raises the suspicion only if the video output is
  silent or the outage is over (`SuspicionJustified`).

* `SchedulePoller_proof`: `TypeCorrect`, `ParsedRight`, `InForceWasServedHolds`, `UnmodifiedIsCurrentHolds` and `CacheCurrentHolds`, for any
  number of documents, entries, URLs and faults.  `ParsedRight` says that what `Parse` returns is a right reading of its document
  (`IsScheduleOf`): the loop is a function of the entries read so far, and what it has accepted is described entry by entry,
  so that a least counterexample is enough where the library's induction theorems cannot be used.  `UnmodifiedIsCurrent` needs
  that what is on its way to be applied is what the ETag names (`TagInv`); `CacheCurrent` that every version known to the
  process has been served (`VersionsKnown`) and that the cache is ahead of the schedule (`CacheAhead`), up to the first
  failed cache write.

Only model-checked: everything temporal (`Drains`, `WaiterServed`, `CapturesEnd`, `ItemsCaptured`, `AudioFlows`, `AudioThrough`,
`Converges`), because the prover has no rules for fairness.  Every safety invariant and every action property that a passing run
checks is also proved.  The type invariants (`TypeCorrect`) are proved and in no run: nothing about the code rests on
checking them once more.  The library's induction theorems cannot be instantiated by the provers here; where a proof is about
a sequence of any length (`InOrder`, `Parse`, the order of objects) it goes through cardinalities or a least counterexample
(`SmallestOf`) instead.

## 5. Findings

Each is a run that TLC must end with a violation.

* `LifecycleRotated` – rotation (`MAX_SESSION_DURATION`) stops a capture before anybody knows whether its next part can
  start (`manager.go:424`).  Starts look at valid items of the schedule in force only, so when the item has become invalid, or the
  schedule is not known yet after a restart, nothing goes on; likewise when the disk is low or the start fails.
  The comment at `manager.go:361-364` says that a recording stops only at its end or with its item, and that an invalid
  item "keeps recording with its last good definition"; the README's section on rotation speaks of splitting a window into parts.
* `SupervisorStale` – a probe runs without `Manager.mu`; when the schedule changes the source meanwhile,
  `resolveVideo` and `resolveCodec` (`ffmpeg.go:1066`, `1037`) write the old source's decision over the fields `applyItem`
  has just cleared, and the new source is never probed.  A recording may so stay without picture, and later
  sessions of the show inherit the decision.  README: "a source change re-probes at once".

Observed, without a run.

*Upload.*  `renameGroup` (`upload.go:1331`) moves *every* member of a group to the new key, including those the object already
lists.  After a crash between the PUT and a member's sidecar, on an endpoint without conditional writes (or after an
out-of-order or parts-cap rename), the session is stored a second time; `manager.go:794-795` says "nothing is uploaded
twice".  No audio is lost.  `setKey` (`session.go:233`) resets what is known of the stored `.m4a` but not `VideoUploaded`, so after a
rename and a give-up the sidecar claims a companion that its key does not have.  The document of the old key stays behind.
The failure path of `uploadLoop` (`upload.go:208`) writes `finalized` to memory and sidecar after the key's mutex has been
released, whatever the state is by then; between the two steps of another loop's `completeGroup` it overwrites `uploaded`, and the capture
is removed all the same (`upload.go:1239-1241`: a file is "only deleted once its own sidecar durably says "uploaded"").  The model
has this race, and `AudioSafeHolds` is proved with it; it is why `AttemptsDisjoint` speaks only of attempts that may still
write to the store.  The next attempt finds the session in the manifest, unless it went to the raw `.aac` and the process restarts
first: `migrateKeyLocked` then moves the session to the `.m4a` key, where there is neither capture nor object, and a stored
session is marked failed (in the instance of `UploadMerge` TLC reaches such a state).

*Object store.*  `s3.go:384-391` and the README (lines 757–760) say that conditional writes are probed on both paths; If-None-Match on
`CompleteMultipartUpload` never is.  Where only that is answered NotImplemented, the client stops sending If-None-Match and goes on
merging.  A network failure of any probe request but the first PUT is read as "not enforced" and kept for the life of the
process (`s3.go:403` speaks of leaving an unreachable store unprobed).

*Video companion.*  A foreign object under the `.mp4` key moves the whole group like a foreign `.m4a` (`headVideo`,
`upload.go:1447-1450`; README lines 538-541), and under the last key `renameGroup` returns a permanent error (`upload.go:1325-1327`), so that
foreign `.mp4` objects alone hold the `.m4a` back for good.  `upload.go:397-398` says that "a video problem never holds the .m4a back for
good", and README line 547 "Audio always wins".  `AudioThrough` names this case in `Blocked`; without that disjunct TLC violates it in 8 states
(two foreign `.mp4` objects and `MaxKeyRenames = 1`).  After a give-up the next build paints the stored part black although its TS files may still be on disk, and
a crash between the give-up's PUT and its sidecar lets the next merge record that session as having video, and delete its TS
files.  README lines 545–548 (a stored picture is extended) fail when a session the `.mp4` already holds goes elsewhere: into kept mode after a
restart with `UPLOAD_DISABLED`, or to the raw fallback.  In kept mode a shutdown during the build of the `.mp4` counts as a failure for
good.  A crash between the removal of `.aac` and of TS files leaves the latter until retention.  The `.m4a` and the raw fallback's
`.aac` share one document.

*The rest.*  `Parse` compares explicit keys after one leading slash
is trimmed, while `explicitObjectKey` trims all slashes and completes the extension, so `shows/a`, `shows/a/`,
`//shows/a` and `shows/a.m4a` pass as distinct keys of one object; README (line 210): "the second is invalid".  The trim
is not idempotent, so a key with two leading slashes is another one when the cache is parsed (the premise
`SingleSlashes`).  After a failed cache write a restart runs on the older cached schedule until its first poll, and may
stop an item as removed that is not.  An empty run during an outage and a failure of the video output share one counter
(`ffmpeg.go:1268`), so one failure with the variant's own audio can turn video off before a run with the first audio
was tried; README: "the next run retries with the first audio before video is given up".  The torn bytes of a failed write
are part of the length that `endRun` records (`ffmpeg.go:258`) and are then trimmed from the file, so the ranges of two
runs overlap until `measure` mends the table; this is the premise on writes in `RangesDisjoint`.  A run that delivers a
single frame never opens a record, because the splitter confirms a frame only by the next header and flushes it as
junk: the frame is kept, and counted to the run before or after it.
`Recover` resumes every session whose sidecar says `recording` without looking at
`MAX_RECORDINGS` (`manager.go:784`), so after a crash that lost the sidecar of a stopped session the "hard cap" is
exceeded.  A clock set back during a background finalization restarts a window that has just ended
(`manager.go:353`).  An explicit `codec=aac` that arrives for a running capture of the same source does not reset
`ResolvedCodec`, so the capture goes on copying.  The README says at lines 301–304 that an inconsistent manifest leads to a new
suffix and at 307–309 that it blocks the key; the code blocks.  On endpoints without conditional writes a PUT applied late can replace
a newer object; nothing in the code can prevent that, and the unconditional runs and the hypothesis `Trusted` of the
theorems exclude it.

## 6. Plan

Next steps, most important first.  Runs stay few, one per question, so new properties replace weaker ones.

1. `VideoBlamedRightly` of `Supervisor` for more than one outage: the weakest condition on their distance under which it holds,
   stated, checked and proved.
2. `Upload` over `ObjectStore`: `PutObject` and `PutFails` shown to be implemented by the client's steps, in place of the argument
   that `GrowingObject` is what they say of one key.
3. An abstract `UploadPromise` (a session is captured, then stored, then forgotten) implemented by `Upload`, and an
   abstract schedule source implemented by `SchedulePoller`, which `Lifecycle`'s `Fetch` and `LoadCache` follow.
4. The pure parts, each as operators against a reference definition: `nextBackoff`, the trimming of the run table in
   the object's metadata, the tolerances of the remuxer's verification, `videoSegments` run by run.

Not modelled, and why: config, HTTP API, metrics and sysmon keep no state that the rest reads; the
remuxer, ffmpeg and ffprobe are external programs, seen as steps that succeed or fail; parsing of ADTS, ID3
and HLS is a function of byte strings (the splitter's state is part of `CaptureFile`).
