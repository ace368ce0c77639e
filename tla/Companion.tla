----------------------------- MODULE Companion -----------------------------
(***************************************************************************)
(* The .mp4 companion, the .json document and kept mode                    *)
(* (internal/recorder/upload.go).  A session created with RECORD_VIDEO     *)
(* captures TS files next to its .aac.  An upload attempt stores, in this  *)
(* order, the .mp4, the document and the .m4a of one key; the .m4a decides *)
(* which sessions are done, so the .mp4 may be ahead of it (the .m4a's PUT *)
(* failed) or behind it (the companion was given up).  With                *)
(* UPLOAD_DISABLED the same files are built next to the sidecar instead.   *)
(* The process may stop between any two steps and start again in the other *)
(* mode.                                                                   *)
(*                                                                         *)
(* One recording, whose sessions follow each other and all hold audio.     *)
(* The key's mutex lets one attempt at a time work on a key; Upload models *)
(* how loops compete for it, empty and junk captures, the parts cap and    *)
(* late PUTs, and those are left out here.  An object is who wrote it, the *)
(* sessions its manifest lists and, for an .mp4, the sessions it shows the *)
(* captured picture of (the others are black); its content is its ETag.    *)
(* It is synthetic when it shows none.                                     *)
(***************************************************************************)
EXTENDS Integers, Sequences, FiniteSets

CONSTANTS Sessions,          \* session numbers, in order of SessionStart
          Captures,          \* what the sessions may have captured besides audio
          CondWrites,        \* the endpoint enforces If-Match / If-None-Match
          MayDisable,        \* a restart may change UPLOAD_DISABLED
          MaxBuildFailures,  \* maxRemuxFailures, for the companion
          MaxShort,          \* attempts within videoNoSpaceBudget
          MaxKeyRenames,     \* maxKeyRenames
          Faults,            \* the kinds of faults that may happen ...
          MaxFaults,         \* ... and how many of them altogether
          Nobody

\* "off": created without RECORD_VIDEO, "dark": no TS files, "picture": TS files.
Pictures == {"off", "dark", "picture"}
FaultKinds == {"crash", "sidecar", "lost", "refused", "foreign", "remux", "transfer"}

ASSUME SessionsAssumption == Sessions \subseteq Nat /\ IsFiniteSet(Sessions) /\ Nobody \notin Sessions
ASSUME CapturesAssumption == Captures \subseteq [Sessions -> Pictures]
ASSUME LimitsAssumption   == {MaxBuildFailures, MaxShort, MaxKeyRenames, MaxFaults} \subseteq Nat
ASSUME SwitchAssumption   == {CondWrites, MayDisable} \subseteq BOOLEAN
ASSUME FaultsAssumption   == Faults \subseteq FaultKinds

VARIABLES captured,  \* Session.Video and the TS files of each session, fixed
          mem,       \* Manager.sessions
          disk,      \* the sidecars as last written
          dir,       \* the session's files: aac, ts, and kept mode's m4a, mp4
          audio,     \* the audio objects, by key
          video,     \* the .mp4 objects, by number of renames
          doc,       \* the .json documents, by number of renames
          pc, att,   \* the current attempt (locals of uploadOnce, keepLocally)
          failures,  \* Manager.videoFailures
          short,     \* Manager.videoNoSpace: attempts since the shortage began
          disabled,  \* UPLOAD_DISABLED of the running process
          givenUp,   \* history: sessions stored after their companion was given up
          dropped,   \* history: sessions whose stored picture a later .mp4 left out
          left       \* faults left

vars == <<captured, mem, disk, dir, audio, video, doc, pc, att, failures, short, disabled, givenUp, dropped, left>>
store == <<audio, video, doc>>
counts == <<failures, short>>
history == <<givenUp, dropped>>

-----------------------------------------------------------------------------
Gens == 0 .. MaxKeyRenames
Keys == [gen : Gens, raw : BOOLEAN]        \* raw: the fallback's .aac key
BaseKey == [gen |-> 0, raw |-> FALSE]

States == {"none", "recording", "waiting", "uploaded", "kept", "requeued", "failed"}
SessionRecords == [state : States, key : Keys, vup : BOOLEAN, verr : BOOLEAN, out : BOOLEAN, vout : BOOLEAN]
Finished(s) == mem[s].state \notin {"none", "recording"}

Ours(o) == o.by = "us"
NoAudio == [by |-> "none", parts |-> <<>>]
NoVideo == [by |-> "none", parts |-> <<>>, shown |-> {}]
NoDoc   == [parts |-> <<>>, stored |-> FALSE, refused |-> FALSE]
VideoAt(k) == IF k.raw THEN NoVideo ELSE video[k.gen]
Parts(o) == {o.parts[i] : i \in DOMAIN o.parts}

InOrder(S) == [i \in 1 .. Cardinality(S) |-> CHOOSE x \in S : Cardinality({y \in S : y <= x}) = i]
FirstOf(S, n) == {InOrder(S)[i] : i \in 1 .. n}
WithVideo(S) == \E x \in S : captured[x] # "off"
WithTS(S) == {x \in S : "ts" \in dir[x]}

Idle == [own |-> Nobody, key |-> BaseKey, dest |-> BaseKey, group |-> {}, add |-> {}, present |-> {},
         remote |-> <<>>, plan |-> "none", seen |-> NoVideo, skip |-> 0, built |-> NoVideo,
         got |-> "none", todo |-> {}, cur |-> Nobody, lost |-> FALSE]

Init == /\ captured \in Captures
        /\ mem = [s \in Sessions |-> [state |-> "none", key |-> BaseKey, vup |-> FALSE, verr |-> FALSE,
                                      out |-> FALSE, vout |-> FALSE]]
        /\ disk = mem
        /\ dir = [s \in Sessions |-> {}]
        /\ audio = [k \in Keys |-> NoAudio]
        /\ video = [g \in Gens |-> NoVideo]
        /\ doc = [g \in Gens |-> NoDoc]
        /\ pc = "idle"
        /\ att = Idle
        /\ failures = [g \in Gens |-> 0]
        /\ short = [g \in Gens |-> 0]
        /\ disabled = FALSE
        /\ givenUp = {}
        /\ dropped = {}
        /\ left = MaxFaults

-----------------------------------------------------------------------------
\* Helpers shared by the actions.

Fault(kind) == kind \in Faults /\ left > 0 /\ left' = left - 1

\* The attempt returns; what it handled is tried again, or is done.
Return == pc' = "idle" /\ att' = Idle

\* forgetKey.
ForgetKey(g) == /\ failures' = [failures EXCEPT ![g] = 0]
                /\ short' = [short EXCEPT ![g] = 0]

Failing(F) == [x \in Sessions |-> IF x \in F THEN [mem[x] EXCEPT !.state = "failed"] ELSE mem[x]]
Saved(S) == [x \in Sessions |-> IF x \in S THEN mem'[x] ELSE disk[x]]

\* renameGroup: the whole group moves to the next key, unless the key was
\* renamed too often; the sessions in F failed before.
RenameGroup(k, group, F) ==
  IF k.gen >= MaxKeyRenames
    THEN /\ mem' = Failing(F) /\ disk' = Saved(F)
         /\ Return
         /\ UNCHANGED counts
    ELSE /\ mem' = [x \in Sessions |->
                      IF x \in group THEN [mem[x] EXCEPT !.state = "waiting", !.key = [gen |-> k.gen + 1, raw |-> FALSE]]
                                     ELSE mem[x]]
         /\ disk' = Saved(group)
         /\ ForgetKey(k.gen)
         /\ Return

\* completion.videoHeld: what an .mp4 that was to be extended already shows.
VideoHeld == IF att.plan = "extend" THEN att.present \cup FirstOf(att.add, att.skip) ELSE {}

\* Mutant: a give-up is recorded as if the .mp4 had been stored.
CompletedAsStored(x, k, got) ==
  LET has == captured[x] # "off" /\ got # "none"
  IN [mem[x] EXCEPT !.state = "uploaded", !.key = k, !.vup = @ \/ has, !.verr = @ /\ ~has]

\* What completeGroup writes to one member's record.
Completed(x, k, got) ==
  LET has   == captured[x] # "off"
      shown == has /\ (got = "stored" \/ (got = "gaveup" /\ x \in VideoHeld))
  IN [mem[x] EXCEPT !.state = "uploaded", !.key = k, !.vup = @ \/ shown,
                    !.verr = IF shown THEN FALSE ELSE @ \/ (has /\ got = "gaveup")]

\* completeGroup, under Manager.mu; the sidecars are written one by one later.
CompleteGroup(members, k, got) ==
  /\ mem' = [x \in Sessions |-> IF x \in members THEN Completed(x, k, got) ELSE mem[x]]
  /\ ForgetKey(att.key.gen)
  /\ att' = [att EXCEPT !.todo = members]
  /\ pc' = "record"

-----------------------------------------------------------------------------
\* Capturing.

\* keyForLocked: the newest session whose key names an .m4a lends its key.
Lenders(S, f) == {o \in S : ~f[o].key.raw}
KeyFor(S, f) == IF Lenders(S, f) = {} THEN BaseKey
                ELSE f[CHOOSE o \in Lenders(S, f) : \A x \in Lenders(S, f) : x <= o].key

StartSession(s) ==
  /\ mem[s].state = "none"
  /\ \A o \in Sessions : o < s => Finished(o)
  /\ mem' = [mem EXCEPT ![s].state = "recording", ![s].key = KeyFor({o \in Sessions : o < s}, mem)]
  /\ disk' = [disk EXCEPT ![s] = mem'[s]]
  /\ UNCHANGED <<captured, dir, store, pc, att, counts, disabled, history, left>>

Finalize(s) ==
  /\ mem[s].state = "recording"
  /\ mem' = [mem EXCEPT ![s].state = "waiting"]
  /\ disk' = [disk EXCEPT ![s] = mem'[s]]
  /\ dir' = [dir EXCEPT ![s] = IF captured[s] = "picture" THEN {"aac", "ts"} ELSE {"aac"}]
  /\ UNCHANGED <<captured, store, pc, att, counts, disabled, history, left>>

-----------------------------------------------------------------------------
\* One upload attempt.

Waiting(k) == {x \in Sessions : mem[x].state = "waiting" /\ mem[x].key = k}

\* claimGroup, classifyMembers and the HEAD of the audio's key: what the
\* manifest lists is present, the rest is added or, without a capture, fails.
\* A session older than the object's last part goes elsewhere, with its group.
Begin(s) ==
  /\ pc = "idle" /\ ~disabled
  /\ mem[s].state = "waiting"
  /\ \A x \in Sessions : mem[x].key = mem[s].key => mem[x].state # "recording"
  /\ LET k       == mem[s].key
         group   == Waiting(k)
         o       == audio[k]
         present == group \cap Parts(o)
         add     == {x \in group \ present : "aac" \in dir[x]}
         failed  == group \ (add \cup present)
         outOfOrder == \E x \in add, y \in Parts(o) : x < y
     IN \/ /\ o.by = "foreign"
           /\ RenameGroup(k, group, {})
        \/ /\ Ours(o) /\ add # {} /\ (outOfOrder \/ ~CondWrites)
           /\ RenameGroup(k, group, failed)
        \/ /\ o.by # "foreign" /\ (Ours(o) /\ add # {} => ~outOfOrder /\ CondWrites)
           /\ mem' = Failing(failed) /\ disk' = Saved(group)
           /\ IF add \cup present = {} THEN Return
              ELSE /\ att' = [Idle EXCEPT !.own = s, !.key = k, !.dest = k, !.group = group, !.add = add,
                                         !.present = present, !.remote = o.parts]
                   /\ pc' = CASE add = {} -> "converge"
                             [] add # {} /\ WithVideo(group) -> "headvideo"
                             [] OTHER -> "build"
           /\ UNCHANGED counts
  /\ UNCHANGED <<captured, dir, store, disabled, history, left>>

\* Nothing to add: convergeVideo asks whether the .mp4 lists the same sessions
\* as the .m4a, and the sessions are done.
Converge ==
  /\ pc = "converge"
  /\ LET o   == VideoAt(att.key)
         got == CASE ~WithVideo(att.group) -> "none"
                  [] WithVideo(att.group) /\ Ours(o) /\ o.parts = att.remote -> "stored"
                  [] OTHER -> "gaveup"
     IN CompleteGroup(att.present, att.key, got)
  /\ UNCHANGED <<captured, disk, dir, store, disabled, history, left>>

Target == att.remote \o InOrder(att.add)
Base == Len(att.remote)

\* Mutant: only the stored .m4a's own manifest is taken for in sync.
PrefixesStrict == {Base} \cap 1 .. Base

\* headVideo: the lengths of the manifests a stored picture may have to be
\* extended: the .m4a's sessions and some of the new ones.
Prefixes == {n \in Base .. Len(Target) - 1 : n > 0}

HeadVideo ==
  /\ pc = "headvideo"
  /\ LET o == VideoAt(att.key)
     IN \/ /\ o.by = "foreign"
           /\ RenameGroup(att.key, att.group, {})
        \/ /\ o.by # "foreign"
           /\ \/ /\ Ours(o) /\ o.parts = Target
                 /\ att' = [att EXCEPT !.plan = "reuse", !.seen = o]
              \/ /\ Ours(o) /\ o.shown # {}
                 /\ \E n \in Prefixes :
                      /\ o.parts = SubSeq(Target, 1, n)
                      /\ att' = [att EXCEPT !.plan = "extend", !.seen = o, !.skip = n - Base]
              \/ /\ ~Ours(o) \/ /\ o.parts # Target
                                /\ o.shown # {} => \A n \in Prefixes : o.parts # SubSeq(Target, 1, n)
                 /\ att' = [att EXCEPT !.plan = "fresh", !.seen = o]
           /\ pc' = IF att'.plan = "reuse" THEN "build" ELSE "space"
           /\ UNCHANGED <<mem, disk, counts>>
  /\ UNCHANGED <<captured, dir, store, disabled, history, left>>

\* The disk preflight of the companion's share: it fits, or the shortage is
\* waited out, or it has lasted too long and the companion is given up.
SpaceForVideo ==
  /\ pc = "space"
  /\ short' = [short EXCEPT ![att.key.gen] = 0]
  /\ pc' = "build"
  /\ UNCHANGED <<captured, mem, disk, dir, store, att, failures, disabled, history, left>>

NoSpaceForVideo ==
  /\ pc = "space"
  /\ LET g == att.key.gen
     IN \/ /\ short[g] < MaxShort
           /\ short' = [short EXCEPT ![g] = @ + 1]
           /\ Return
        \/ /\ short[g] >= MaxShort
           /\ att' = [att EXCEPT !.got = "gaveup"]
           /\ pc' = "build"
           /\ UNCHANGED short
  /\ UNCHANGED <<captured, mem, disk, dir, store, failures, disabled, history, left>>

\* The remux of the .m4a fails: the attempt is retried or, the last time, the
\* raw capture is stored, never next to an object that already holds audio, and
\* without any companion.
RemuxFails ==
  /\ pc = "build"
  /\ Fault("remux")
  /\ \/ /\ Return
        /\ UNCHANGED <<mem, disk, counts>>
     \/ /\ att.remote # <<>>
        /\ RenameGroup(att.key, att.group, {})
     \/ /\ att.remote = <<>>
        /\ pc' = "fallback"
        /\ att' = [att EXCEPT !.plan = "none"]
        /\ UNCHANGED <<mem, disk, counts>>
  /\ UNCHANGED <<captured, dir, store, disabled, history>>

\* The .m4a is built and there is no companion to build: none is wanted, it was
\* given up, or the stored one is right.
NoVideoBuild ==
  /\ pc = "build"
  /\ att.plan \in {"none", "reuse"} \/ att.got = "gaveup"
  /\ att' = [att EXCEPT !.got = IF att.plan = "reuse" THEN "stored" ELSE @]
  /\ pc' = "doc"
  /\ UNCHANGED <<captured, mem, disk, dir, store, counts, disabled, history, left>>

\* Mutant: off by one, the first session the stored .mp4 misses is taken as shown.
ShownAfterOneMore ==
  IF att.plan = "extend" THEN att.seen.shown \cup WithTS(att.add \ FirstOf(att.add, att.skip + 1))
                         ELSE WithTS(att.add)

\* buildVideoCompanion: the sessions whose captured picture the new .mp4 shows.
ShownAfter ==
  IF att.plan = "extend" THEN att.seen.shown \cup WithTS(att.add \ FirstOf(att.add, att.skip))
                         ELSE WithTS(att.add)

\* The .m4a is built, then the companion; the stored one is downloaded with
\* If-Match when it is extended.
BuildVideo ==
  /\ pc = "build"
  /\ att.plan \in {"fresh", "extend"} /\ att.got = "none"
  /\ \/ /\ att.plan = "extend" /\ VideoAt(att.key) # att.seen
        /\ Return
     \/ /\ att.plan = "extend" => VideoAt(att.key) = att.seen
        /\ att' = [att EXCEPT !.built = [by |-> "us", parts |-> Target, shown |-> ShownAfter]]
        /\ pc' = "putvideo"
  /\ UNCHANGED <<captured, mem, disk, dir, store, counts, disabled, history, left>>

\* Mutant: failed builds are not counted.
BuildVideoFailsUncounted ==
  /\ pc = "build"
  /\ att.plan \in {"fresh", "extend"} /\ att.got = "none"
  /\ Return
  /\ UNCHANGED <<captured, mem, disk, dir, store, counts, disabled, history, left>>

\* noteVideoFailure: the last of too many failures in a row gives up.
BuildVideoFails ==
  /\ pc = "build"
  /\ att.plan \in {"fresh", "extend"} /\ att.got = "none"
  /\ LET g == att.key.gen
     IN \/ /\ failures[g] + 1 < MaxBuildFailures
           /\ failures' = [failures EXCEPT ![g] = @ + 1]
           /\ Return
        \/ /\ failures[g] + 1 >= MaxBuildFailures
           /\ failures' = [failures EXCEPT ![g] = MaxBuildFailures]
           /\ att' = [att EXCEPT !.got = "gaveup"]
           /\ pc' = "doc"
  /\ UNCHANGED <<captured, mem, disk, dir, store, short, disabled, history, left>>

\* Mutant: the .mp4 is always written with Overwrite.
MayPutVideoAlways == TRUE

\* putVideo: conditional on what the HEAD saw, where the endpoint enforces it.
MayPutVideo == CondWrites => VideoAt(att.key) = att.seen

PutVideo ==
  /\ pc = "putvideo"
  /\ \/ /\ MayPutVideo
        /\ video' = [video EXCEPT ![att.key.gen] = att.built]
        /\ dropped' = dropped \cup (VideoAt(att.key).shown \ att.built.shown)
        /\ \/ /\ att' = [att EXCEPT !.got = "stored"]
              /\ pc' = "doc"
              /\ UNCHANGED left
           \/ Fault("lost") /\ Return
     \/ /\ ~MayPutVideo
        /\ Return
        /\ UNCHANGED <<video, dropped, left>>
     \/ /\ Fault("refused")
        /\ att' = [att EXCEPT !.got = "gaveup"]
        /\ pc' = "doc"
        /\ UNCHANGED <<video, dropped>>
  /\ UNCHANGED <<captured, mem, disk, dir, audio, doc, counts, disabled, givenUp>>

\* Mutant: a merge leaves the document alone.
WrittenOnce == IF att.remote # <<>> THEN doc[att.dest.gen]
               ELSE [parts |-> Target, stored |-> att.got = "stored", refused |-> FALSE]

\* metadataDocument of the object about to be stored.
Written == [parts |-> Target, stored |-> att.got = "stored", refused |-> FALSE]

\* putMetadata: unconditional; a refusal costs the document only.  The .m4a and
\* the fallback's .aac share it.
PutDoc ==
  /\ pc = "doc"
  /\ \/ /\ doc' = [doc EXCEPT ![att.dest.gen] = Written]
        /\ \/ pc' = "put" /\ UNCHANGED <<att, left>>
           \/ Fault("lost") /\ Return
     \/ /\ Fault("refused")
        /\ doc' = [doc EXCEPT ![att.dest.gen].refused = TRUE]
        /\ pc' = "put"
        /\ UNCHANGED att
  /\ UNCHANGED <<captured, mem, disk, dir, audio, video, counts, disabled, history>>

\* The audio: create-only or If-Match; once it is stored the group is done.
PutAudio ==
  /\ pc = "put"
  /\ LET k == att.dest
     IN \/ /\ CondWrites => audio[k].by # "foreign" /\ audio[k].parts = att.remote
           /\ audio' = [audio EXCEPT ![k] = [by |-> "us", parts |-> Target]]
           /\ givenUp' = IF att.got = "gaveup" THEN givenUp \cup (att.add \ VideoHeld) ELSE givenUp
           /\ \/ /\ CompleteGroup(att.add \cup att.present, k, att.got)
                 /\ UNCHANGED left
              \/ Fault("lost") /\ Return /\ UNCHANGED <<mem, counts>>
        \/ /\ CondWrites /\ (audio[k].by = "foreign" \/ audio[k].parts # att.remote)
           /\ Return
           /\ UNCHANGED <<mem, audio, counts, givenUp, left>>
  /\ UNCHANGED <<captured, disk, dir, video, doc, disabled, dropped>>

\* uploadFallback: the raw capture goes to the .aac key, without companion.
Fallback ==
  /\ pc = "fallback"
  /\ LET k    == [att.key EXCEPT !.raw = TRUE]
         o    == audio[k]
         got  == IF WithVideo(att.group) THEN "gaveup" ELSE "none"
     IN \/ /\ o.by # "none" /\ ~(Ours(o) /\ att.add \subseteq Parts(o))
           /\ RenameGroup(att.key, att.group, {})
        \/ /\ Ours(o) /\ att.add \subseteq Parts(o)
           /\ CompleteGroup(att.add, k, got)
           /\ UNCHANGED disk
        \/ /\ o.by = "none"
           /\ att' = [att EXCEPT !.dest = k, !.got = got]
           /\ pc' = "doc"
           /\ UNCHANGED <<mem, disk, counts>>
  /\ UNCHANGED <<captured, dir, store, disabled, history, left>>

\* A HEAD, a download or a PUT fails before it has any effect.
Interrupted ==
  /\ pc \in {"converge", "headvideo", "build", "fallback", "putvideo", "doc", "put"}
  /\ Fault("transfer")
  /\ Return
  /\ UNCHANGED <<captured, mem, disk, dir, store, counts, disabled, history>>

-----------------------------------------------------------------------------
\* Recording the result.

\* completeGroup: a member's sidecar says "uploaded" before its files go.
RecordUpload ==
  /\ pc = "record"
  /\ \E x \in att.todo :
       \/ /\ disk' = [disk EXCEPT ![x] = mem[x]]
          /\ att' = [att EXCEPT !.todo = @ \ {x}, !.cur = x]
          /\ pc' = "aac"
          /\ UNCHANGED left
       \/ /\ Fault("sidecar")
          /\ att' = [att EXCEPT !.todo = @ \ {x}, !.lost = TRUE]
          /\ UNCHANGED <<disk, pc>>
  /\ UNCHANGED <<captured, mem, dir, store, counts, disabled, history>>

RemoveCapture ==
  /\ pc = "aac"
  /\ dir' = [dir EXCEPT ![att.cur] = @ \ {"aac"}]
  /\ IF disabled /\ att.got # "stored" THEN Return ELSE pc' = "ts" /\ UNCHANGED att
  /\ UNCHANGED <<captured, mem, disk, store, counts, disabled, history, left>>

\* removeVideoFiles.
RemovePictures ==
  /\ pc = "ts"
  /\ dir' = [dir EXCEPT ![att.cur] = @ \ {"ts"}]
  /\ IF disabled THEN Return ELSE pc' = "record" /\ att' = [att EXCEPT !.cur = Nobody]
  /\ UNCHANGED <<captured, mem, disk, store, counts, disabled, history, left>>

\* The attempt ends; a sidecar that could not be written makes it fail.
Recorded ==
  /\ pc = "record" /\ att.todo = {}
  /\ mem' = IF att.lost THEN [mem EXCEPT ![att.own].state = "waiting"] ELSE mem
  /\ disk' = Saved(IF att.lost THEN {att.own} ELSE {})
  /\ Return
  /\ UNCHANGED <<captured, dir, store, counts, disabled, history, left>>

-----------------------------------------------------------------------------
\* keepLocally: UPLOAD_DISABLED.

KeepBegin(s) ==
  /\ pc = "idle" /\ disabled
  /\ mem[s].state \in {"waiting", "requeued"}
  /\ \/ /\ "aac" \in dir[s]
        /\ att' = [Idle EXCEPT !.own = s, !.cur = s]
        /\ pc' = "keep"
        /\ UNCHANGED <<mem, disk>>
     \/ /\ "aac" \notin dir[s]
        /\ mem' = [mem EXCEPT ![s].state = "kept", ![s].out = @ \/ "m4a" \in dir[s],
                              ![s].vout = @ \/ ("mp4" \in dir[s] /\ captured[s] # "off")]
        /\ disk' = Saved({s})
        /\ UNCHANGED <<pc, att>>
  /\ UNCHANGED <<captured, dir, store, counts, disabled, history, left>>

\* The .m4a is built; a failure keeps the raw capture.
KeepBuild ==
  /\ pc = "keep"
  /\ \/ /\ pc' = IF captured[att.own] = "off" THEN "keepname" ELSE "keepvideo"
        /\ UNCHANGED <<mem, disk, att, left>>
     \/ /\ Fault("remux")
        /\ mem' = [mem EXCEPT ![att.own].state = "kept"]
        /\ disk' = Saved({att.own})
        /\ Return
  /\ UNCHANGED <<captured, dir, store, counts, disabled, history>>

\* keepVideo: <session>.mp4, or why there is none.
KeepVideo ==
  /\ pc = "keepvideo"
  /\ \/ /\ dir' = [dir EXCEPT ![att.own] = @ \cup {"mp4"}]
        /\ att' = [att EXCEPT !.got = "stored"]
     \/ /\ att' = [att EXCEPT !.got = "gaveup"]
        /\ UNCHANGED dir
  /\ pc' = "keepname"
  /\ UNCHANGED <<captured, mem, disk, store, counts, disabled, history, left>>

KeepRename ==
  /\ pc = "keepname"
  /\ dir' = [dir EXCEPT ![att.own] = @ \cup {"m4a"}]
  /\ pc' = "keepsave"
  /\ UNCHANGED <<captured, mem, disk, store, att, counts, disabled, history, left>>

\* Mutant: the error of the sidecar write is ignored.
KeepSaveBlindly ==
  /\ pc = "keepsave"
  /\ mem' = [mem EXCEPT ![att.own].state = "kept", ![att.own].out = TRUE]
  /\ pc' = "aac"
  /\ \/ disk' = Saved({att.own}) /\ UNCHANGED left
     \/ Fault("sidecar") /\ UNCHANGED disk
  /\ UNCHANGED <<captured, dir, store, att, counts, disabled, history>>

\* The .aac outlives a sidecar that does not name the .m4a.
KeepSave ==
  /\ pc = "keepsave"
  /\ LET s == att.own
         r == [mem[s] EXCEPT !.state = "kept", !.out = TRUE]
     IN mem' = [mem EXCEPT ![s] = IF captured[s] = "off" THEN r
                                  ELSE [r EXCEPT !.vout = att.got = "stored", !.verr = att.got = "gaveup"]]
  /\ \/ /\ disk' = Saved({att.own})
        /\ pc' = "aac"
        /\ UNCHANGED <<att, left>>
     \/ /\ Fault("sidecar")
        /\ Return
        /\ UNCHANGED disk
  /\ UNCHANGED <<captured, dir, store, counts, disabled, history>>

-----------------------------------------------------------------------------
\* The process and the others.

\* migrateKeyLocked: an unfinished session whose key names no .m4a.
Migrated(s) ==
  IF disk[s].key.raw /\ disk[s].state \in {"recording", "waiting"}
    THEN [disk[s] EXCEPT !.key = KeyFor({o \in Sessions : o < s}, disk)]
    ELSE disk[s]

\* Recover: an uploaded session whose capture is still there is verified again;
\* with uploads disabled a kept one without its .m4a is remuxed again.
Recovered(s, d) ==
  CASE disk[s].state = "uploaded" /\ "aac" \in dir[s] -> "waiting"
    [] disk[s].state = "kept" /\ d /\ "aac" \in dir[s] /\ "m4a" \notin dir[s] -> "requeued"
    [] OTHER -> disk[s].state

\* The process stops anywhere and starts again, perhaps in the other mode.
Restart ==
  /\ Fault("crash")
  /\ disabled' \in IF MayDisable THEN BOOLEAN ELSE {FALSE}
  /\ mem' = [s \in Sessions |-> [Migrated(s) EXCEPT !.state = Recovered(s, disabled')]]
  /\ disk' = [s \in Sessions |-> Migrated(s)]
  /\ Return
  /\ failures' = [g \in Gens |-> 0]
  /\ short' = [g \in Gens |-> 0]
  /\ UNCHANGED <<captured, dir, store, history>>

\* Somebody else stores an object under a free key.
ForeignPut ==
  /\ Fault("foreign")
  /\ \E g \in Gens :
       \/ /\ video[g].by = "none"
          /\ video' = [video EXCEPT ![g].by = "foreign"]
          /\ UNCHANGED audio
       \/ /\ audio[[gen |-> g, raw |-> FALSE]].by = "none"
          /\ audio' = [audio EXCEPT ![[gen |-> g, raw |-> FALSE]].by = "foreign"]
          /\ UNCHANGED video
  /\ UNCHANGED <<captured, mem, disk, dir, doc, pc, att, counts, disabled, history>>

AttemptStep ==
  \/ Converge \/ HeadVideo \/ SpaceForVideo \/ NoSpaceForVideo \/ NoVideoBuild \/ BuildVideo
  \/ BuildVideoFails \/ PutVideo \/ PutDoc \/ PutAudio \/ Fallback
  \/ RecordUpload \/ RemoveCapture \/ RemovePictures \/ Recorded
  \/ KeepBuild \/ KeepVideo \/ KeepRename \/ KeepSave

Next == \/ \E s \in Sessions : StartSession(s) \/ Finalize(s) \/ Begin(s) \/ KeepBegin(s)
        \/ AttemptStep \/ RemuxFails \/ Interrupted \/ Restart \/ ForeignPut

Spec == Init /\ [][Next]_vars

\* Captures end, an attempt goes on, and every session's loop asks for the next
\* one: a mutex in starvation mode serves whoever keeps asking.  Nothing says
\* that a companion is ever built or that the disk ever has room for it.
Fairness == /\ WF_vars(AttemptStep)
            /\ \A s \in Sessions : WF_vars(Finalize(s)) /\ SF_vars(Begin(s) \/ KeepBegin(s))

FairSpec == Spec /\ Fairness

-----------------------------------------------------------------------------
PCs == {"idle", "converge", "headvideo", "space", "build", "fallback", "putvideo", "doc", "put",
        "record", "aac", "ts", "keep", "keepvideo", "keepname", "keepsave"}

TypeOK ==
  /\ captured \in Captures
  /\ mem \in [Sessions -> SessionRecords]
  /\ disk \in [Sessions -> SessionRecords]
  /\ dir \in [Sessions -> SUBSET {"aac", "ts", "m4a", "mp4"}]
  /\ pc \in PCs
  /\ failures \in [Gens -> 0 .. MaxBuildFailures]
  /\ short \in [Gens -> 0 .. MaxShort]
  /\ disabled \in BOOLEAN
  /\ givenUp \subseteq Sessions
  /\ dropped \subseteq Sessions
  /\ left \in 0 .. MaxFaults

\* The audio of a finished session is always in its capture, in a kept .m4a its
\* durable sidecar names, or in an object of this recorder: whatever becomes of
\* the .mp4, of the document, of the mode and of sidecar writes.
AudioKept == \A s \in Sessions : Finished(s) =>
  \/ "aac" \in dir[s]
  \/ "m4a" \in dir[s] /\ disk[s].out
  \/ \E k \in Keys : Ours(audio[k]) /\ s \in Parts(audio[k])

\* A durable sidecar accounts for the companion: an uploaded session marked
\* videoUploaded is in the manifest of an .mp4 of this recorder, and every
\* uploaded session with video is marked or says why not.
VideoAccounted == \A s \in Sessions : disk[s].state = "uploaded" =>
  /\ disk[s].vup => \E g \in Gens : Ours(video[g]) /\ s \in Parts(video[g])
  /\ captured[s] # "off" => disk[s].vup \/ disk[s].verr

\* The document next to an .m4a is never behind it: it lists what the .m4a
\* lists, perhaps more, unless the store refused a document.
DocNeverBehind == \A g \in Gens :
  LET o == audio[[gen |-> g, raw |-> FALSE]]
  IN Ours(o) /\ ~doc[g].refused =>
       Len(o.parts) <= Len(doc[g].parts) /\ o.parts = SubSeq(doc[g].parts, 1, Len(o.parts))

\* TS files are only removed once their picture is in the .mp4 under the
\* session's key or in a kept .mp4, or once the companion of the session's
\* object had been given up (the next build makes the stored part black), or
\* when the picture was stored and a later .mp4 left it out (StoredPicturesStay
\* says when that may be).
PicturesRemovedRightly == [][\A s \in Sessions :
  "ts" \in dir[s] /\ "ts" \notin dir'[s] =>
    \/ s \in VideoAt(mem[s].key).shown \/ "mp4" \in dir[s]
    \/ s \in givenUp \/ givenUp \cap Parts(audio[mem[s].key]) # {}
    \/ s \in dropped]_vars

\* The .mp4 under a key lags the .m4a, or is ahead of it by a session that went
\* elsewhere since, or a session came back to the key that belongs before one
\* the .mp4 lists.
Lags(g) == \E s \in Parts(audio[[gen |-> g, raw |-> FALSE]]) : s \notin Parts(video[g])
Deserted(g) == \E s \in Parts(video[g]) :
  /\ s \notin Parts(audio[[gen |-> g, raw |-> FALSE]])
  /\ mem[s].state # "waiting" \/ mem[s].key # [gen |-> g, raw |-> FALSE]

Overtaken(g) == \E s \in Waiting([gen |-> g, raw |-> FALSE]), later \in Parts(video[g]) :
  s \notin Parts(video[g]) /\ s < later

\* A stored picture never turns black or disappears, except from an .mp4 that
\* lags its .m4a, holds a session that has gone elsewhere since or misses one
\* that belongs in between; a failed PUT of the .m4a alone never costs it.
StoredPicturesStay == [][\A g \in Gens :
  video[g].shown \subseteq video'[g].shown \/ Lags(g) \/ Deserted(g) \/ Overtaken(g)]_vars

\* Another recorder's .mp4 is never replaced.
ForeignVideoKept == [][\A g \in Gens : video[g].by = "foreign" => video'[g] = video[g]]_vars

\* What moves a key's group away: a foreign .m4a, sessions that cannot be merged
\* into the stored one, or, with something to add and video wanted, a foreign
\* .mp4 (headVideo).
Conflict(k) ==
  LET o   == audio[k]
      add == {x \in Waiting(k) \ Parts(o) : "aac" \in dir[x]}
  IN \/ o.by = "foreign"
     \/ /\ add # {}
        /\ \/ Ours(o) /\ (~CondWrites \/ \E x \in add, y \in Parts(o) : x < y)
           \/ WithVideo(Waiting(k)) /\ VideoAt(k).by = "foreign"

\* The group would have to move once more and renameGroup's limit is reached.
Blocked(s) == ~disabled /\ mem[s].key.gen = MaxKeyRenames /\ Conflict(mem[s].key)

\* Audio wins over a companion that cannot be built, written or afforded: in the
\* end every capture is uploaded or kept and nothing is left to do.  Not over one
\* somebody else stored: a foreign .mp4 under the last key blocks the group's audio
\* for good, exactly as a foreign .m4a does.
AudioThrough == <>[](\A s \in Sessions :
  mem[s].state \in {"recording", "waiting", "requeued"} => mem[s].state = "waiting" /\ Blocked(s))
=============================================================================
