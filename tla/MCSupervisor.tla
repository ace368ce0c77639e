---------------------------- MODULE MCSupervisor ----------------------------
(* Instances of Supervisor for TLC: sources of different kinds and how often
   the environment interferes. *)
EXTENDS Supervisor

CONSTANTS plain, silent, variant, foreign

Good == [audio |-> "aac", copies |-> TRUE, video |-> "works", maps |-> "plain", ownWorks |-> TRUE,
         picky |-> FALSE]

\* plain: nothing wrong; silent: ffmpeg refuses an option, the stream cannot be
\* copied, and the video ends the run without a word; variant: the variant's own
\* audio breaks the video output, which says so; foreign: no AAC and no video.
Kinds == [s \in Sources |->
            CASE s = plain   -> [Good EXCEPT !.maps = "own"]
              [] s = silent  -> [Good EXCEPT !.video = "silent", !.copies = FALSE, !.picky = TRUE]
              [] s = variant -> [Good EXCEPT !.maps = "own", !.ownWorks = FALSE]
              [] s = foreign -> [Good EXCEPT !.audio = "other", !.video = "none"]]

Item(src, req) == [source |-> src, codec |-> req]
Unspecified == {Item(src, "omitted") : src \in Sources}
Specified   == {Item(plain, "copy"), Item(silent, "omitted"), Item(variant, "omitted"),
                Item(foreign, "omitted"), Item(foreign, "aac")}

NoEvents == [f \in FaultKinds |-> 0]
Troubled == [f \in FaultKinds |-> 1]
Changed  == [NoEvents EXCEPT !["item"] = 1]
=============================================================================
