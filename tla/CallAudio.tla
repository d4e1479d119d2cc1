------------------------------ MODULE CallAudio ------------------------------
(***************************************************************************)
(* The sound of one call and its recording: what the peer hears comes from *)
(* outboundAudio (internal/call/outbound.go), an announcement before the   *)
(* operator's queue; the Recorder (recorder.go) keeps two rings and a      *)
(* goroutine that writes a frame of each to three temporary files at every *)
(* tick, until Finish drains, truncates and uploads them.                  *)
(*                                                                         *)
(* A frame of the operator is its number and is read in two halves; one of *)
(* the peer is its number; 0 is silence. A frame of an announcement is     *)
(* given as the number Announced.                                          *)
(***************************************************************************)
EXTENDS Naturals, Sequences, FiniteSets

CONSTANTS
  MaxSpoken,   \* bound: frames of the operator, and of the peer
  MaxTicks,    \* bound: frames written before Finish
  MaxPlays,    \* bound: announcements, and detached operators
  QueueFrames, \* operatorQueueFrames
  RingFrames,  \* recorderRingSamples
  MaxIOErrors, \* bound: file and upload errors
  MaxVideo     \* bound: access units

\* What the constants have to be.
AudioConstants ==
  /\ MaxSpoken \in Nat /\ MaxTicks \in Nat /\ MaxPlays \in Nat /\ MaxIOErrors \in Nat /\ MaxVideo \in Nat
  /\ QueueFrames \in Nat \ {0} /\ RingFrames \in Nat \ {0}

VARIABLES
  outbound,  \* outboundAudio
  spoken,    \* frames of the operator so far, and of the peer, announcements, access units
  barrier,   \* ghost: the operator's frames up to this one may not be heard any more
  stale,     \* history: the peer was given a frame that it must not hear
  rings,     \* the rings of the recorder
  recorder,  \* started, closing, and the step of Finish
  tracks,    \* the three files, frames, audioErr
  videoFile, \* of the recorder: none, open, closed
  disk,      \* temporary files
  uploads,   \* what PutStream was given
  kept,      \* history: the peer's frames the recorder took
  overrun,   \* history: a ring was full
  ioErrors

soundVars == <<outbound, barrier, stale>>
recVars == <<rings, recorder, tracks, videoFile, disk, uploads, kept, overrun>>
audioVars == <<soundVars, spoken, recVars, ioErrors>>

-----------------------------------------------------------------------------
Announced == MaxSpoken + 1
Sounds == {"operator", "peer", "play", "detach", "video"}
TrackNames == {"mix", "peer", "operator"}
NoFrame == 0

Speaks(s, max) == spoken[s] < max /\ spoken' = [spoken EXCEPT ![s] = @ + 1]
Silent == UNCHANGED spoken
IOError == ioErrors < MaxIOErrors /\ ioErrors' = ioErrors + 1
IOWell == UNCHANGED ioErrors

-----------------------------------------------------------------------------
(* The recorder's rings.                                                    *)

\* The newest n: a full ring or queue drops its oldest. Mutant: it does not.
Unbounded(s, n) == s
Newest(s, n) == SubSeq(s, IF Len(s) > n THEN Len(s) - n + 1 ELSE 1, Len(s))
NextFrame(s) == IF s = <<>> THEN NoFrame ELSE s[1]
Shift(s) == IF s = <<>> THEN s ELSE Tail(s)

\* WritePeerAudio and WriteOperatorAudio: the goroutine starts with the first frame.
Record(ring, frame) ==
  IF recorder.closing THEN UNCHANGED <<rings, recorder, overrun, kept>>
  ELSE /\ rings' = [rings EXCEPT ![ring] = Newest(Append(@, frame), RingFrames)]
       /\ overrun' = (overrun \/ Len(rings[ring]) = RingFrames)
       /\ recorder' = [recorder EXCEPT !.started = TRUE]
       /\ kept' = IF ring = "peer" THEN Append(kept, frame) ELSE kept

FileFrame == UNCHANGED <<tracks, videoFile, disk, uploads>>

PeerAudio ==
  /\ Speaks("peer", MaxSpoken) /\ Record("peer", spoken'["peer"])
  /\ FileFrame /\ IOWell /\ UNCHANGED soundVars

-----------------------------------------------------------------------------
(* outboundAudio.                                                           *)

NotRecorded == UNCHANGED recVars /\ IOWell

\* writeOperator: dropped under an announcement, or the oldest when full.
Speak ==
  /\ Speaks("operator", MaxSpoken)
  /\ outbound' = IF outbound.closed \/ outbound.announcement > 0 THEN outbound
                 ELSE [outbound EXCEPT !.queue = Newest(Append(@, spoken'["operator"]), QueueFrames)]
  /\ UNCHANGED <<barrier, stale>> /\ NotRecorded

\* Mutant: half a frame that was begun is left to be read.
KeepsPending(o) == [o EXCEPT !.queue = <<>>]
Emptied(o) == [o EXCEPT !.queue = <<>>, !.pending = NoFrame]

\* playAnnouncement, of one or two frames.
Play ==
  /\ ~outbound.closed /\ Speaks("play", MaxPlays)
  /\ \E frames \in 1..2 : outbound' = [Emptied(outbound) EXCEPT !.announcement = frames]
  /\ barrier' = spoken["operator"] /\ UNCHANGED stale /\ NotRecorded

\* clearOperator, when an operator leaves who was not replaced.
ClearOperator ==
  /\ Speaks("detach", MaxPlays) /\ outbound' = Emptied(outbound)
  /\ barrier' = spoken["operator"] /\ UNCHANGED stale /\ NotRecorded

\* What Read is given, and what is left: announcement, begun frame, next frame.
Given ==
  IF outbound.announcement > 0 THEN Announced
  ELSE IF outbound.pending # NoFrame THEN outbound.pending ELSE NextFrame(outbound.queue)

Rest(o) ==
  IF o.announcement > 0 THEN [o EXCEPT !.announcement = @ - 1]
  ELSE IF o.pending # NoFrame THEN [o EXCEPT !.pending = NoFrame]
  ELSE [o EXCEPT !.pending = NextFrame(o.queue), !.queue = Shift(@)]

\* meowcaller reads; what is not silence is recorded too.
Read ==
  /\ ~outbound.closed /\ outbound' = Rest(outbound) /\ stale' = (stale \/ Given \in 1..barrier)
  /\ IF Given = NoFrame THEN UNCHANGED recVars ELSE Record("operator", Given) /\ FileFrame
  /\ Silent /\ IOWell /\ UNCHANGED barrier

\* outboundAudio.Close, when meowcaller is done with it.
CloseOutbound ==
  /\ ~outbound.closed
  /\ outbound' = [Emptied(outbound) EXCEPT !.announcement = 0, !.closed = TRUE]
  /\ Silent /\ UNCHANGED <<barrier, stale>> /\ NotRecorded

-----------------------------------------------------------------------------
(* run: writeFrame at every tick.                                           *)

TracksOpen == "mix" \in disk

\* openTracks: the files that were opened before one that cannot be are removed.
LeavesNone == UNCHANGED disk

OpenFails ==
  /\ ~TracksOpen /\ IOError /\ LeavesNone
  /\ tracks' = [tracks EXCEPT !.failed = TRUE]

Longer(n) ==
  [tracks EXCEPT !.length["mix"] = @ + (IF n > 0 THEN 1 ELSE 0),
                 !.length["peer"] = @ + (IF n > 1 THEN 1 ELSE 0),
                 !.length["operator"] = @ + (IF n > 2 THEN 1 ELSE 0)]

\* The frame of the peer goes to its track when n of the three are written; the
\* silence that stands for one is left out of tracks.peer.
Heard(n) ==
  IF n > 1 /\ rings["peer"] # <<>> THEN Append(tracks.peer, Head(rings["peer"])) ELSE tracks.peer

\* n of the tracks are written; short of three, the recording has failed.
WriteTracks(n) ==
  /\ disk' = disk \cup TrackNames
  /\ tracks' = [Longer(n) EXCEPT !.peer = Heard(n), !.frames = IF n = 3 THEN @ + 1 ELSE @,
                !.failed = (n # 3)]

WriteFrame ==
  /\ recorder.started /\ recorder.step \in {"on", "stopping"} /\ ~tracks.failed
  /\ recorder.step = "on" => tracks.length["mix"] < MaxTicks
  /\ recorder.step = "stopping" => rings["peer"] # <<>> \/ rings["operator"] # <<>>
  /\ rings' = [r \in {"peer", "operator"} |-> Shift(rings[r])]
  /\ \/ WriteTracks(3) /\ IOWell
     \/ \E n \in 0..2 : WriteTracks(n) /\ IOError
     \/ OpenFails
  /\ Silent /\ UNCHANGED <<soundVars, recorder, videoFile, uploads, kept, overrun>>

\* WriteVideo; when the file cannot be written it stays until finishVideo.
TakesVideo == videoFile \notin {"closed", "failed"}

WriteVideo ==
  /\ Speaks("video", MaxVideo)
  /\ IF ~TakesVideo THEN UNCHANGED <<videoFile, disk>> /\ IOWell
     ELSE \/ videoFile' = "open" /\ disk' = disk \cup {"video"} /\ IOWell
          \/ videoFile' = "failed" /\ IOError /\ disk' \in {disk, disk \cup {"video"}}
  /\ UNCHANGED <<soundVars, rings, recorder, tracks, uploads, kept, overrun>>

-----------------------------------------------------------------------------
(* Finish.                                                                  *)

FinishTo(step) == recorder' = [recorder EXCEPT !.step = step]
FinishFrame == Silent /\ UNCHANGED <<soundVars, rings, kept, overrun>>

BeginFinish ==
  /\ recorder.step = "on"
  /\ recorder' = [recorder EXCEPT !.closing = TRUE, !.step = IF recorder.started THEN "stopping" ELSE "video"]
  /\ FinishFrame /\ FileFrame /\ IOWell

\* drain has emptied the rings, or cannot write. Mutant: it is left out.
NotDrained == TRUE
QueueDrained == tracks.failed \/ (rings["peer"] = <<>> /\ rings["operator"] = <<>>)

Stopped ==
  /\ recorder.step = "stopping" /\ QueueDrained /\ FinishTo("video")
  /\ FinishFrame /\ FileFrame /\ IOWell

CloseVideo ==
  /\ recorder.step = "video" /\ FinishTo("tracks")
  /\ videoFile' = "closed" /\ FinishFrame /\ IOWell /\ UNCHANGED <<tracks, disk, uploads>>

\* finishTrack cuts a track to the frames that all three have.
Cut(t) == tracks.frames

Uploaded(ts) == [t \in ts |-> Cut(t)]

\* finishTrack and finishVideo; every file is removed whatever fails.
Upload ==
  /\ recorder.step = "tracks" /\ FinishTo("done") /\ disk' = {}
  /\ IF TracksOpen /\ tracks.frames > 0
     THEN \/ uploads' = Uploaded(TrackNames) /\ IOWell
          \/ \E ts \in SUBSET TrackNames : ts # TrackNames /\ uploads' = Uploaded(ts) /\ IOError
     ELSE UNCHANGED uploads /\ IOWell
  /\ FinishFrame /\ UNCHANGED <<tracks, videoFile>>

Over == recorder.step = "done" /\ outbound.closed /\ UNCHANGED audioVars

-----------------------------------------------------------------------------
AudioInit ==
  /\ outbound = [announcement |-> 0, queue |-> <<>>, pending |-> NoFrame, closed |-> FALSE]
  /\ spoken = [s \in Sounds |-> 0] /\ barrier = 0 /\ stale = FALSE
  /\ rings = [r \in {"peer", "operator"} |-> <<>>]
  /\ recorder = [started |-> FALSE, closing |-> FALSE, step |-> "on"]
  /\ tracks = [length |-> [t \in TrackNames |-> 0], peer |-> <<>>, frames |-> 0, failed |-> FALSE]
  /\ videoFile = "none" /\ disk = {} /\ uploads = [t \in {} |-> 0] /\ kept = <<>>
  /\ overrun = FALSE /\ ioErrors = 0

AudioNext ==
  \/ PeerAudio \/ Speak \/ Play \/ ClearOperator \/ Read \/ CloseOutbound
  \/ WriteFrame \/ WriteVideo \/ BeginFinish \/ Stopped \/ CloseVideo \/ Upload \/ Over

AudioSpec == AudioInit /\ [][AudioNext]_audioVars

-----------------------------------------------------------------------------
(* Properties.                                                              *)

AudioTypes ==
  /\ outbound.announcement \in 0..2 /\ Len(outbound.queue) <= QueueFrames
  /\ rings["peer"] \in Seq(Nat) /\ Len(rings["peer"]) <= RingFrames /\ Len(rings["operator"]) <= RingFrames
  /\ recorder.step \in {"on", "stopping", "video", "tracks", "done"}
  /\ videoFile \in {"none", "open", "failed", "closed"} /\ disk \subseteq TrackNames \cup {"video"}

\* What an operator said before an announcement began, or before leaving, is not
\* heard after it, not even the rest of a frame that was being read.
NothingStaleHeard == ~stale

\* The three tracks of a recording are of one length, the number of frames in
\* their headers, also when the disk filled up in the middle of a frame.
TracksAligned ==
  \A t, u \in DOMAIN uploads : uploads[t] = uploads[u] /\ uploads[t] = tracks.frames

\* A recording without an error has every frame the peer's ring took before Finish,
\* in order and each once, unless the ring overran.
NothingCutOff ==
  recorder.step = "done" /\ ~tracks.failed /\ ~overrun => tracks.peer = kept

\* Finish leaves no temporary file, and nothing opens one after it.
NoFileLeft == recorder.step = "done" => disk = {}

\* What a recording keeps, when a ring overran or the disk failed and when not.
RecordingWhole == TracksAligned /\ NothingCutOff /\ NoFileLeft
=============================================================================
