--------------------------- MODULE CaptureSource ---------------------------
(***************************************************************************)
(* captureLoop and openCapture (src/video_pipeline.cpp) against the video  *)
(* source: a file that ends, or a live stream (RTSP, USB) whose link goes  *)
(* down and comes back.  Module VideoPipeline leaves the source free; here *)
(* it behaves, and the question is whether frames go on.                   *)
(*                                                                         *)
(* OpenCV is external.  A live session ends with the link and never comes  *)
(* back by itself: read() fails until the capture is released and opened   *)
(* again, and set(CAP_PROP_POS_FRAMES, 0) does nothing to it.  A file is   *)
(* always there, read() fails at its end, and the same set() rewinds it.   *)
(***************************************************************************)
EXTENDS Naturals

CONSTANTS
  Setups,       \* the sources and options to start from
  FileLength,   \* frames in a file
  MaxFrames,    \* bound: the frame counter wraps here
  MaxOutages    \* bound: times the link goes down

\* What config.yaml says, and whether its source is a stream or a file.
Setup == [live : BOOLEAN, use_rknn : BOOLEAN, loop_video : BOOLEAN, reconnect : BOOLEAN]

ASSUME SourceAssumption ==
  /\ Setups \subseteq Setup
  /\ FileLength \in Nat \ {0} /\ MaxFrames \in Nat \ {0, 1} /\ MaxOutages \in Nat

VARIABLES
  setup,     \* config_, which never changes
  link,      \* the source can be reached
  outages,   \* times it could not
  running,   \* running_
  cap_open,  \* cap.isOpened()
  session,   \* an open live session is still connected
  position,  \* the next frame of an open file
  frame_id,  \* captureLoop's counter, modulo MaxFrames
  kind,      \* the last frame pushed: "none", "real" or "synthetic"
  pc         \* captureLoop

environment == <<setup, link, outages>>
capture == <<cap_open, session, position>>
frames == <<frame_id, kind>>
vars == <<environment, running, capture, frames, pc>>

Init ==
  /\ setup \in Setups
  /\ link \in (IF setup.live THEN BOOLEAN ELSE {TRUE})
  /\ outages = 0
  /\ running = TRUE
  /\ cap_open = FALSE /\ session = FALSE /\ position = 0
  /\ frame_id = 0 /\ kind = "none"
  /\ pc = "loop"

-----------------------------------------------------------------------------
(* The source.                                                             *)

LinkDown ==
  /\ setup.live /\ link
  /\ outages < MaxOutages
  /\ outages' = outages + 1
  /\ link' = FALSE
  /\ session' = FALSE
  /\ UNCHANGED <<setup, running, cap_open, position, frames, pc>>

LinkUp ==
  /\ ~link
  /\ link' = TRUE
  /\ UNCHANGED <<setup, outages, running, capture, frames, pc>>

-----------------------------------------------------------------------------
(* captureLoop                                                             *)

Loop ==
  /\ pc = "loop"
  /\ pc' = IF ~running THEN "done" ELSE IF cap_open THEN "read" ELSE "open"
  /\ UNCHANGED <<environment, running, capture, frames>>

\* packet.frame_id = frame_id++ and pushDropOldest.
Push(what) ==
  /\ frame_id' = (frame_id + 1) % MaxFrames
  /\ kind' = what

\* openCapture succeeds.
Open ==
  /\ pc = "open"
  /\ link
  /\ cap_open' = TRUE /\ session' = setup.live /\ position' = 0
  /\ pc' = "read"
  /\ UNCHANGED <<environment, running, frames>>

\* Makes no picture of its own.
OpenFailsQuietly ==
  /\ pc = "open"
  /\ ~link
  /\ pc' = "loop"
  /\ UNCHANGED <<environment, running, capture, frames>>

\* openCapture fails: a synthetic frame in a mock run, and another attempt.
OpenFails ==
  /\ pc = "open"
  /\ ~link
  /\ IF setup.use_rknn THEN UNCHANGED frames ELSE Push("synthetic")
  /\ pc' = "loop"
  /\ UNCHANGED <<environment, running, capture>>

\* Whether cap.read() can deliver a frame.
CanRead == IF setup.live THEN session ELSE position < FileLength

\* cap.read() delivers a frame.
Read ==
  /\ pc = "read"
  /\ CanRead
  /\ position' = IF setup.live THEN position ELSE position + 1
  /\ Push("real")
  /\ pc' = "loop"
  /\ UNCHANGED <<environment, running, cap_open, session>>

\* loop_video: set(CAP_PROP_POS_FRAMES, 0), whatever the source is.
Rewind ==
  /\ pc = "read"
  /\ ~CanRead
  /\ setup.loop_video
  /\ position' = 0
  /\ pc' = "loop"
  /\ UNCHANGED <<environment, running, cap_open, session, frames>>

\* Tries to read again on the capture that failed.
ReadAgain ==
  /\ pc = "read"
  /\ ~CanRead
  /\ ~setup.loop_video /\ setup.reconnect
  /\ pc' = "loop"
  /\ UNCHANGED <<environment, running, capture, frames>>

\* reconnect: release, and open again in the next iteration.
Release ==
  /\ pc = "read"
  /\ ~CanRead
  /\ ~setup.loop_video /\ setup.reconnect
  /\ cap_open' = FALSE /\ session' = FALSE
  /\ pc' = "loop"
  /\ UNCHANGED <<environment, running, position, frames>>

\* Neither: the pipeline ends.
EndOfSource ==
  /\ pc = "read"
  /\ ~CanRead
  /\ ~setup.loop_video /\ ~setup.reconnect
  /\ running' = FALSE
  /\ pc' = "done"
  /\ UNCHANGED <<environment, capture, frames>>

\* stop(), or the benchmark's limit.
Stop ==
  /\ running
  /\ running' = FALSE
  /\ UNCHANGED <<environment, capture, frames, pc>>

-----------------------------------------------------------------------------
CaptureThread ==
  \/ Loop \/ Open \/ OpenFails \/ Read \/ Rewind \/ Release \/ EndOfSource

Next == CaptureThread \/ LinkDown \/ LinkUp \/ Stop

Spec == Init /\ [][Next]_vars

\* The capture thread is scheduled: its sleeps end and read() returns.
FairSpec == Spec /\ WF_vars(CaptureThread)

-----------------------------------------------------------------------------
\* "RTSP disconnects: keep video.reconnect=true" (README.md): once the link
\* is up for good, frames of the source come again and again, until the
\* pipeline is stopped.
Recovers ==
  <>[](link /\ running) => []<><<kind' = "real" /\ frames' # frames>>_vars

\* A mock run always has a picture: while the source cannot be opened, and
\* when it goes away later, frames, real or synthetic, go on until the
\* pipeline is stopped or the source ends.
MockNeverStarves ==
  setup.use_rknn \/ <>(~running) \/ []<><<frames' # frames>>_vars
=============================================================================
