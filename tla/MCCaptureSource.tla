-------------------------- MODULE MCCaptureSource --------------------------
(***************************************************************************)
(* CaptureSource for TLC.                                                  *)
(***************************************************************************)
EXTENDS CaptureSource

\* config.yaml as it is shipped, its source a stream.
Shipped == [live |-> TRUE, use_rknn |-> TRUE, loop_video |-> TRUE, reconnect |-> TRUE]

ShippedOnly == {Shipped}

\* Every setup but a stream with loop_video.
RecoveringSetups == {s \in Setup : ~(s.live /\ s.loop_video)}
============================================================================
