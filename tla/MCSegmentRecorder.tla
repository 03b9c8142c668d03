-------------------------- MODULE MCSegmentRecorder --------------------------
(* SegmentRecorder with one file name. *)
EXTENDS SegmentRecorder

CONSTANT u1
MCUrls == {u1}
=============================================================================
