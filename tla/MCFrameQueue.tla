---------------------------- MODULE MCFrameQueue ----------------------------
(* FrameQueue with model values for the threads and the buffers. *)
EXTENDS FrameQueue, TLC

CONSTANTS p1, p2, f1, f2, f3, f4, f5

MCProducers == {p1, p2}
MCFrames == {f1, f2, f3, f4, f5}
MCSizes == {1, 2}

\* Buffers and threads are only compared for equality.
MCSymmetry == Permutations(MCFrames) \cup Permutations(MCProducers)
=============================================================================
