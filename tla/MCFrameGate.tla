----------------------------- MODULE MCFrameGate -----------------------------
(* FrameGate with every short start of a packet before one unit header. *)
EXTENDS FrameGate

\* 65 101 103 104: H264 slice, IDR, SPS, PPS.  2 32 38 64 66 68: HEVC trailing
\* picture, BLA, IDR, VPS, SPS, PPS.  96: an unspecified HEVC unit that the code
\* takes for a VPS.  255: ADTS.
MCBytes == {2, 32, 38, 64, 65, 66, 68, 96, 101, 103, 104, 255}

ZeroOne == UNION {[1 .. n -> {0, 1}] : n \in 0 .. 4}
MCPackets == {s \o h : s \in ZeroOne, h \in {<<>>} \cup {<<b>> : b \in MCBytes}}
=============================================================================
