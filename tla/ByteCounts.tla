----------------------------- MODULE ByteCounts -----------------------------
(***************************************************************************)
(* Sums of sizes, as the number of elements of a set: one element for each *)
(* byte.  CFrameQueue keeps such a sum in m_ncur_frame_size.               *)
(***************************************************************************)
EXTENDS Naturals, Sequences, FiniteSets

\* The bytes of the things in S, thing x having size[x] of them.
BytesOf(S, size) == UNION {{x} \X (1 .. size[x]) : x \in S}

\* How many bytes things of these sizes have together.
Load(sizes) == Cardinality(BytesOf(DOMAIN sizes, sizes))
=============================================================================
