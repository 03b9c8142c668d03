----------------------------- MODULE MCBasePush -----------------------------
(* BasePush with small and large media frames. *)
EXTENDS BasePush

MCSizes == {1, 3}
=============================================================================
