--------------------------- MODULE MCTimeoutGuard ---------------------------
(***************************************************************************)
(* Small instances of TimeoutGuard: guards tighter and looser than the one *)
(* around them, and a disabled one.                                        *)
(***************************************************************************)
EXTENDS TimeoutGuard

LooseInside == <<2, 3>>
MixedDepths == <<3, 2, 0>>
=============================================================================
