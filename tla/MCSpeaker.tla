----------------------------- MODULE MCSpeaker -----------------------------
(* Speaker for TLC: callers are interchangeable. *)
EXTENDS Speaker, TLC

Interchangeable == Permutations(Caller)
=============================================================================
