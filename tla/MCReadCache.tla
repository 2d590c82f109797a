----------------------------- MODULE MCReadCache -----------------------------
(* Small instance of ReadCache. *)
EXTENDS ReadCache
=============================================================================
