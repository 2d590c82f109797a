------------------------------- MODULE MCWorker -------------------------------
(* Small instances of Worker: every kind of worker, two rows to analyse. *)
EXTENDS Worker
=============================================================================
