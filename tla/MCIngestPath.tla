---------------------------- MODULE MCIngestPath ----------------------------
(* IngestPath for TLC: the requests are interchangeable, and the run that   *)
(* checks invariants alone may treat them so.                               *)
EXTENDS IngestPath, TLC

AnyOrder == Permutations(Requests)
=============================================================================
