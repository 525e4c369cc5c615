-------------------------- MODULE MCRequestManager --------------------------
(* Instances of RequestManager for TLC.                                    *)
EXTENDS RequestManager, TLC

(* The requests differ only by the order in which they were queued.        *)
Interchangeable == Permutations(Requests)
=============================================================================
