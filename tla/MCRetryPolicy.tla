---------------------------- MODULE MCRetryPolicy ----------------------------
(* Model values of RetryPolicy: intervals below, at and above the two second  *)
(* floor, a client timeout shorter and one longer than all of them, and every *)
(* retry count from off to past the clamp.                                    *)
EXTENDS RetryPolicy

MCIntervals    == {0, 1, 2, 5}
MCHttpTimeouts == {0, 3, 60}
MCRetryCounts  == 0..6
=============================================================================
