-------------------------- MODULE BackgroundJobsMC --------------------------
(* One client of the stream, and a queue of one message instead of a hundred *)
EXTENDS BackgroundJobs

CONSTANTS c1

=============================================================================
