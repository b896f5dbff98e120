-------------------------- MODULE MCBackgroundJobs --------------------------
(* BackgroundJobs on small instances. *)
EXTENDS BackgroundJobs

CONSTANTS j1, j2

OneJob == {j1}
TwoJobs == {j1, j2}
=============================================================================
