-------------------------- MODULE MCBackgroundJobs --------------------------
(* Small instances of BackgroundJobs: one job, of each kind in turn. *)
EXTENDS BackgroundJobs

CONSTANT a

=============================================================================
