--------------------------- MODULE MCDriverLease ---------------------------
(* Small instances of DriverLease: two processes, each started twice. *)
EXTENDS DriverLease
=============================================================================
