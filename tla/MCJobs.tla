-------------------------------- MODULE MCJobs --------------------------------
(* Two jobs and two streams.  No symmetry: the run checks liveness.         *)
EXTENDS Jobs
===============================================================================
