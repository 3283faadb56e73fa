------------------------------- MODULE MCJobs -------------------------------
(* Instances of JobControl for TLC.                                        *)
EXTENDS JobControl
=============================================================================
