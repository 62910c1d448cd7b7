---------------------------- MODULE MCCompileJobs ----------------------------
(* Instances of CompileJobs for TLC. *)
EXTENDS CompileJobs
=============================================================================
