-------------------------- MODULE MCCompilePipeline --------------------------
(* Instances of CompilePipeline for TLC: each file has versions of its own, "a"
   and "b" without claims, "c" with claims. *)
EXTENDS CompilePipeline, TLC

MCOwn == [f \in Files |-> IF f = 1 THEN {"a1", "b1", "c1"} ELSE {"a2", "c2"}]
=============================================================================
