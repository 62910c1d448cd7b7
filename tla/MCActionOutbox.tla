--------------------------- MODULE MCActionOutbox ---------------------------
(* Instances of ActionOutbox for TLC: a run with two actions, one of which has
   a compensation, and a run with one action. *)
EXTENDS ActionOutbox, TLC

MCDeclared == ("r1" :> {"mail", "book"}) @@ ("r2" :> {"note"})
MCCompensation == [a \in Actions |-> IF a = "book" THEN "unbook" ELSE None]
=============================================================================
