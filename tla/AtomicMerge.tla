----------------------------- MODULE AtomicMerge -----------------------------
(***************************************************************************)
(* What merging into main promises a reader of main: a merge is one step.  *)
(* It saves main when it begins and adds the whole branch when it commits, *)
(* and until then nothing of it shows. Main goes back only to what it was  *)
(* when some merge began.                                                  *)
(***************************************************************************)
CONSTANTS
  Branches,  \* branches that may be merged
  Base,      \* the claims of main when the model begins
  Content    \* branch -> the claims in its graph

VARIABLES
  main,  \* the claims of main
  saved  \* branch -> {what main was when its newest merge began}, or {}

Init == main = Base /\ saved = [b \in Branches |-> {}]

Begin(b) ==
  /\ saved' = [saved EXCEPT ![b] = {main}]
  /\ UNCHANGED main

(* Nothing came between: main is what this merge saved. *)
Commit(b) ==
  /\ main \in saved[b]
  /\ main' = main \cup Content[b]
  /\ UNCHANGED saved

(* A merge that is undone, by hand or because the process died in it. *)
Restore(b) ==
  /\ main' \in saved[b]
  /\ UNCHANGED saved

Next == \E b \in Branches : Begin(b) \/ Commit(b) \/ Restore(b)
Spec == Init /\ [][Next]_<<main, saved>>

(* What follows for the reader: main, and whatever it may go back to, is its base and whole
   branches. *)
Whole(g) == \E S \in SUBSET Branches : g = Base \cup UNION {Content[b] : b \in S}
WholeBranches == Whole(main) /\ \A b \in Branches : \A g \in saved[b] : Whole(g)
=============================================================================
