----------------------------- MODULE MCRootRun -----------------------------
(* Instances of RootRun for TLC.  A function is redeployed with a body whose
   steps differ in number, kind and order, so that a replay against the wrong
   version diverges. *)
EXTENDS RootRun, TLC

Kind == ("op1" :> "op") @@ ("op2" :> "op") @@ ("nap" :> "sleep") @@ ("nap2" :> "sleep")
        @@ ("hear" :> "wait") @@ ("ask" :> "ask")
MCKindOf == [k \in Keys |-> Kind[k]]

(* root_durable: work, a sleep, a question; then a version that waits first. *)
DurableScript == ("v1" :> <<"op1", "nap", "op2", "ask">>) @@ ("v2" :> <<"hear", "ask", "op1">>)
(* root_once: every kind of suspension between two ops. *)
OnceScript == ("v1" :> <<"op1", "nap", "ask", "op2">>) @@ ("v2" :> <<"op2", "hear">>)
(* root_cancel: something to purge of every kind. *)
CancelScript == ("v1" :> <<"op1", "nap", "ask">>) @@ ("v2" :> <<"hear", "op2">>)
LiveScript == ("v1" :> <<"op1", "nap", "op2">>) @@ ("v2" :> <<"hear", "op1">>)
NapScript == ("v1" :> <<"op1", "nap">>) @@ ("v2" :> <<"nap", "op1">>)

Symmetry == Permutations(RowIds) \cup Permutations(Runs) \cup Permutations(Workers)
            \cup Permutations(Events)
=============================================================================
