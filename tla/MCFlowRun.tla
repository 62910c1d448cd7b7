----------------------------- MODULE MCFlowRun -----------------------------
(* Instances of FlowRun for TLC.  "join" is a flow whose order is not that of
   its names, "grown" an edit of it, "cycle" one that flow_define accepts
   although topological_sort rejects it, and "odd" one with a node that has no
   executor (5) and an edge to an id that is no node (6). *)
EXTENDS FlowRun, TLC

MCNodesOf == ("join" :> 1 .. 3) @@ ("grown" :> {1, 3, 4})
          @@ ("cycle" :> 1 .. 2) @@ ("odd" :> {1, 5})
MCEdgesOf == ("join" :> {<<1, 2>>, <<1, 3>>, <<3, 2>>})
          @@ ("grown" :> {<<1, 3>>, <<3, 4>>})
          @@ ("cycle" :> {<<1, 2>>, <<2, 2>>})
          @@ ("odd" :> {<<1, 5>>, <<1, 6>>})
=============================================================================
