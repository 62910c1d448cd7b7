------------------------------ MODULE Delivery ------------------------------
(***************************************************************************)
(* What the action outbox promises of the side effects a Root Function     *)
(* declares: an action is delivered or given up once, what is delivered    *)
(* was acknowledged, and a compensation exists only for an action that was *)
(* given up.  How often an action is tried, and by whom, is not said.      *)
(***************************************************************************)
CONSTANTS Actions, Runs, Declared, Compensation

VARIABLES state,  \* action -> "absent" | "open" | "delivered" | "given_up"
          acked   \* actions the webhook answered with success

AbstractInit == state = [a \in Actions |-> "absent"] /\ acked = {}

(* A run that finished declares its actions; those it declared before stay. *)
Declare(r) ==
  /\ state' = [a \in Actions |-> IF a \in Declared[r] /\ state[a] = "absent"
                                   THEN "open" ELSE state[a]]
  /\ UNCHANGED acked

Acknowledge(a) == state[a] = "open" /\ acked' = acked \cup {a} /\ UNCHANGED state

Deliver(a) == /\ state[a] = "open" /\ a \in acked
              /\ state' = [state EXCEPT ![a] = "delivered"]
              /\ UNCHANGED acked

GiveUp(a) == /\ state[a] = "open"
             /\ state' = [state EXCEPT ![a] = "given_up"]
             /\ UNCHANGED acked

Undo(a) == /\ state[a] = "given_up"
           /\ Compensation[a] \in Actions /\ state[Compensation[a]] = "absent"
           /\ state' = [state EXCEPT ![Compensation[a]] = "open"]
           /\ UNCHANGED acked

AbstractNext == \/ \E r \in Runs : Declare(r)
                \/ \E a \in Actions : Acknowledge(a) \/ Deliver(a) \/ GiveUp(a) \/ Undo(a)

AbstractSpec == AbstractInit /\ [][AbstractNext]_<<state, acked>>
=============================================================================
