--------------------------- MODULE MCBranchMerge ---------------------------
(* Instances of BranchMerge for TLC: every branch holds the claim of main, one
   of its own and "x2", which they share; "ann" opens every proposal; "y" stands for
   a branch called "x-y", so that a search for the snapshots of "x" finds those of "y". *)
EXTENDS BranchMerge, TLC

Symmetry == Permutations(Mergers)

MCContent  == [b \in Branches |-> IF b = "x" THEN {"base", "x1", "x2"} ELSE {"base", b, "x2"}]
MCPolicy   == [b \in Branches |-> CASE b = "x" -> "requires_proposal"
                                    [] b = "y" -> "manual"
                                    [] b = "z" -> "ephemeral"]
MCSourceOf == [p \in Proposals |-> "x"]
MCLookalikes == [b \in Branches |-> IF b = "x" THEN {"x", "y"} ELSE {b}]
MCFromLast == [b \in Branches |-> IF b = "x" THEN 1 ELSE 0]
MCAuthor   == [p \in Proposals |-> "ann"]
=============================================================================
