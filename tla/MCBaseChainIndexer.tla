------------------------ MODULE MCBaseChainIndexer ------------------------
(* Instances of BaseChainIndexer: a deployment block g and three branches. *)
EXTENDS BaseChainIndexer, TLC

CONSTANTS g, a1, a2, b1, b2, c2, s1, s2

MCParents == (a1 :> g) @@ (a2 :> a1) @@ (c2 :> a1) @@ (b1 :> g) @@ (b2 :> b1)
MCHeights == (g :> 0) @@ (a1 :> 1) @@ (b1 :> 1) @@ (a2 :> 2) @@ (b2 :> 2) @@ (c2 :> 2)
MCLineages == (g :> {g}) @@ (a1 :> {g, a1}) @@ (b1 :> {g, b1}) @@ (a2 :> {g, a1, a2})
              @@ (b2 :> {g, b1, b2}) @@ (c2 :> {g, a1, c2})

Symmetry == Permutations(Syncs)

MCParent == [b \in Blocks \ {Root} |-> MCParents[b]]
MCHeight == [b \in Blocks |-> MCHeights[b]]
MCLineage == [b \in Blocks |-> MCLineages[b]]
============================================================================
