----------------------------- MODULE MCKnowledge -----------------------------
(* A small instance of Retrieval and Deployment for TLC: an image and one that *)
(* adds a section, deployed to two containers, one of the new image at least.  *)
EXTENDS Retrieval, TLC

CONSTANTS c1, c2, old, new

MCCorpus == old :> {1} @@ new :> {1, 2}
MCParentOf == <<1, 2>>

Symmetry == Permutations({c1, c2})

MCInit == KnowledgeInit /\ \E c \in Containers : job[c].image = new

MCSpec == MCInit /\ [][KnowledgeNext]_knowledgeVars
=============================================================================
