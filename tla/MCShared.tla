----------------------------- MODULE MCShared ------------------------------
(* Two CRs that name the same outputs: a ConfigMap, and a cluster-scoped      *)
(* object with and without owner semantics.                                  *)
EXTENDS OutputController, TLC

CONSTANTS c1, c2, cm, cluster, mCluster, s1, d1, d2

(* The manifest renders to one object, whatever the data are.                *)
MCRender == [m \in Manifests |-> [d \in Data |-> cluster]]

Symmetry == Permutations(CRs) \cup Permutations(Data)

SharedSpecs == {[out |-> cm, own |-> TRUE, sa |-> None]}
               \cup {[out |-> mCluster, own |-> own, sa |-> s1] : own \in BOOLEAN}

=============================================================================
