------------------------------- MODULE MCRaw -------------------------------
(* One CR that moves between raw outputs of both scopes and a ConfigMap.     *)
EXTENDS OutputController

CONSTANTS c1, cm, ns, cluster, mNs, mCluster, s1, d1, d2, d3

(* Each manifest renders to one object, with all data but d2.                 *)
MCRender == [m \in Manifests |->
  [d \in Data |-> CASE d = d2 -> "UnknownKind"
                    [] d # d2 -> IF m = mNs THEN ns ELSE cluster]]

(* Moving between the kinds of output.                                       *)
MoveSpecs == {[out |-> mCluster, own |-> TRUE, sa |-> s1],
              [out |-> mNs, own |-> TRUE, sa |-> s1],
              [out |-> cm, own |-> TRUE, sa |-> None]}

(* One raw output that needs the finalizer, an output that does not, and none. *)
LiveSpecs == {[out |-> mCluster, own |-> TRUE, sa |-> s1],
              [out |-> cm, own |-> TRUE, sa |-> None],
              [out |-> "InvalidSpec", own |-> TRUE, sa |-> None]}

(* The data decide whether the manifest is usable.                            *)
FailingRender == [m \in Manifests |->
  [d \in Data |-> CASE d = d1 -> cluster
                    [] d = d2 -> "Unparsable"
                    [] OTHER  -> "BadNamespace"]]

(* One cluster-scoped output for good.                                       *)
ClusterSpecs == {[out |-> mCluster, own |-> TRUE, sa |-> s1]}

(* A template whose kind comes from the data (README.md, section 3).          *)
KindFromData == [m \in Manifests |-> [d \in Data |-> IF d = d1 THEN ns ELSE cluster]]

=============================================================================
