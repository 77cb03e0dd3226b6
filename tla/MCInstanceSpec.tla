--------------------------- MODULE MCInstanceSpec ---------------------------
(* Small instances of InstanceSpec: a standalone instance with everything    *)
(* bundled, a cluster that names its stream, and a cluster in a location.    *)
EXTENDS InstanceSpec

CONSTANTS l1

Standalone == [topology |-> "standalone", stream |-> "", etcd |-> "bundled",
               store |-> "bundled", root |-> "", conf |-> "", class |-> "",
               size |-> Unset, version |-> 1]
Cluster == [Standalone EXCEPT !.topology = "cluster", !.stream = "pulsar", !.size = 3]
Located == [Cluster EXCEPT !.store = l1, !.class = "fast"]

AllStarts == {Standalone, Cluster, Located}
=============================================================================
