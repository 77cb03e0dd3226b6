--------------------------- MODULE MCInstanceStatus ---------------------------
(* A cluster with query nodes that roll blue/green, and a bundled etcd.        *)
EXTENDS InstanceStatus

CONSTANTS blue, green, etcd

WorkloadOf == [d \in Deployments |-> IF d = etcd THEN "etcd" ELSE "queryNode"]
PodsOf == [d \in Deployments |-> IF d = etcd THEN 1 ELSE 2]
=============================================================================
