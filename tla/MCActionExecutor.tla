--------------------------- MODULE MCActionExecutor ---------------------------
(* Deployments and ids for the TLC runs of ActionExecutor. *)
EXTENDS ActionExecutor, TLC

CONSTANTS x1, i1

MCIncidentOf == [x \in Actions |-> i1]

\* Scaled to nothing, below and beyond the replicas that scale_up asks for.
EverySize == [image : {"v2"}, older : {"v1"}, replicas : 0..MaxReplicas]
OneReplica == [image : {"v2"}, older : {"v1"}, replicas : {1}]
=============================================================================
