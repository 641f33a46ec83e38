---------------------------- MODULE MCEventWatcher ----------------------------
(* Events for the TLC runs of EventWatcher. *)
EXTENDS EventWatcher

Event(reason, kind, name) == [reason |-> reason, object |-> [kind |-> kind, name |-> name]]

\* One service with two reasons, one of them from a pod and from the
\* deployment; a reason nobody watches, an object of no service, and an event
\* without an object.
MCEvents ==
  {Event("OOMKilled", "Pod", <<"room", "web", "6c5685cc89", "n6clv">>),
   Event("OOMKilled", "Deployment", <<"room", "web">>),
   Event("BackOff", "ReplicaSet", <<"room", "web", "6c5685cc89">>),
   Event("Pulled", "Pod", <<"room", "web", "6c5685cc89", "n6clv">>),
   Event("NodeNotReady", "Node", <<"node", "1">>),
   Event("Evicted", "", <<>>)}
MCCritical == {"OOMKilled", "NodeNotReady", "Evicted"}
MCWarning == {"BackOff"}
=============================================================================
