---------------------------- MODULE MCSafetyChain ----------------------------
(* Policies and requests for the TLC runs of SafetyChain. *)
EXTENDS SafetyChain, TLC

CONSTANTS web, db   \* two services

\* Small limits, so that a handful of analyses reaches them.
TightPolicy == PolicyOf(DecisionTable, [RateLimits EXCEPT !["restart_pod"] = 1], 1, {"kube-system"})

\* Two policies, neither of which permits a restart in namespace "payments":
\* one protects the namespace, the other never restarts.
GuardedPolicy == [DefaultPolicy EXCEPT !.protected = @ \cup {"payments"}]
PassivePolicy == PolicyOf(<<Row("*", "*", "*", <<"notify", "no_action">>)>>,
                          RateLimits, 5, {"kube-system"})

DefaultOnly == {DefaultPolicy}
TightOnly == {TightPolicy}
GuardedOrPassive == {GuardedPolicy, PassivePolicy}

Crash(service) ==
  [service |-> service, error |-> "runtime_crash",
   severity |-> "high", confidence |-> "high", proposed |-> "restart_pod",
   verified |-> TRUE, score |-> 2, blast |-> "low", namespace |-> "default"]

\* For one service, every severity, confidence and proposal of two errors the
\* table acts on; for one of them scores below, in and beyond the gated range;
\* blast radii that no gate, one gate and both rules look at.
RequestsOf(error, scores) ==
  [service : {web}, error : {error}, severity : Severities, confidence : Confidences,
   proposed : Actions, verified : BOOLEAN, score : scores,
   blast : {"low", "high", "critical"}, namespace : {"default", "kube-system"}]
EveryRequest == RequestsOf("runtime_crash", {-1, 0, 2}) \cup RequestsOf("build_failure", {2})

\* A policy.yaml whose table permits everything leaves it to the gates, and protects
\* the one of the two namespaces that the default policy does not.
LaxPolicy == PolicyOf(<<Row("*", "*", "*", <<"restart_pod", "rollback", "notify">>)>>,
                      RateLimits, 5, {"default"})

DefaultOrLax == {DefaultPolicy, LaxPolicy}
WebCrashes == {Crash(web)}
WebOrDb == {Crash(web), Crash(db)}
Unverified == {[Crash(web) EXCEPT !.proposed = "notify", !.verified = FALSE]}
InPayments == {[Crash(web) EXCEPT !.namespace = "payments"]}

MCServices == {web, db}
MCNamespaces == DefaultPolicy.protected \cup {"default", "payments"}
WebNeedsDb == [s \in MCServices |-> IF s = web THEN {db} ELSE {}]
Interchangeable == Permutations(Analyses \ Past)
=============================================================================
