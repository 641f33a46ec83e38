--------------------------- MODULE DecisionPolicy ---------------------------
(***************************************************************************)
(* The policy as data: the decision table of agent-backend/policy.yaml (the *)
(* built-in defaults of core/policy.py are the same) and how it is read.    *)
(***************************************************************************)
EXTENDS Integers, Sequences

Safe == {"notify", "no_action"}
Destructive == {"restart_pod", "rollback", "scale_up"}
Actions == Safe \cup Destructive \cup {"trigger_retry"}
Errors == {"runtime_crash", "build_failure", "dependency_error", "test_failure", "unknown"}
Severities == {"low", "medium", "high", "critical"}
Confidences == {"low", "medium", "high"}

Signatures == Errors \X Severities \X Confidences

Row(error, severity, confidence, allowed) ==
  [match |-> <<error, severity, confidence>>, allowed |-> allowed]

DecisionTable == <<
  Row("runtime_crash",    "critical", "high",   <<"restart_pod", "rollback">>),
  Row("runtime_crash",    "high",     "high",   <<"restart_pod">>),
  Row("runtime_crash",    "high",     "medium", <<"notify">>),
  Row("runtime_crash",    "medium",   "*",      <<"notify", "no_action">>),
  Row("build_failure",    "high",     "high",   <<"trigger_retry">>),
  Row("build_failure",    "*",        "*",      <<"notify", "no_action">>),
  Row("dependency_error", "*",        "*",      <<"notify", "no_action">>),
  Row("test_failure",     "*",        "*",      <<"notify", "no_action">>),
  Row("unknown",          "*",        "*",      <<"no_action">>),
  Row("*",                "*",        "*",      <<"notify", "no_action">>) >>

Matches(row, sig) == \A i \in 1..3 : row.match[i] \in {"*", sig[i]}

\* lookup_decision: the allowed actions of the first row that matches.
LookupDecision(table, sig) ==
  LET hits == {i \in DOMAIN table : Matches(table[i], sig)}
  IN IF hits = {} THEN <<>> ELSE table[CHOOSE i \in hits : \A j \in hits : i <= j].allowed

\* A policy, with the decisions looked up: the allowed actions of a signature as
\* a set, and the first of them.
PolicyOf(table, limits, budget, protected) ==
  LET row == [sig \in Signatures |-> LookupDecision(table, sig)]
  IN [allowed |-> [sig \in Signatures |-> {row[sig][i] : i \in DOMAIN row[sig]}],
      first |-> [sig \in Signatures |-> IF row[sig] = <<>> THEN "no_action" ELSE row[sig][1]],
      limit |-> limits, budget |-> budget, protected |-> protected]

\* max_per_service_per_10min of each action.
RateLimits == [restart_pod |-> 3, rollback |-> 1, scale_up |-> 5,
               trigger_retry |-> 5, notify |-> 0, no_action |-> 0]

DefaultPolicy == PolicyOf(DecisionTable, RateLimits, 5,
                          {"kube-system", "monitoring", "kube-public"})
=============================================================================
