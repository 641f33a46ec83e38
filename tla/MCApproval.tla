----------------------------- MODULE MCApproval -----------------------------
(* Four services: nobody depends on the database, or the other three do. *)
EXTENDS Approval, TLC

FourServices == {"db", "auth", "rooms", "web"}
Lonely == [s \in FourServices |-> {}]
Hub == [s \in FourServices |-> IF s = "web" THEN {"auth", "rooms"}
                               ELSE IF s = "db" THEN {} ELSE {"db"}]
TwoMaps == {Lonely, Hub}
TwoRequests ==
  {[service |-> s, action |-> "restart_pod", confidence |-> "high"] : s \in {"db", "web"}}
Perms == Permutations(Replicas) \cup Permutations(Analyses)
=============================================================================
