---------------------------- MODULE HumanDecision ----------------------------
(***************************************************************************)
(* What the approval workflow promises of each request it makes: at most    *)
(* one answer, by a human who had the token while the request was alive,    *)
(* and nothing after that. A request becomes void when its time is up or    *)
(* the process that holds it ends.                                          *)
(***************************************************************************)
CONSTANT Requests

VARIABLE state

Init == state = [r \in Requests |-> "none"]

Move(r, from, to) == state[r] = from /\ state' = [state EXCEPT ![r] = to]

Ask(r) == Move(r, "none", "awaiting")
Approve(r) == Move(r, "awaiting", "approved")
Reject(r) == Move(r, "awaiting", "rejected")

\* Several requests become void at once.
Void == \E gone \in SUBSET Requests :
          /\ \A r \in gone : state[r] = "awaiting"
          /\ state' = [r \in Requests |-> IF r \in gone THEN "void" ELSE state[r]]

Next == Void \/ \E r \in Requests : Ask(r) \/ Approve(r) \/ Reject(r)

Spec == Init /\ [][Next]_state
=============================================================================
