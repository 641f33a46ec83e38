---------------------------- MODULE SecondOpinion ----------------------------
(***************************************************************************)
(* What llm/client.py promises of the action an analysis proposes, without  *)
(* keys, retries or the shape of answers: one model proposes; a destructive *)
(* proposal for a severe incident is put to a second model, if there is     *)
(* one, and becomes a notification when that one proposes something else.   *)
(* A second model that cannot be heard blocks nothing. If no model can be   *)
(* heard the proposal is a notification.                                    *)
(***************************************************************************)
CONSTANTS Models, Actions, Destructive

VARIABLES panel,    \* the models that are configured
          severe,   \* severity high or critical
          stage,    \* open, contested or settled
          action,   \* the action proposed so far
          backing,  \* the models that proposed it
          verdict   \* of the second model: none, agreed, disagreed, unheard

Init == /\ panel \in (SUBSET Models) \ {{}}
        /\ severe \in BOOLEAN
        /\ stage = "open"
        /\ action = "none"
        /\ backing = {}
        /\ verdict = "none"

Propose(m, a) ==
  /\ stage = "open"
  /\ action' = a
  /\ backing' = {m}
  /\ stage' = IF severe /\ a \in Destructive /\ panel # {m}
              THEN "contested" ELSE "settled"
  /\ UNCHANGED verdict

Concur(m) ==
  /\ stage = "contested"
  /\ m \notin backing
  /\ backing' = backing \cup {m}
  /\ verdict' = "agreed"
  /\ stage' = "settled"
  /\ UNCHANGED action

Dissent ==
  /\ stage = "contested"
  /\ action' = "notify"
  /\ verdict' = "disagreed"
  /\ stage' = "settled"
  /\ UNCHANGED backing

Unheard ==
  /\ stage = "contested"
  /\ verdict' = "unheard"
  /\ stage' = "settled"
  /\ UNCHANGED <<action, backing>>

GiveUp ==
  /\ stage = "open"
  /\ action' = "notify"
  /\ stage' = "settled"
  /\ UNCHANGED <<backing, verdict>>

Next == /\ \/ \E m \in panel : \/ \E a \in Actions : Propose(m, a)
                               \/ Concur(m)
           \/ Dissent \/ Unheard \/ GiveUp
        /\ UNCHANGED <<panel, severe>>

Spec == Init /\ [][Next]_<<panel, severe, stage, action, backing, verdict>>
=============================================================================
