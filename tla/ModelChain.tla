----------------------------- MODULE ModelChain -----------------------------
(***************************************************************************)
(* How one analysis gets its proposal from the language models              *)
(* (llm/client.py, core/evaluator.py and the fallback of core/agent.py):    *)
(* the models of the chain are asked in order and each with its API keys in *)
(* order; a call is a dialogue in which the model may use tools; a call     *)
(* that fails is repeated with the same key while its error is transient;   *)
(* an answer the validator rejects is asked for once more. A destructive    *)
(* action for a severe incident is put to a second model. When analyze      *)
(* raises, run_analysis proposes to notify.                                 *)
(*                                                                          *)
(* A prompt, an answer and an error are reduced to what the code branches   *)
(* on. The retry budget of a call may be spent at any failure.              *)
(***************************************************************************)
EXTENDS Lexicographic, Sequences

CONSTANTS
  Models,       \* names of models
  Chains,       \* the chains a deployment may be configured with
  Provider,     \* the provider of each model
  Keys,         \* how many API keys each model has
  MaxAttempts,  \* _RETRY_MAX_ATTEMPTS
  MaxRounds     \* _MAX_TOOL_ROUNDS

Providers == {"google", "openai", "anthropic"}

ASSUME ChainAssumption ==
  /\ Chains \subseteq Seq(Models) \ {<<>>}
  /\ Provider \in [Models -> Providers]
  /\ Keys \in [Models -> Nat \ {0}]
  /\ MaxAttempts \in Nat \ {0}
  /\ MaxRounds \in Nat \ {0}

\* What becomes of an exception. "quota": rate limits; "server": 5xx;
\* "connection": the request or its connection timed out or broke; "stall":
\* asyncio.wait_for gave up; "refused": bad key, unknown model; "garbled": an
\* answer or tool arguments that are no JSON.
Errors == {"quota", "server", "connection", "stall", "refused", "garbled"}
RateLimited(e) == e = "quota"
Transient(e) == e \in {"server", "connection"}
Retriable(m, e) == e = "quota" \/ (e = "server" /\ Provider[m] = "google")

\* Only the calls of two providers run under a timeout.
ErrorsOf(m) == IF Provider[m] = "google" THEN Errors \ {"stall"} ELSE Errors

\* Actions of an answer: unknown names are rejected like any other defect.
Destructive == {"restart_pod", "rollback", "scale_up"}
Actions == Destructive \cup {"trigger_retry", "notify", "no_action"}
Answers == [action : Actions, valid : BOOLEAN]
NoAnswer == [action |-> "none", valid |-> FALSE]
Rejected == [action |-> "no_action", valid |-> FALSE]
Heuristic == [action |-> "notify", valid |-> TRUE]

VARIABLES
  chain,     \* _model_chain() of this deployment
  severe,    \* severity is high or critical
  pc,        \* asking, waiting (between two attempts), returned or heuristic
  role,      \* whose answer is asked for, primary or second
  at,        \* position in the chain of the primary model
  key,       \* the key in use
  prompt,    \* which of the two prompts, the second being strict
  attempt,   \* attempts of _call_with_retry with this prompt
  round,     \* rounds of tool calls in this attempt
  answer,    \* the result analyze works on
  vote,      \* _cross_validation
  second,    \* what the second model answered (history)
  ended      \* the error each position and key of the chain ended with (history)

call == <<key, prompt, attempt, round>>
vars == <<chain, severe, pc, role, at, call, answer, vote, second, ended>>

Init ==
  /\ chain \in Chains
  /\ severe \in BOOLEAN
  /\ pc = "asking" /\ role = "primary"
  /\ at = 1 /\ key = 1
  /\ prompt = 1 /\ attempt = 1 /\ round = 0
  /\ answer = NoAnswer /\ vote = "none" /\ second = NoAnswer
  /\ ended = {}

-----------------------------------------------------------------------------
(* Who is asked *)

\* Mutant of SecondModel: the first model of the chain, even the primary one.
SecondModelFirst(m) == chain[1]

\* The first model of the chain that is another than the primary one.
Others(m) == {i \in DOMAIN chain : chain[i] # m}
SecondModel(m) == chain[CHOOSE i \in Others(m) : \A j \in Others(m) : i <= j]
Asked == IF role = "primary" THEN chain[at] ELSE SecondModel(chain[at])

\* A fresh call of _analyze_with_model with some key.
Ask(k) == key' = k /\ prompt' = 1 /\ attempt' = 1 /\ round' = 0

-----------------------------------------------------------------------------
(* The dialogue with a model *)

\* The model uses tools; execute_tool answers even its own failures with text.
UseTools(p, limit) ==
  /\ pc = "asking" /\ Provider[Asked] = p
  /\ round < limit
  /\ round' = round + 1
  /\ UNCHANGED <<chain, severe, pc, role, at, key, prompt, attempt,
                 answer, vote, second, ended>>

\* The first message is sent before the loop of _call_gemini, so that it has a
\* round more than the others, whose last response is final in any case.
GeminiTools == UseTools("google", MaxRounds)
AnthropicTools == UseTools("anthropic", MaxRounds - 1)
OpenAITools == UseTools("openai", MaxRounds - 1)

\* The validator has the strict prompt asked once after it rejects an answer.
AskStrictly(a) ==
  /\ pc = "asking" /\ ~a.valid /\ prompt = 1
  /\ prompt' = 2 /\ attempt' = 1 /\ round' = 0
  /\ UNCHANGED <<chain, severe, pc, role, at, key, answer, vote, second, ended>>

\* What _analyze_with_model returns.
Result(a) == IF a.valid THEN a ELSE Rejected
Final(a) == pc = "asking" /\ (a.valid \/ prompt = 2)

\* The cross-check analyze asks for.
Contested(a) == severe /\ a.action \in Destructive

Answer(a) ==
  /\ Final(a) /\ role = "primary"
  /\ answer' = Result(a)
  /\ \/ /\ ~Contested(Result(a))
        /\ pc' = "returned"
        /\ UNCHANGED <<role, call, vote>>
     \/ /\ Contested(Result(a)) /\ Others(chain[at]) = {}
        /\ vote' = "only_model" /\ pc' = "returned"
        /\ UNCHANGED <<role, call>>
     \/ /\ Contested(Result(a)) /\ Others(chain[at]) # {}
        /\ role' = "second" /\ Ask(1)
        /\ UNCHANGED <<pc, vote>>
  /\ UNCHANGED <<chain, severe, at, second, ended>>

\* Mutant of CrossCheck: a disagreement is recorded without a downgrade.
CrossCheckRecords(a) ==
  /\ Final(a) /\ role = "second"
  /\ second' = Result(a)
  /\ pc' = "returned"
  /\ vote' = IF Result(a).action = answer.action THEN "agreed" ELSE "disagreed"
  /\ UNCHANGED <<chain, severe, role, at, call, answer, ended>>

\* The second model's answer, whatever its validator said, is compared.
CrossCheck(a) ==
  /\ Final(a) /\ role = "second"
  /\ second' = Result(a)
  /\ pc' = "returned"
  /\ \/ /\ Result(a).action = answer.action
        /\ vote' = "agreed"
        /\ UNCHANGED answer
     \/ /\ Result(a).action # answer.action
        /\ vote' = "disagreed"
        /\ answer' = [answer EXCEPT !.action = "notify"]
  /\ UNCHANGED <<chain, severe, role, at, call, ended>>

-----------------------------------------------------------------------------
(* Errors *)

Fails(e) == pc = "asking" /\ e \in ErrorsOf(Asked)

\* Transient errors and rate limits are retried with the same key.
Retry(e) ==
  /\ Fails(e) /\ (Transient(e) \/ RateLimited(e))
  /\ attempt < MaxAttempts
  /\ pc' = "waiting"
  /\ UNCHANGED <<chain, severe, role, at, call, answer, vote, second, ended>>

\* Mutant of Resume: the attempt is not counted.
ResumeUncounted ==
  /\ pc = "waiting"
  /\ pc' = "asking" /\ round' = 0
  /\ UNCHANGED <<chain, severe, role, at, key, prompt, attempt, answer, vote, second, ended>>

\* The back-off is over.
Resume ==
  /\ pc = "waiting"
  /\ pc' = "asking" /\ attempt' = attempt + 1 /\ round' = 0
  /\ UNCHANGED <<chain, severe, role, at, key, prompt, answer, vote, second, ended>>

\* The exception leaves _call_with_retry: it is neither, it was the last
\* attempt, or so much time has passed that it is. For the primary it reaches
\* the loop of analyze.
PrimaryRaises(e) ==
  /\ Fails(e) /\ role = "primary"
  /\ ended' = ended \cup {[at |-> at, key |-> key, error |-> e]}
  /\ UNCHANGED <<chain, severe, role, vote, second>>

\* Mutant of RotateKey: the bound is off by one.
RotateKeyPast(e) ==
  /\ PrimaryRaises(e) /\ Retriable(Asked, e)
  /\ key <= Keys[Asked]
  /\ Ask(key + 1)
  /\ UNCHANGED <<pc, at, answer>>

RotateKey(e) ==
  /\ PrimaryRaises(e) /\ Retriable(Asked, e)
  /\ key < Keys[Asked]
  /\ Ask(key + 1)
  /\ UNCHANGED <<pc, at, answer>>

\* Mutant of FallBack: the first key of a model decides for all of them.
FallBackEarly(e) ==
  /\ PrimaryRaises(e) /\ Retriable(Asked, e)
  /\ at < Len(chain)
  /\ at' = at + 1 /\ Ask(1)
  /\ UNCHANGED <<pc, answer>>

FallBack(e) ==
  /\ PrimaryRaises(e) /\ Retriable(Asked, e)
  /\ key = Keys[Asked] /\ at < Len(chain)
  /\ at' = at + 1 /\ Ask(1)
  /\ UNCHANGED <<pc, answer>>

\* Mutant of GiveUp: the last key of any model ends the analysis.
GiveUpEarly(e) ==
  /\ PrimaryRaises(e)
  /\ Retriable(Asked, e) => key = Keys[Asked]
  /\ answer' = Heuristic /\ pc' = "heuristic"
  /\ UNCHANGED <<at, call>>

\* analyze raises: run_analysis goes on with the heuristic result.
GiveUp(e) ==
  /\ PrimaryRaises(e)
  /\ Retriable(Asked, e) => key = Keys[Asked] /\ at = Len(chain)
  /\ answer' = Heuristic /\ pc' = "heuristic"
  /\ UNCHANGED <<at, call>>

\* A cross-check that fails is skipped and counts as agreement.
CrossCheckFails(e) ==
  /\ Fails(e) /\ role = "second"
  /\ vote' = "second_failed" /\ pc' = "returned"
  /\ UNCHANGED <<chain, severe, role, at, call, answer, second, ended>>

-----------------------------------------------------------------------------
Dialogue ==
  \/ GeminiTools \/ AnthropicTools \/ OpenAITools
  \/ \E a \in Answers : AskStrictly(a) \/ Answer(a) \/ CrossCheck(a)
  \/ \E e \in Errors : \/ Retry(e) \/ RotateKey(e) \/ FallBack(e)
                       \/ GiveUp(e) \/ CrossCheckFails(e)

Ended == pc \in {"returned", "heuristic"}
Next == Dialogue \/ Resume \/ (Ended /\ UNCHANGED vars)

Spec == Init /\ [][Next]_vars

\* asyncio.wait_for ends every call of two providers, and the tools end with
\* the timeouts of their clients; a Gemini call runs in a thread without one.
Timed == Provider[Asked] # "google" /\ Dialogue
FairSpec == Spec /\ WF_vars(Timed) /\ WF_vars(Resume)

-----------------------------------------------------------------------------
TypeOK ==
  /\ chain \in Chains /\ severe \in BOOLEAN
  /\ pc \in {"asking", "waiting", "returned", "heuristic"}
  /\ role \in {"primary", "second"}
  /\ at \in DOMAIN chain
  /\ role = "primary" => key \in 1..Keys[chain[at]]
  /\ role = "second" => /\ key = 1 /\ Others(chain[at]) # {}
                        /\ pc # "returned" => Contested(answer)
  /\ prompt \in 1..2 /\ attempt \in 1..MaxAttempts /\ round \in 0..MaxRounds
  /\ answer \in Answers \cup {NoAnswer} /\ second \in Answers \cup {NoAnswer}
  /\ vote \in {"none", "only_model", "second_failed", "agreed", "disagreed"}
  /\ ended \subseteq [at : DOMAIN chain, key : Nat, error : Errors]

\* "If the two models propose different actions, the result is downgraded to
\* notify" (README): a destructive action for a severe incident is one the
\* validator accepted and a second model named too, unless the first other
\* model of the chain failed or there is none. The heuristic never acts.
ActsOnAgreement ==
  pc \in {"returned", "heuristic"} /\ Contested(answer) =>
    /\ answer.valid
    /\ \/ second.action = answer.action
       \/ vote = "second_failed"
       \/ \A i \in DOMAIN chain : chain[i] = chain[at]

\* A key is used only after every key before it, and every model before its
\* own with all its keys, ended with an error worth another key: "rotate
\* through its API keys on retriable errors before moving on" (analyze).
Exhausted(i, k) == \E r \in ended : r.at = i /\ r.key = k /\ Retriable(chain[i], r.error)
InChainOrder ==
  /\ \A i \in 1..(at - 1) : \A k \in 1..Keys[chain[i]] : Exhausted(i, k)
  /\ role = "primary" => \A k \in 1..(key - 1) : Exhausted(at, k)

\* The heuristic replaces the models only after an error no other key helps
\* against, or when every key of every model is exhausted.
HeuristicIsLast ==
  pc = "heuristic" =>
    \/ \E r \in ended : r.at = at /\ r.key = key /\ ~Retriable(chain[at], r.error)
    \/ \A i \in DOMAIN chain : \A k \in 1..Keys[chain[i]] : Exhausted(i, k)

\* The promise of SecondOpinion, with the models heard as its backing.
Panel == {chain[i] : i \in DOMAIN chain}
Stage == IF pc \in {"returned", "heuristic"} THEN "settled"
         ELSE IF role = "second" THEN "contested" ELSE "open"
Proposer == IF answer = NoAnswer \/ pc = "heuristic" THEN {} ELSE {chain[at]}
Supporter == IF vote = "agreed" THEN {SecondModel(chain[at])} ELSE {}
Verdict == CASE vote = "only_model" -> "none"
             [] vote = "second_failed" -> "unheard"
             [] OTHER -> vote

Vote == INSTANCE SecondOpinion WITH
  Models <- Models, Actions <- Actions, Destructive <- Destructive,
  panel <- Panel, severe <- severe, stage <- Stage, action <- answer.action,
  backing <- Proposer \cup Supporter, verdict <- Verdict
VoteSpec == Vote!Spec

\* How far the analysis is: whose answer is asked for, then the model, the key, the
\* prompt, the attempt and the round of the call. No step goes back in it, none
\* leaves it as it is, and every entry is bounded: the keys and the attempts of a
\* call, its two prompts and its rounds of tools are each counted by a loop of
\* their own, and a path that forgets one of the counters would repeat the same
\* request for ever.
Phase == CASE Stage = "open" -> 0 [] Stage = "contested" -> 1 [] OTHER -> 2
Progress == <<Phase, at, key, prompt, attempt, IF pc = "waiting" THEN 1 ELSE 0, round>>
NothingAskedTwice == [][Precedes(Progress, Progress')]_vars

\* Every analysis gets its proposal, unless a Gemini call never returns.
ProposalOrGemini == <>Ended \/ <>[](pc = "asking" /\ Provider[Asked] = "google")

\* "On non-retriable errors (auth, 404 model) the exception bubbles up
\* immediately so the caller can fall over to the next model in the chain"
\* (_call_with_retry): no heuristic before every model was asked.
EveryModelAsked ==
  pc = "heuristic" => \A i \in DOMAIN chain : \E r \in ended : r.at = i
=============================================================================
