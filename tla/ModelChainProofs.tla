--------------------------- MODULE ModelChainProofs ---------------------------
(***************************************************************************)
(* Theorems of ModelChain for every set of models, every set of chains and  *)
(* every number of keys, attempts and rounds: the actions a severe incident *)
(* can end with, the order in which keys and models are used, and that the  *)
(* dialogues implement SecondOpinion.                                       *)
(***************************************************************************)
EXTENDS ModelChain, FiniteSetTheorems, WellFoundedInduction, TLAPS

USE ChainAssumption

\* Between two answers nothing but the primary one is known, and a second model is
\* asked about a destructive proposal only.
OneAnswerAtATime ==
  /\ role = "primary" => vote \in {"none", "only_model"} /\ second = NoAnswer
  /\ role = "primary" /\ pc \in {"asking", "waiting"} => answer = NoAnswer /\ vote = "none"
  /\ role = "second" /\ pc \in {"asking", "waiting"} =>
       answer \in Answers /\ answer.valid /\ Contested(answer) /\ vote = "none"

\* A call waits for another attempt only if it has one left.
Budgeted == pc = "waiting" => attempt < MaxAttempts

AInv == TypeOK /\ OneAnswerAtATime /\ ActsOnAgreement
KInv == TypeOK /\ InChainOrder /\ HeuristicIsLast

-----------------------------------------------------------------------------
(* Chains and answers *)

LEMMA ChainType ==
  ASSUME chain \in Chains
  PROVE  /\ chain \in Seq(Models) /\ Len(chain) \in Nat \ {0}
         /\ DOMAIN chain = 1..Len(chain)
         /\ \A i \in DOMAIN chain : /\ chain[i] \in Models
                                    /\ Keys[chain[i]] \in Nat \ {0}
                                    /\ Provider[chain[i]] \in Providers
<1>1. chain \in Seq(Models) /\ chain # <<>>
  OBVIOUS
<1>2. \A i \in DOMAIN chain : chain[i] \in Models
  BY <1>1
<1> QED BY <1>1, <1>2

LEMMA ResultType ==
  ASSUME NEW a \in Answers
  PROVE  /\ Result(a) \in Answers /\ Result(a) # NoAnswer
         /\ Contested(Result(a)) => Result(a).valid
BY DEF Result, Answers, NoAnswer, Rejected, Contested, Actions, Destructive

LEMMA HeuristicType ==
  Heuristic \in Answers /\ Heuristic # NoAnswer /\ ~Contested(Heuristic)
BY DEF Heuristic, Answers, NoAnswer, Contested, Actions, Destructive

\* A downgraded answer is an answer, and one nobody contests.
LEMMA DowngradeType ==
  ASSUME NEW a \in Answers
  PROVE  LET d == [a EXCEPT !.action = "notify"]
         IN d \in Answers /\ d # NoAnswer /\ d.action = "notify" /\ ~Contested(d)
BY DEF Answers, NoAnswer, Contested, Actions, Destructive

\* A set of positions that is not empty has a first one.
LEMMA HasMinimum ==
  ASSUME NEW n \in Nat, NEW T \in SUBSET (1..n), T # {}
  PROVE  \E x \in T : \A y \in T : x <= y
<1> DEFINE Below(i) == T \cap (1..i)
           P == {Below(i) : i \in T}
<1>1. IsFiniteSet(T)
  <2>1. 1 \in Int /\ n \in Int
    OBVIOUS
  <2>2. IsFiniteSet(1..n)
    BY <2>1, FS_Interval
  <2> QED BY <2>2, FS_Subset
<1>2. P \subseteq FiniteSubsetsOf(T) /\ P # {}
  <2>1. \A i \in T : Below(i) \in SUBSET T /\ IsFiniteSet(Below(i))
    BY <1>1, FS_Subset
  <2> HIDE DEF Below
  <2>2. \A i \in T : Below(i) \in FiniteSubsetsOf(T)
    BY <2>1 DEF FiniteSubsetsOf
  <2> QED BY <2>2
<1>3. PICK M \in P : \A N \in P : ~(<<N, M>> \in StrictSubsetOrdering(T))
  <2> HIDE DEF P
  <2> QED BY <1>2, FS_StrictSubsetOrderingWellFounded, WFMin
<1>4. PICK i \in T : M = Below(i)
  BY <1>3
<1>5. \A j \in T : i <= j
  <2>1. SUFFICES ASSUME NEW j \in T, j < i PROVE FALSE
    OBVIOUS
  <2>2. Below(j) \subseteq Below(i) /\ Below(j) # Below(i)
    BY <2>1
  <2>3. <<Below(j), Below(i)>> \in StrictSubsetOrdering(T)
    BY <2>2 DEF StrictSubsetOrdering
  <2> QED BY <1>3, <1>4, <2>3
<1> QED BY <1>5

\* The second model is a model of the chain and not the one it checks.
LEMMA SecondModelType ==
  ASSUME chain \in Chains, NEW m, Others(m) # {}
  PROVE  SecondModel(m) \in Panel /\ SecondModel(m) # m
<1>1. Others(m) \in SUBSET (1..Len(chain)) /\ Len(chain) \in Nat
  BY ChainType DEF Others
<1>2. \E i \in Others(m) : \A j \in Others(m) : i <= j
  BY <1>1, HasMinimum
<1>3. PICK i \in Others(m) : SecondModel(m) = chain[i]
  BY <1>2 DEF SecondModel
<1> QED BY <1>3 DEF Others, Panel

-----------------------------------------------------------------------------
(* Types *)

LEMMA InitType == Init => TypeOK /\ OneAnswerAtATime /\ ActsOnAgreement
<1> SUFFICES ASSUME Init PROVE TypeOK /\ OneAnswerAtATime /\ ActsOnAgreement
  OBVIOUS
<1>1. chain \in Chains
  BY DEF Init
<1>2. 1 \in DOMAIN chain /\ 1 \in 1..Keys[chain[1]]
  BY <1>1, ChainType
<1>3. TypeOK
  BY <1>1, <1>2 DEF Init, TypeOK
<1> QED BY <1>3 DEF Init, OneAnswerAtATime, ActsOnAgreement

LEMMA NextType == ASSUME TypeOK, Budgeted, [Next]_vars PROVE TypeOK'
<1> USE DEF TypeOK
<1>0. /\ DOMAIN chain = 1..Len(chain) /\ Len(chain) \in Nat \ {0}
      /\ \A i \in DOMAIN chain : Keys[chain[i]] \in Nat \ {0}
  BY ChainType
<1>1. ASSUME NEW p, NEW limit \in 0..MaxRounds, UseTools(p, limit) PROVE TypeOK'
  BY <1>1 DEF UseTools, Others, Contested
<1>2. ASSUME NEW a \in Answers, AskStrictly(a) PROVE TypeOK'
  BY <1>2 DEF AskStrictly, Others, Contested
<1>3. ASSUME NEW a \in Answers, Answer(a) PROVE TypeOK'
  <2>1. chain' = chain /\ at' = at /\ severe' = severe /\ answer' = Result(a)
    BY <1>3 DEF Answer
  <2>2. CASE role' = role
    <3>1. pc' = "returned" /\ role = "primary" /\ UNCHANGED call
      BY <1>3, <2>2 DEF Answer, Final
    <3> QED BY <1>3, <2>1, <2>2, <3>1, ResultType DEF Answer, call
  <2>3. CASE role' # role
    <3>1. role' = "second" /\ Others(chain[at]) # {} /\ Contested(Result(a))
          /\ key' = 1 /\ prompt' = 1 /\ attempt' = 1 /\ round' = 0 /\ UNCHANGED <<pc, vote>>
      BY <1>3, <2>3 DEF Answer, Ask
    <3> QED BY <1>3, <2>1, <3>1, ResultType DEF Answer, Others, Contested
  <2> QED BY <2>2, <2>3
<1>4. ASSUME NEW a \in Answers, CrossCheck(a) PROVE TypeOK'
  <2>1. answer' \in Answers \cup {NoAnswer}
    <3>1. answer \in Answers
      BY <1>4 DEF CrossCheck, Final, Contested, NoAnswer, Destructive
    <3>2. answer' \in {answer, [answer EXCEPT !.action = "notify"]}
      BY <1>4 DEF CrossCheck
    <3> QED BY <3>1, <3>2, DowngradeType
  <2>2. second' \in Answers /\ vote' \in {"agreed", "disagreed"} /\ pc' = "returned"
    BY <1>4, ResultType DEF CrossCheck
  <2>3. UNCHANGED <<chain, severe, role, at, key, prompt, attempt, round, ended>> /\ role = "second"
    BY <1>4 DEF CrossCheck, call, Final
  <2> QED BY <2>1, <2>2, <2>3 DEF Others
<1>5. ASSUME NEW e \in Errors, Retry(e) PROVE TypeOK'
  BY <1>5 DEF Retry, Fails, call, Others, Contested
<1>6. ASSUME NEW e \in Errors, RotateKey(e) PROVE TypeOK'
  BY <1>0, <1>6 DEF RotateKey, PrimaryRaises, Fails, Ask, Asked
<1>7. ASSUME NEW e \in Errors, FallBack(e) PROVE TypeOK'
  <2>1. at' = at + 1 /\ at' \in DOMAIN chain
    BY <1>0, <1>7 DEF FallBack
  <2>2. 1 \in 1..Keys[chain[at + 1]]
    BY <1>0, <2>1
  <2> QED BY <1>0, <1>7, <2>1, <2>2 DEF FallBack, PrimaryRaises, Fails, Ask
<1>8. ASSUME NEW e \in Errors, GiveUp(e) PROVE TypeOK'
  <2>1. key \in Nat
    BY <1>0, <1>8 DEF GiveUp, PrimaryRaises
  <2> QED BY <1>8, <2>1, HeuristicType DEF GiveUp, PrimaryRaises, Fails, call
<1>9. ASSUME NEW e \in Errors, CrossCheckFails(e) PROVE TypeOK'
  BY <1>9 DEF CrossCheckFails, Fails, call, Others
<1>10. ASSUME Resume PROVE TypeOK'
  <2>1. attempt + 1 \in 1..MaxAttempts
    BY <1>10 DEF Resume, Budgeted
  <2> QED BY <1>10, <2>1 DEF Resume, Others, Contested
<1>11. CASE UNCHANGED vars
  BY <1>11 DEF vars, call, Others, Contested
<1>12. MaxRounds \in 0..MaxRounds /\ MaxRounds - 1 \in 0..MaxRounds
  OBVIOUS
<1> QED BY <1>1, <1>2, <1>3, <1>4, <1>5, <1>6, <1>7, <1>8, <1>9, <1>10, <1>11, <1>12
        DEF Next, Dialogue, GeminiTools, AnthropicTools, OpenAITools

LEMMA NextBudget == ASSUME Budgeted, [Next]_vars PROVE Budgeted'
BY DEF Budgeted, Next, Dialogue, GeminiTools, AnthropicTools, OpenAITools, UseTools,
       AskStrictly, Answer, Final, Ask, CrossCheck, Retry, Resume, RotateKey, FallBack,
       GiveUp, PrimaryRaises, Fails, CrossCheckFails, vars, call

\* The state of an analysis is well-typed; in particular a key in use is one its
\* model has, and a second model is asked about a contested action only.
THEOREM TypeCorrect == Spec => []TypeOK
<1>1. Init => Budgeted
  BY DEF Init, Budgeted
<1> QED BY <1>1, InitType, NextType, NextBudget, PTL DEF Spec

-----------------------------------------------------------------------------
(* The steps of an analysis *)

\* The entries of Progress before and after a step.
LEMMA ProgressType ==
  ASSUME TypeOK
  PROVE  /\ Phase = IF pc \in {"returned", "heuristic"} THEN 2
                    ELSE IF role = "second" THEN 1 ELSE 0
         /\ Phase' = IF pc' \in {"returned", "heuristic"} THEN 2
                     ELSE IF role' = "second" THEN 1 ELSE 0
         /\ DOMAIN Progress = 1..7 /\ DOMAIN Progress' = 1..7
         /\ Progress[1] = Phase /\ Progress'[1] = Phase'
         /\ Progress[2] = at /\ Progress'[2] = at'
         /\ Progress[3] = key /\ Progress'[3] = key'
         /\ Progress[4] = prompt /\ Progress'[4] = prompt'
         /\ Progress[5] = attempt /\ Progress'[5] = attempt'
         /\ Progress[6] = (IF pc = "waiting" THEN 1 ELSE 0)
         /\ Progress'[6] = (IF pc' = "waiting" THEN 1 ELSE 0)
         /\ Progress[7] = round /\ Progress'[7] = round'
<1>1. /\ Phase = IF pc \in {"returned", "heuristic"} THEN 2
                  ELSE IF role = "second" THEN 1 ELSE 0
      /\ Phase' = IF pc' \in {"returned", "heuristic"} THEN 2
                   ELSE IF role' = "second" THEN 1 ELSE 0
  BY DEF Phase, Stage
<1> HIDE DEF Phase
<1> QED BY <1>1 DEF Progress

\* A step that moves an entry on and leaves those before it moves the analysis on.
LEMMA EntryMoves ==
  ASSUME TypeOK, NEW i \in 1..7, Progress[i] < Progress'[i],
         \A j \in 1..7 : j < i => Progress[j] = Progress'[j]
  PROVE  Precedes(Progress, Progress')
BY ProgressType DEF Precedes

LEMMA DialogueMoves == ASSUME TypeOK, Budgeted, Dialogue \/ Resume PROVE Precedes(Progress, Progress')
<1>0. at \in Nat /\ key \in Nat /\ prompt \in Nat /\ attempt \in Nat /\ round \in Nat
  <2>1. at \in Nat /\ key \in Nat
    BY ChainType DEF TypeOK
  <2> QED BY <2>1 DEF TypeOK
<1>1. ASSUME NEW p, NEW limit, UseTools(p, limit) PROVE Precedes(Progress, Progress')
  <2>1. round' = round + 1 /\ UNCHANGED <<pc, role, at, key, prompt, attempt>>
    BY <1>1 DEF UseTools
  <2>2. \A j \in 1..7 : j < 7 => Progress[j] = Progress'[j]
    BY <2>1, ProgressType
  <2>3. Progress[7] < Progress'[7]
    BY <1>0, <2>1, ProgressType
  <2> QED BY <2>2, <2>3, EntryMoves
<1>2. ASSUME NEW a \in Answers, AskStrictly(a) PROVE Precedes(Progress, Progress')
  <2>1. prompt = 1 /\ prompt' = 2 /\ UNCHANGED <<pc, role, at, key>>
    BY <1>2 DEF AskStrictly
  <2>2. \A j \in 1..7 : j < 4 => Progress[j] = Progress'[j]
    BY <2>1, ProgressType
  <2>3. Progress[4] < Progress'[4]
    BY <2>1, ProgressType
  <2> QED BY <2>2, <2>3, EntryMoves
<1>3. ASSUME Phase \in Nat, Phase' \in Nat, Phase < Phase' PROVE Precedes(Progress, Progress')
  <2>1. Progress[1] < Progress'[1] /\ \A j \in 1..7 : j < 1 => Progress[j] = Progress'[j]
    BY <1>3, ProgressType
  <2> QED BY <2>1, EntryMoves
<1>4. ASSUME NEW a \in Answers, Answer(a) PROVE Precedes(Progress, Progress')
  <2>1. pc = "asking" /\ role = "primary" /\ (pc' = "returned" \/ (pc' = pc /\ role' = "second"))
    BY <1>4 DEF Answer, Final
  <2>2. Phase = 0 /\ Phase' \in {1, 2}
    BY <2>1, ProgressType
  <2> QED BY <1>3, <2>2
<1>5. ASSUME NEW a \in Answers, CrossCheck(a) PROVE Precedes(Progress, Progress')
  <2>1. pc = "asking" /\ role = "second" /\ pc' = "returned"
    BY <1>5 DEF CrossCheck, Final
  <2>2. Phase = 1 /\ Phase' = 2
    BY <2>1, ProgressType
  <2> QED BY <1>3, <2>2
<1>6. ASSUME NEW e \in Errors, Retry(e) PROVE Precedes(Progress, Progress')
  <2>1. /\ pc = "asking" /\ pc' = "waiting"
        /\ UNCHANGED <<role, at, key, prompt, attempt>>
    BY <1>6 DEF Retry, Fails, call
  <2>2. \A j \in 1..7 : j < 6 => Progress[j] = Progress'[j]
    BY <2>1, ProgressType
  <2>3. Progress[6] < Progress'[6]
    BY <2>1, ProgressType
  <2> QED BY <2>2, <2>3, EntryMoves
<1>7. ASSUME Resume PROVE Precedes(Progress, Progress')
  <2>1. /\ pc = "waiting" /\ pc' = "asking" /\ attempt' = attempt + 1
        /\ UNCHANGED <<role, at, key, prompt>>
    BY <1>7 DEF Resume
  <2>2. \A j \in 1..7 : j < 5 => Progress[j] = Progress'[j]
    BY <2>1, ProgressType
  <2>3. Progress[5] < Progress'[5]
    BY <1>0, <2>1, ProgressType
  <2> QED BY <2>2, <2>3, EntryMoves
<1>8. ASSUME NEW e \in Errors, RotateKey(e) PROVE Precedes(Progress, Progress')
  <2>1. key' = key + 1 /\ UNCHANGED <<pc, role, at>>
    BY <1>8 DEF RotateKey, PrimaryRaises, Ask
  <2>2. \A j \in 1..7 : j < 3 => Progress[j] = Progress'[j]
    BY <2>1, ProgressType
  <2>3. Progress[3] < Progress'[3]
    BY <1>0, <2>1, ProgressType
  <2> QED BY <2>2, <2>3, EntryMoves
<1>9. ASSUME NEW e \in Errors, FallBack(e) PROVE Precedes(Progress, Progress')
  <2>1. at' = at + 1 /\ UNCHANGED <<pc, role>>
    BY <1>9 DEF FallBack, PrimaryRaises
  <2>2. \A j \in 1..7 : j < 2 => Progress[j] = Progress'[j]
    BY <2>1, ProgressType
  <2>3. Progress[2] < Progress'[2]
    BY <1>0, <2>1, ProgressType
  <2> QED BY <2>2, <2>3, EntryMoves
<1>10. ASSUME NEW e \in Errors, GiveUp(e) \/ CrossCheckFails(e) PROVE Precedes(Progress, Progress')
  <2>1. pc = "asking" /\ pc' \in {"returned", "heuristic"}
    BY <1>10 DEF GiveUp, PrimaryRaises, CrossCheckFails, Fails
  <2>2. Phase \in {0, 1} /\ Phase' = 2
    BY <2>1, ProgressType
  <2> QED BY <1>3, <2>2
<1> QED BY <1>1, <1>2, <1>4, <1>5, <1>6, <1>7, <1>8, <1>9, <1>10
        DEF Dialogue, GeminiTools, AnthropicTools, OpenAITools

\* No step of an analysis asks again what it asked before: each moves on in the
\* order of phases, models, keys, prompts, attempts and rounds, and TypeCorrect
\* bounds every one of them (analyze, _analyze_with_model, _call_with_retry and
\* the tool loops).
THEOREM AskedOnce == Spec => NothingAskedTwice
<1>1. TypeOK /\ Budgeted /\ [Next]_vars => [Precedes(Progress, Progress')]_vars
  BY DialogueMoves DEF Next
<1>2. Init => TypeOK /\ Budgeted
  BY InitType DEF Init, Budgeted
<1>3. TypeOK /\ Budgeted /\ [Next]_vars => (TypeOK /\ Budgeted)'
  BY NextType, NextBudget
<1> QED BY <1>1, <1>2, <1>3, PTL DEF Spec, NothingAskedTwice

-----------------------------------------------------------------------------
(* What a severe incident may end with *)

LEMMA NextAgreement == ASSUME AInv, [Next]_vars PROVE OneAnswerAtATime' /\ ActsOnAgreement'
<1> USE DEF AInv, OneAnswerAtATime
<1>1. ASSUME NEW p, NEW limit, UseTools(p, limit) PROVE OneAnswerAtATime' /\ ActsOnAgreement'
  BY <1>1 DEF UseTools, Contested, ActsOnAgreement
<1>2. ASSUME NEW a \in Answers, AskStrictly(a) PROVE OneAnswerAtATime' /\ ActsOnAgreement'
  BY <1>2 DEF AskStrictly, Contested, ActsOnAgreement
<1>3. ASSUME NEW a \in Answers, Answer(a) PROVE OneAnswerAtATime' /\ ActsOnAgreement'
  <2>1. /\ UNCHANGED <<chain, at, severe, second>> /\ answer' = Result(a)
        /\ pc = "asking" /\ role = "primary" /\ second = NoAnswer /\ vote = "none"
    BY <1>3 DEF Answer, Final
  <2>2. CASE ~Contested(Result(a))
    <3>1. pc' = "returned" /\ role' = role /\ vote' = vote /\ ~Contested(answer)'
      BY <1>3, <2>1, <2>2 DEF Answer, Contested
    <3> QED BY <2>1, <3>1 DEF ActsOnAgreement
  <2>3. CASE Contested(Result(a)) /\ Others(chain[at]) = {}
    <3>1. pc' = "returned" /\ role' = role /\ vote' = "only_model"
      BY <1>3, <2>3 DEF Answer
    <3>2. \A i \in DOMAIN chain : chain[i] = chain[at]
      BY <2>3 DEF Others
    <3>3. (answer.valid)'
      BY <2>1, <2>3, ResultType
    <3> QED BY <2>1, <3>1, <3>2, <3>3 DEF ActsOnAgreement
  <2>4. CASE Contested(Result(a)) /\ Others(chain[at]) # {}
    <3>1. pc' = pc /\ role' = "second" /\ vote' = vote
      BY <1>3, <2>4 DEF Answer
    <3>2. Contested(answer)' /\ (answer.valid)' /\ answer' \in Answers
      BY <2>1, <2>4, ResultType DEF Contested
    <3> QED BY <2>1, <3>1, <3>2 DEF ActsOnAgreement
  <2> QED BY <2>2, <2>3, <2>4
<1>4. ASSUME NEW a \in Answers, CrossCheck(a) PROVE OneAnswerAtATime' /\ ActsOnAgreement'
  <2>1. /\ pc' = "returned" /\ UNCHANGED <<role, severe>> /\ role = "second"
        /\ second' = Result(a) /\ answer \in Answers /\ answer.valid
    BY <1>4 DEF CrossCheck, Final
  <2>2. CASE Result(a).action = answer.action
    <3>1. answer' = answer
      BY <1>4, <2>2 DEF CrossCheck
    <3> QED BY <2>1, <2>2, <3>1 DEF ActsOnAgreement
  <2>3. CASE Result(a).action # answer.action
    <3>1. answer' = [answer EXCEPT !.action = "notify"]
      BY <1>4, <2>3 DEF CrossCheck
    <3>2. ~Contested(answer)'
      BY <2>1, <3>1, DowngradeType DEF Contested
    <3> QED BY <2>1, <3>2 DEF ActsOnAgreement
  <2> QED BY <2>2, <2>3
<1>5. ASSUME NEW e \in Errors, Retry(e) PROVE OneAnswerAtATime' /\ ActsOnAgreement'
  BY <1>5 DEF Retry, Fails, Contested, ActsOnAgreement
<1>6. ASSUME NEW e \in Errors, RotateKey(e) \/ FallBack(e)
      PROVE  OneAnswerAtATime' /\ ActsOnAgreement'
  <2>1. /\ UNCHANGED <<pc, role, severe, answer, vote, second>>
        /\ pc = "asking" /\ role = "primary"
    BY <1>6 DEF RotateKey, FallBack, PrimaryRaises, Fails
  <2> QED BY <2>1 DEF ActsOnAgreement
<1>7. ASSUME NEW e \in Errors, GiveUp(e) PROVE OneAnswerAtATime' /\ ActsOnAgreement'
  <2>1. /\ UNCHANGED <<role, severe, vote, second>> /\ role = "primary"
        /\ pc' = "heuristic" /\ answer' = Heuristic
    BY <1>7 DEF GiveUp, PrimaryRaises
  <2>2. ~Contested(answer)'
    BY <2>1, HeuristicType DEF Contested
  <2> QED BY <2>1, <2>2 DEF ActsOnAgreement
<1>8. ASSUME NEW e \in Errors, CrossCheckFails(e) PROVE OneAnswerAtATime' /\ ActsOnAgreement'
  BY <1>8 DEF CrossCheckFails, Fails, Contested, ActsOnAgreement
<1>9. ASSUME Resume PROVE OneAnswerAtATime' /\ ActsOnAgreement'
  BY <1>9 DEF Resume, Contested, ActsOnAgreement
<1>10. CASE UNCHANGED vars
  BY <1>10 DEF vars, Contested, ActsOnAgreement
<1> QED BY <1>1, <1>2, <1>3, <1>4, <1>5, <1>6, <1>7, <1>8, <1>9, <1>10
        DEF Next, Dialogue, GeminiTools, AnthropicTools, OpenAITools

LEMMA AgreementInvariant == Spec => []AInv
<1>1. Init => AInv /\ Budgeted
  BY InitType DEF AInv, Init, Budgeted
<1>2. AInv /\ Budgeted /\ [Next]_vars => (AInv /\ Budgeted)'
  BY NextType, NextBudget, NextAgreement DEF AInv
<1> QED BY <1>1, <1>2, PTL DEF Spec

\* A destructive action for a severe incident was accepted by the validator and
\* named by a second model, or there was none to hear (the cross-check of analyze).
THEOREM DestructiveIsAgreed == Spec => []ActsOnAgreement
<1>1. AInv => ActsOnAgreement
  BY DEF AInv
<1> QED BY <1>1, AgreementInvariant, PTL

-----------------------------------------------------------------------------
(* The order of keys and models *)

\* The record of the errors only grows, so what is exhausted stays so.
LEMMA ExhaustedStays ==
  ASSUME chain' = chain, ended \subseteq ended', NEW i, NEW k, Exhausted(i, k)
  PROVE  Exhausted(i, k)'
BY DEF Exhausted

\* An error ends the use of a key, and for the next one when it is worth it.
LEMMA RaiseExhausts ==
  ASSUME KInv, NEW e \in Errors, PrimaryRaises(e)
  PROVE  /\ chain' = chain /\ role' = role /\ role = "primary" /\ pc = "asking"
         /\ Asked = chain[at] /\ key \in 1..Keys[chain[at]]
         /\ [at |-> at, key |-> key, error |-> e] \in ended'
         /\ \A i \in 1..(at - 1) : \A k \in 1..Keys[chain[i]] : Exhausted(i, k)'
         /\ \A i, k : i = at /\ k \in 1..(key - 1) => Exhausted(i, k)'
         /\ Retriable(Asked, e) => \A i, k : i = at /\ k \in 1..key => Exhausted(i, k)'
<1>1. /\ chain' = chain /\ role' = role /\ role = "primary" /\ pc = "asking"
      /\ ended' = ended \cup {[at |-> at, key |-> key, error |-> e]}
  BY DEF PrimaryRaises, Fails
<1>2. Asked = chain[at] /\ key \in 1..Keys[chain[at]] /\ Keys[chain[at]] \in Nat
  BY <1>1, ChainType DEF Asked, KInv, TypeOK
<1>3. \A i \in 1..(at - 1) : \A k \in 1..Keys[chain[i]] : Exhausted(i, k)'
  BY <1>1, ExhaustedStays DEF KInv, InChainOrder
<1>4. \A i, k : i = at /\ k \in 1..(key - 1) => Exhausted(i, k)'
  <2> SUFFICES ASSUME NEW i, NEW k, i = at, k \in 1..(key - 1) PROVE Exhausted(i, k)'
    OBVIOUS
  <2>1. Exhausted(i, k)
    BY <1>1 DEF KInv, InChainOrder
  <2> QED BY <1>1, <2>1, ExhaustedStays
<1>5. ASSUME Retriable(Asked, e), NEW i, NEW k, i = at, k = key PROVE Exhausted(i, k)'
  <2> DEFINE r == [at |-> i, key |-> k, error |-> e]
  <2>1. r \in ended' /\ r.at = i /\ r.key = k /\ r.error = e
    BY <1>1, <1>5
  <2>2. Retriable(chain'[i], r.error)
    BY <1>1, <1>2, <1>5
  <2> HIDE DEF r
  <2>3. \E q \in ended' : q.at = i /\ q.key = k /\ Retriable(chain'[i], q.error)
    BY <2>1, <2>2
  <2> QED BY <2>3 DEF Exhausted, Retriable
<1>6. \A k \in 1..key : k = key \/ k \in 1..(key - 1)
  BY <1>2
<1>7. Retriable(Asked, e) => \A i, k : i = at /\ k \in 1..key => Exhausted(i, k)'
  BY <1>4, <1>5, <1>6
<1> HIDE DEF KInv
<1> QED BY <1>1, <1>2, <1>3, <1>4, <1>7

LEMMA InitOrder == Init => KInv
<1> SUFFICES ASSUME Init PROVE KInv
  OBVIOUS
<1>1. at = 1 /\ key = 1 /\ pc = "asking"
  BY DEF Init
<1> QED BY <1>1, InitType DEF KInv, InChainOrder, HeuristicIsLast

\* Steps that use up no key and move to no other.
LEMMA QuietOrder ==
  ASSUME KInv, UNCHANGED <<chain, at, ended>>, pc' # "heuristic",
         role' = "second" \/ UNCHANGED <<role, key>>
  PROVE  InChainOrder' /\ HeuristicIsLast'
BY DEF KInv, InChainOrder, HeuristicIsLast, Exhausted

LEMMA NextOrder == ASSUME KInv, [Next]_vars PROVE InChainOrder' /\ HeuristicIsLast'
<1>0. /\ at \in DOMAIN chain /\ DOMAIN chain = 1..Len(chain) /\ Len(chain) \in Nat \ {0}
      /\ \A i \in DOMAIN chain : Keys[chain[i]] \in Nat \ {0}
      /\ role = "primary" => key \in 1..Keys[chain[at]]
  BY ChainType DEF KInv, TypeOK
<1>1. CASE \E p, limit : UseTools(p, limit)
  BY <1>1, QuietOrder DEF UseTools
<1>2. CASE \E a \in Answers : AskStrictly(a) \/ Answer(a) \/ CrossCheck(a)
  <2>1. PICK a \in Answers : AskStrictly(a) \/ Answer(a) \/ CrossCheck(a)
    BY <1>2
  <2>2. CASE AskStrictly(a)
    BY <2>2, QuietOrder DEF AskStrictly
  <2>3. CASE Answer(a)
    BY <2>3, QuietOrder DEF Answer, Final, call
  <2>4. CASE CrossCheck(a)
    BY <2>4, QuietOrder DEF CrossCheck, call
  <2> QED BY <2>1, <2>2, <2>3, <2>4
<1>3. CASE \E e \in Errors : Retry(e) \/ CrossCheckFails(e)
  BY <1>3, QuietOrder DEF Retry, CrossCheckFails, call
<1>4. CASE Resume
  BY <1>4, QuietOrder DEF Resume
<1>5. ASSUME NEW e \in Errors, RotateKey(e) PROVE InChainOrder' /\ HeuristicIsLast'
  <2>1. /\ PrimaryRaises(e) /\ Retriable(Asked, e)
        /\ at' = at /\ key' = key + 1 /\ pc' = pc
    BY <1>5 DEF RotateKey, Ask
  <2>2. /\ chain' = chain /\ pc' # "heuristic" /\ key \in 1..Keys[chain[at]]
        /\ \A i \in 1..(at - 1) : \A k \in 1..Keys[chain[i]] : Exhausted(i, k)'
        /\ \A i, k : i = at /\ k \in 1..key => Exhausted(i, k)'
    BY <2>1, RaiseExhausts
  <2>3. key' - 1 = key
    BY <1>0, <2>1, <2>2
  <2>4. /\ \A i \in 1..(at' - 1) : \A k \in 1..Keys[chain'[i]] : Exhausted(i, k)'
        /\ \A i, k : i = at' /\ k \in 1..(key' - 1) => Exhausted(i, k)'
    BY <2>1, <2>2, <2>3
  <2>5. InChainOrder'
    BY <2>4 DEF InChainOrder, Exhausted
  <2> QED BY <2>1, <2>2, <2>5 DEF HeuristicIsLast
<1>6. ASSUME NEW e \in Errors, FallBack(e) PROVE InChainOrder' /\ HeuristicIsLast'
  <2>1. /\ PrimaryRaises(e) /\ Retriable(Asked, e) /\ key = Keys[Asked]
        /\ at' = at + 1 /\ key' = 1 /\ pc' = pc
    BY <1>6 DEF FallBack, Ask
  <2>2. /\ chain' = chain /\ pc' # "heuristic" /\ key = Keys[chain[at]]
        /\ \A i \in 1..(at - 1) : \A k \in 1..Keys[chain[i]] : Exhausted(i, k)'
        /\ \A i, k : i = at /\ k \in 1..key => Exhausted(i, k)'
    BY <2>1, RaiseExhausts
  <2>3. \A i \in 1..(at' - 1) : i = at \/ i \in 1..(at - 1)
    BY <1>0, <2>1
  <2>4. \A i \in 1..(at' - 1) : \A k \in 1..Keys[chain'[i]] : Exhausted(i, k)'
    BY <2>2, <2>3
  <2>5. 1..(key' - 1) = {}
    BY <2>1
  <2> QED BY <2>2, <2>4, <2>5 DEF InChainOrder, HeuristicIsLast, Exhausted
<1>7. ASSUME NEW e \in Errors, GiveUp(e) PROVE InChainOrder' /\ HeuristicIsLast'
  <2>1. /\ PrimaryRaises(e) /\ at' = at /\ key' = key /\ pc' = "heuristic"
        /\ Retriable(Asked, e) => key = Keys[Asked] /\ at = Len(chain)
    BY <1>7 DEF GiveUp, call
  <2>2. /\ chain' = chain /\ Asked = chain[at]
        /\ [at |-> at, key |-> key, error |-> e] \in ended'
        /\ \A i \in 1..(at - 1) : \A k \in 1..Keys[chain[i]] : Exhausted(i, k)'
        /\ \A i, k : i = at /\ k \in 1..(key - 1) => Exhausted(i, k)'
        /\ Retriable(Asked, e) => \A i, k : i = at /\ k \in 1..key => Exhausted(i, k)'
    BY <2>1, RaiseExhausts
  <2>3. InChainOrder'
    BY <2>1, <2>2 DEF InChainOrder, Exhausted
  <2>4. CASE ~Retriable(Asked, e)
    <3> DEFINE r == [at |-> at, key |-> key, error |-> e]
    <3>1. r \in ended' /\ r.at = at /\ r.key = key /\ ~Retriable(chain[at], r.error)
      BY <2>2, <2>4
    <3> HIDE DEF r
    <3>2. \E q \in ended' : q.at = at' /\ q.key = key' /\ ~Retriable(chain'[at'], q.error)
      BY <2>1, <2>2, <3>1
    <3> QED BY <2>3, <3>2 DEF HeuristicIsLast, Retriable
  <2>5. CASE Retriable(Asked, e)
    <3>1. key = Keys[chain[at]] /\ at = Len(chain)
      BY <2>1, <2>2, <2>5
    <3>2. \A i \in DOMAIN chain : i = at \/ i \in 1..(at - 1)
      BY <1>0, <3>1
    <3>3. \A i \in DOMAIN chain' : \A k \in 1..Keys[chain'[i]] : Exhausted(i, k)'
      BY <2>2, <2>5, <3>1, <3>2
    <3> QED BY <2>3, <3>3 DEF HeuristicIsLast, Exhausted
  <2> QED BY <2>3, <2>4, <2>5
<1>8. CASE UNCHANGED vars
  BY <1>8 DEF vars, call, KInv, InChainOrder, HeuristicIsLast, Exhausted
<1> QED BY <1>1, <1>2, <1>3, <1>4, <1>5, <1>6, <1>7, <1>8
        DEF Next, Dialogue, GeminiTools, AnthropicTools, OpenAITools

LEMMA OrderInvariant == Spec => []KInv
<1>1. Init => KInv /\ Budgeted
  BY InitOrder DEF Init, Budgeted
<1>2. KInv /\ Budgeted /\ [Next]_vars => (KInv /\ Budgeted)'
  BY NextType, NextBudget, NextOrder DEF KInv
<1> QED BY <1>1, <1>2, PTL DEF Spec

\* Keys and models are used in order, each after those before it ended with an
\* error worth another key (the loop of analyze).
THEOREM ChainInOrder == Spec => []InChainOrder
<1>1. KInv => InChainOrder
  BY DEF KInv
<1> QED BY <1>1, OrderInvariant, PTL

\* The heuristic comes last (the fallback of run_analysis).
THEOREM HeuristicComesLast == Spec => []HeuristicIsLast
<1>1. KInv => HeuristicIsLast
  BY DEF KInv
<1> QED BY <1>1, OrderInvariant, PTL
-----------------------------------------------------------------------------
(* The dialogues implement SecondOpinion *)

\* Steps the promise does not see: what it is told of stays as it is.
LEMMA QuietVote ==
  ASSUME UNCHANGED <<chain, severe, role, answer, vote>>,
         pc \in {"asking", "waiting"}, pc' \in {"asking", "waiting"},
         at' = at \/ (answer = NoAnswer /\ vote = "none")
  PROVE  UNCHANGED <<Panel, severe, Stage, answer.action, Proposer \cup Supporter, Verdict>>
<1>1. Panel' = Panel /\ Stage' = Stage /\ Verdict' = Verdict
  BY DEF Panel, Stage, Verdict
<1>2. CASE at' = at
  BY <1>1, <1>2 DEF Proposer, Supporter, SecondModel, Others
<1>3. CASE answer = NoAnswer /\ vote = "none"
  BY <1>1, <1>3 DEF Proposer, Supporter
<1> QED BY <1>2, <1>3

\* The panel has another model exactly if SecondModel finds one.
LEMMA PanelOthers ==
  ASSUME chain \in Chains, at \in DOMAIN chain
  PROVE  chain[at] \in Panel /\ (Panel # {chain[at]} <=> Others(chain[at]) # {})
<1>1. chain[at] \in Panel
  BY DEF Panel
<1>2. Panel # {chain[at]} => Others(chain[at]) # {}
  BY <1>1 DEF Panel, Others
<1>3. Others(chain[at]) # {} => Panel # {chain[at]}
  BY <1>1 DEF Panel, Others
<1> QED BY <1>1, <1>2, <1>3

LEMMA AnswerProposes ==
  ASSUME AInv, NEW a \in Answers, Answer(a)
  PROVE  Vote!Propose(chain[at], Result(a).action) /\ UNCHANGED <<Panel, severe>>
<1>1. /\ UNCHANGED <<chain, at, severe>> /\ answer' = Result(a)
      /\ pc = "asking" /\ role = "primary" /\ vote = "none"
      /\ Result(a) \in Answers /\ Result(a) # NoAnswer
      /\ chain \in Chains /\ at \in DOMAIN chain
  BY ResultType DEF Answer, Final, AInv, OneAnswerAtATime, TypeOK
<1>2. Panel' = Panel /\ severe' = severe /\ Stage = "open"
      /\ (answer.action)' = Result(a).action
  BY <1>1 DEF Panel, Stage
<1>3. CASE ~Contested(Result(a))
  <2>1. pc' = "returned" /\ role' = role /\ vote' = vote
    BY <1>3 DEF Answer
  <2>2. Stage' = "settled" /\ Verdict' = Verdict /\ (Proposer \cup Supporter)' = {chain[at]}
    BY <1>1, <2>1 DEF Stage, Verdict, Proposer, Supporter
  <2> QED BY <1>2, <1>3, <2>2 DEF Vote!Propose, Contested
<1>4. CASE Contested(Result(a)) /\ Others(chain[at]) = {}
  <2>1. pc' = "returned" /\ role' = role /\ vote' = "only_model"
    BY <1>4 DEF Answer
  <2>2. Stage' = "settled" /\ Verdict' = Verdict /\ (Proposer \cup Supporter)' = {chain[at]}
    BY <1>1, <2>1 DEF Stage, Verdict, Proposer, Supporter
  <2>3. Panel = {chain[at]}
    BY <1>1, <1>4, PanelOthers
  <2> QED BY <1>2, <2>2, <2>3 DEF Vote!Propose
<1>5. CASE Contested(Result(a)) /\ Others(chain[at]) # {}
  <2>1. pc' = "asking" /\ role' = "second" /\ vote' = vote
    BY <1>1, <1>5 DEF Answer
  <2>2. Stage' = "contested" /\ Verdict' = Verdict /\ (Proposer \cup Supporter)' = {chain[at]}
    BY <1>1, <2>1 DEF Stage, Verdict, Proposer, Supporter
  <2>3. Panel # {chain[at]} /\ severe /\ Result(a).action \in Destructive
    BY <1>1, <1>5, PanelOthers DEF Contested
  <2> QED BY <1>2, <2>2, <2>3 DEF Vote!Propose
<1> QED BY <1>3, <1>4, <1>5

LEMMA CrossCheckDecides ==
  ASSUME AInv, NEW a \in Answers, CrossCheck(a)
  PROVE  /\ (\E m \in Panel : Vote!Concur(m)) \/ Vote!Dissent
         /\ UNCHANGED <<Panel, severe>>
<1>1. /\ UNCHANGED <<chain, at, severe, role>> /\ role = "second"
      /\ pc = "asking" /\ pc' = "returned" /\ vote = "none"
      /\ answer \in Answers /\ answer.valid
      /\ chain \in Chains /\ at \in DOMAIN chain /\ Others(chain[at]) # {}
  BY DEF CrossCheck, Final, AInv, OneAnswerAtATime, TypeOK
<1>2. Panel' = Panel /\ Stage = "contested" /\ Stage' = "settled"
  BY <1>1 DEF Panel, Stage
<1>3. answer # NoAnswer /\ Proposer \cup Supporter = {chain[at]}
  BY <1>1 DEF NoAnswer, Proposer, Supporter
<1>4. CASE Result(a).action = answer.action
  <2>1. answer' = answer /\ vote' = "agreed"
    BY <1>4 DEF CrossCheck
  <2>2. (Proposer \cup Supporter)' = {chain[at]} \cup {SecondModel(chain[at])}
    BY <1>1, <1>3, <2>1 DEF Proposer, Supporter, SecondModel, Others
  <2>3. Verdict' = "agreed"
    BY <2>1 DEF Verdict
  <2>4. SecondModel(chain[at]) \in Panel /\ SecondModel(chain[at]) # chain[at]
    BY <1>1, SecondModelType
  <2>5. Vote!Concur(SecondModel(chain[at]))
    BY <1>2, <1>3, <2>1, <2>2, <2>3, <2>4 DEF Vote!Concur
  <2> QED BY <1>1, <1>2, <2>4, <2>5
<1>5. CASE Result(a).action # answer.action
  <2>1. answer' = [answer EXCEPT !.action = "notify"] /\ vote' = "disagreed"
    BY <1>5 DEF CrossCheck
  <2>2. answer' # NoAnswer /\ (answer.action)' = "notify"
    BY <1>1, <2>1, DowngradeType
  <2>3. (Proposer \cup Supporter)' = {chain[at]} /\ Verdict' = "disagreed"
    BY <1>1, <2>1, <2>2 DEF Proposer, Supporter, Verdict
  <2>4. Vote!Dissent
    BY <1>2, <1>3, <2>2, <2>3 DEF Vote!Dissent
  <2> QED BY <1>1, <1>2, <2>4
<1> QED BY <1>4, <1>5

LEMMA FailureIsUnheard ==
  ASSUME AInv, NEW e \in Errors, CrossCheckFails(e)
  PROVE  Vote!Unheard /\ UNCHANGED <<Panel, severe>>
<1>1. /\ UNCHANGED <<chain, at, severe, role, answer>> /\ role = "second"
      /\ pc = "asking" /\ pc' = "returned" /\ vote = "none" /\ vote' = "second_failed"
  BY DEF CrossCheckFails, Fails, AInv, OneAnswerAtATime
<1>2. Panel' = Panel /\ Stage = "contested" /\ Stage' = "settled" /\ Verdict' = "unheard"
  BY <1>1 DEF Panel, Stage, Verdict
<1>3. (Proposer \cup Supporter)' = Proposer \cup Supporter
  BY <1>1 DEF Proposer, Supporter
<1> QED BY <1>1, <1>2, <1>3 DEF Vote!Unheard

LEMMA GiveUpGivesUp ==
  ASSUME AInv, NEW e \in Errors, GiveUp(e)
  PROVE  Vote!GiveUp /\ UNCHANGED <<Panel, severe>>
<1>1. /\ UNCHANGED <<chain, at, severe, role, vote>> /\ role = "primary"
      /\ pc = "asking" /\ pc' = "heuristic" /\ vote = "none"
      /\ answer = NoAnswer /\ answer' = Heuristic
  BY DEF GiveUp, PrimaryRaises, Fails, AInv, OneAnswerAtATime
<1>2. Panel' = Panel /\ Stage = "open" /\ Stage' = "settled" /\ Verdict' = Verdict
  BY <1>1 DEF Panel, Stage, Verdict
<1>3. (Proposer \cup Supporter)' = Proposer \cup Supporter
  BY <1>1 DEF Proposer, Supporter
<1>4. (answer.action)' = "notify"
  BY <1>1 DEF Heuristic
<1> QED BY <1>1, <1>2, <1>3, <1>4 DEF Vote!GiveUp

\* In every execution the dialogues of analyze, its keys, retries and errors
\* hidden, take the steps SecondOpinion allows.
THEOREM ImplementsSecondOpinion == Spec => VoteSpec
<1> DEFINE abs == <<Panel, severe, Stage, answer.action, Proposer \cup Supporter, Verdict>>
<1>1. Init => Vote!Init
  <2> SUFFICES ASSUME Init PROVE Vote!Init
    OBVIOUS
  <2>1. chain \in Chains /\ severe \in BOOLEAN /\ pc = "asking" /\ role = "primary"
        /\ answer = NoAnswer /\ vote = "none"
    BY DEF Init
  <2>2. Panel \in (SUBSET Models) \ {{}}
    <3>1. Panel \subseteq Models /\ chain[1] \in Panel
      BY <2>1, ChainType DEF Panel
    <3> QED BY <3>1
  <2>3. Stage = "open" /\ answer.action = "none" /\ Verdict = "none"
        /\ Proposer \cup Supporter = {}
    BY <2>1 DEF Stage, NoAnswer, Verdict, Proposer, Supporter
  <2> QED BY <2>1, <2>2, <2>3 DEF Vote!Init
<1>2. AInv /\ [Next]_vars => [Vote!Next]_abs
  <2> SUFFICES ASSUME AInv, [Next]_vars PROVE Vote!Next \/ UNCHANGED abs
    OBVIOUS
  <2>1. ASSUME NEW p, NEW limit, UseTools(p, limit) PROVE UNCHANGED abs
    BY <2>1, QuietVote DEF UseTools
  <2>2. ASSUME NEW a \in Answers, AskStrictly(a) PROVE UNCHANGED abs
    BY <2>2, QuietVote DEF AskStrictly
  <2>3. ASSUME NEW a \in Answers, Answer(a) PROVE Vote!Next
    <3>1. Result(a).action \in Actions
      BY ResultType DEF Answers
    <3>2. chain[at] \in Panel
      BY PanelOthers DEF AInv, TypeOK
    <3> QED BY <2>3, <3>1, <3>2, AnswerProposes DEF Vote!Next
  <2>4. ASSUME NEW a \in Answers, CrossCheck(a) PROVE Vote!Next
    BY <2>4, CrossCheckDecides DEF Vote!Next
  <2>5. ASSUME NEW e \in Errors, Retry(e) PROVE UNCHANGED abs
    BY <2>5, QuietVote DEF Retry, Fails
  <2>6. ASSUME NEW e \in Errors, RotateKey(e) \/ FallBack(e) PROVE UNCHANGED abs
    <3>1. /\ UNCHANGED <<chain, severe, role, answer, vote, pc>> /\ pc = "asking"
          /\ role = "primary"
      BY <2>6 DEF RotateKey, FallBack, PrimaryRaises, Fails
    <3>2. answer = NoAnswer /\ vote = "none"
      BY <3>1 DEF AInv, OneAnswerAtATime
    <3> QED BY <3>1, <3>2, QuietVote
  <2>7. ASSUME NEW e \in Errors, GiveUp(e) PROVE Vote!Next
    BY <2>7, GiveUpGivesUp DEF Vote!Next
  <2>8. ASSUME NEW e \in Errors, CrossCheckFails(e) PROVE Vote!Next
    BY <2>8, FailureIsUnheard DEF Vote!Next
  <2>9. ASSUME Resume PROVE UNCHANGED abs
    BY <2>9, QuietVote DEF Resume
  <2>10. CASE UNCHANGED vars
    BY <2>10 DEF vars, Panel, Stage, Proposer, Supporter, SecondModel, Others, Verdict
  <2> HIDE DEF abs
  <2> QED BY <2>1, <2>2, <2>3, <2>4, <2>5, <2>6, <2>7, <2>8, <2>9, <2>10
          DEF Next, Dialogue, GeminiTools, AnthropicTools, OpenAITools
<1> QED BY <1>1, <1>2, AgreementInvariant, PTL DEF Spec, VoteSpec, Vote!Spec
=============================================================================
