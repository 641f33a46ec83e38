----------------------------- MODULE MCModelChain -----------------------------
(* Chains for the TLC runs of ModelChain. *)
EXTENDS ModelChain, TLC

CONSTANTS gemini, claude, gpt

MCModels == {gemini, claude, gpt}
MCProvider == gemini :> "google" @@ claude :> "anthropic" @@ gpt :> "openai"
MCKeys == gemini :> 2 @@ claude :> 1 @@ gpt :> 2

\* One model; all, with either kind first; a fallback that is listed twice.
MCChains == {<<gemini>>, <<claude>>, <<gemini, claude, gpt>>, <<gpt, gemini>>,
             <<gemini, claude, claude>>}
=============================================================================
