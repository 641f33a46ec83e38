SPECIFICATION Spec
CONSTANTS
  gemini = gemini  claude = claude  gpt = gpt
  Models <- MCModels
  Chains <- MCChains
  Provider <- MCProvider
  Keys <- MCKeys
  MaxAttempts = 3
  MaxRounds = 3
INVARIANT EveryModelAsked
