SPECIFICATION FairSpec
CONSTANTS
  gemini = gemini  claude = claude  gpt = gpt
  Models <- MCModels
  Chains <- MCChains
  Provider <- MCProvider
  Keys <- MCKeys
  MaxAttempts = 3
  MaxRounds = 3
INVARIANTS TypeOK ActsOnAgreement InChainOrder HeuristicIsLast
PROPERTIES VoteSpec NothingAskedTwice ProposalOrGemini
