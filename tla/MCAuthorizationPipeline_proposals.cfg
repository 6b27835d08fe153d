SPECIFICATION Spec
CONSTANTS
  MaxItems = 2
  MaxQuantity = 2
  MaxPrice = 11
  MaxTotal = 20
  Txs = {t1}
  Callers = {c1, c2}
  Proposals <- MCProposals
  Mandates <- MCMandates
  Policies <- MCPolicies
  BudgetAnswers = {"ALLOW"}
  Ttl = 1
  MaxTime = 1
SYMMETRY CallerSymmetry
INVARIANTS
  WithinMandate
  MemoryTruthful
  EnginesAgree
PROPERTIES
  AnsweredIsFinal
CHECK_DEADLOCK FALSE
