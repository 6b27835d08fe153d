SPECIFICATION FairSpec
CONSTANTS
  a1 = a1
  a2 = a2
  s1 = s1
  Agents = {a1, a2}
  SessionOf <- MCSessionOf
  PartyOf <- MCPartyOf
  Config <- MCConfig
  Asks <- MCAsks
  Proposals <- MCProposals
  Tools = {"search"}
  Usable = {"search"}
  MaxInvocations = 2
  MaxFlows = 3
  Workloads <- MCWorkloads
  Terms = {"cart1", "cart2"}
  Approvers = {"human", "agent"}
  Humans = {"human"}
  TTL = 0
  MaxTime = 1
  MaxChallenges = 2
  MaxQuantity = 3
  MaxPrice = 5
  MaxTotal = 10
INVARIANTS
  ToolUseIsBounded
PROPERTIES
  RunsSettle
  DecisionStands
CHECK_DEADLOCK FALSE
