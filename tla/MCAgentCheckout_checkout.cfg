SPECIFICATION Spec
CONSTANTS
  MaxMerchants = 2
  PrunedTo = 2
  ElectronicsFloor = 15000
  PriceFloor = 1000
  Agents = {"a1"}
  Receipts = {"x1"}
  Delegations = {"g1"}
  Amounts = {0, 2, 4}
  Maxima = {2}
  PerTransactionLimit = 3
  DailyLimit = 4
  RiskSteps <- MCRiskSteps
  HalfDays = 3
  MaxProofs = 1
  MaxLives = 2
  Requests = {"r1", "r2"}
  Prompts <- MCPrompts
  LiveAnswers <- MCLiveAnswers
  MaxCommits = 3
  Payments = {"p1", "p2"}
  Offers <- MCOffers
  Rechecks <- MCRechecks
  MerchantEvents <- MCMerchantEvents
  Claims <- MCClaims
  MaxOrders = 3
  Webs <- MCWebs
  Queries <- MCQueries
  CartPrompts <- MCCartPrompts
  PriceLimits = {0, 25000}
  TrustedDomains = {"openfoodfacts.org", "cafeacme.local"}
  c1 = c1
  c2 = c2
  Shops = {"s1"}
  ApiKeys <- MCApiKeys
  Grants <- MCGrants
  Calls = {c1, c2}
  CategoryLimits <- MCCategoryLimits
  Window = 2
  MaxTime = 2
  MaxVersion = 2
SYMMETRY CallSymmetry
INVARIANTS
  CommitOnce
  DailyLimitPerLife
  OrdersAccounted
  AnswersAreBest
  CallsAreLimited
  ServedToHolder
  AcceptedPolicyServed
CHECK_DEADLOCK FALSE
