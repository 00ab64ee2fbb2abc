SPECIFICATION Spec
CONSTANTS
  Providers <- MCProviders
  Quota <- MCQuota
  CreditId = "credits"
  Balances = {80}
  RefreshAfter = 1
  StaleAfter = 3
  Retention = 700
  MaxPerSeries = 2
  Steps = {1, 19, 660}
  Usages = {{}, {"chatgpt", "claude"}}
  MaxTicks = 2
  MaxPolls = 3
  MaxMishaps = 1
INVARIANTS
  RatesAreReal
  OffersAreReal
  ViewsAgree
  CreditBalanceNeverDecides
  
CHECK_DEADLOCK FALSE
