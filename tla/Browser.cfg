\* A browser with two tabs, and its ticket, its orders page and its pages of money.
CONSTANTS
  Tabs = {1, 2}
  Trader = 1
  Forms <- MCForms
  Logins <- MCLogins
  Lower <- MCLower
  Passwords = {"p", "q"}
  MaxTokens = 2
  MaxVisits = 4
  MaxLapses = 2
  None = None
  Sizes = {1, 2}
  Rows <- MCRows
  MaxOrders = 3
  MaxPolls = 2
  MaxClicks = 3
  MaxFaults = 2
  Unloaded = Unloaded
  Symbols = {"A"}
  Histories <- MCHistories
  Quotes = {5}
  MaxQuotes = 1
  Newest = 1
  MaxFetches = 2
  MaxNotified = 2
  MaxDeposits = 1
  MaxGlitches = 1
  NotRead = NotRead
SPECIFICATION FairSpec
INVARIANTS
  BuysOnce
  GainsExplained
PROPERTIES
  OwnersGetIn
  EndIsNoticed
  PageSettles
  PagesCatchUp
CHECK_DEADLOCK FALSE
