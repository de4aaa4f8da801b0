SPECIFICATION Spec
CONSTANTS
  None = None
  r1 = r1
  r2 = r2
  r3 = r3
  goal = goal
  category = category
  unlisted = unlisted
  price = price
  visit = visit
  purchase = purchase
  Requests <- MCRequests
  Codes <- MCCodes
  Catalogue <- MCCatalogue
  Goals <- MCGoals
  Prices <- MCPrices
  Extracted <- MCExtracted
  Events <- MCEvents
  Reports <- MCReports
  Full = 3
  UpdateCap <- MCUpdateCap
SYMMETRY Symmetry
INVARIANTS VersionsSerial SnapshotFaithful LearnedOnce RunBracketed
PROPERTIES ExplicitWins
CHECK_DEADLOCK FALSE
