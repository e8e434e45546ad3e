SPECIFICATION RequestSpec
CONSTANTS
  Clients = {"notify", "intake"}
  Lifetime = 5
  Skew = 2
  MaxLag = 1
  MaxClock = 8
  MaxTokens = 3
  W = 4
  Networks <- InternalNetworks
  CidrAllowed = {"internal", "external"}
  Expanded = {"internal", "external"}
  PerField = 6
  Product = 6
  Today = 3
  MaxRange = 2
  MaxRows = 3
  TitleLimit = 5
  MaxBytes = 9
  Null = Null
  DefaultLimit = 1
  MaxLimit = 2
  FileRequests = {}
  Reports <- ShippedReports
  Databases = {}
  Filters <- AllFilters
  Walks = {}
  Texts = {}
INVARIANT ResultsAnswered
CHECK_DEADLOCK FALSE
