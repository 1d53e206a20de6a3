SPECIFICATION Spec
CONSTANTS
  Calls = {c1, c2, c3}
  Payloads = {p1, p2}
  MaxRetries = 2
  NoCall = NoCall
  Tables = {x1, x2}
  BookingRequests = {q1}
  Bookings = {y1, y2}
  Starts = {1, 2}
  Ends = {2, 3}
  MinDuration = 1
  MaxDuration = 2
  CheckInEarly = 1
  Grace = 1
  MaxTime = 4
  MaxRevision = 1
  MaxEdits = 2
  Items = {i1}
  Stocktakes = {x1, x2}
  Receipts = {d1}
  Quantities = {1, 2}
  MaxStock = 2
  MaxMoves = 2
  Families = {x1, x2}
  MaxSessions = 2
  MaxCredentials = 2
  MaxTokens = 2
  People = {o, x1, x2}
  Founder = o
  CustomRoles = {r1}
  Positions = {p1, p2}
  MaxRolesEach = 1
  Cups = {x1, x2}
  CodeTTL = 2
  MaxPickupCodeVersion = 3
  Ratings = {2, 5}
  Resolutions = {"refunded", "remade"}
  MaxHours = 4
  Drinks = {x1, x2}
  Remakes = {k1, k2}
  Chats = {c1}
  Employees = {x1, x2}
  Categories = {w1, w2}
  MenuItems = {y1, y2}
  Pictures = {z1, z2}
  Configurations = {1, 2}
  MaxProcessing = 2
  MaxRemovals = 2
  None = None
  Devices = {x1, x2}
  NoDevice = NoDevice
  MaxAttempts = 2
  MaxJobs = 3
  MaxLines = 2
  MaxClaims = 2
  Insights = {y1, y2}
  Periods = {w1, w2}
  Workers = {x1, x2}
  Figures = {0, 1}
  Empty = 0
  DailyLimit = 2
  Attempts = 2
  Assets = {i1}
  Managers = {x1, x2}
  Amounts = {1, 2}
  MaxTotal = 2
  MaxWrites = 3
  Settings = {"open", "greeting"}
  SystemOwned = {"open"}
  Administrators = {x1, x2}
  SettingValues <- SomeValues
  MaxVersion = 3
  Promotions = {y1, y2}
  Names = {w1, w2}
  Cashiers = {c1}
  Bills = {z1, z2}
  Terms <- SomeTerms
  Windows <- SomeWindows
  SubTotals = {1, 3}
  TaxRates = {10}
  MaxDay = 1
  MaxSaves = 3
  Sales = {y1, y2}
  Price = 2
  MaxDate = 2
  Stations = {x1, x2}
  Dishes = {w1, w2}
  Preparations = {1}
  Portions = {2}
  Pickups = {0, 2}
  MaxClock = 2
  MaxOrdered = 2
INVARIANTS
  EffectOncePerKey BookingsHonoured StockAccounted SessionsEntitled AccessSound
  CustomerIsTold MenuSound PaperIsAccounted KitchenInformed InsightsTrue RecordsTrue
PROPERTY NothingSilentlyUndone
SYMMETRY Symmetry
CONSTRAINT Bounds
CHECK_DEADLOCK FALSE
