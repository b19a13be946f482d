CONSTANTS
  k1 = k1
  k2 = k2
  k3 = k3
  p1 = p1
  p2 = p2
  a1 = a1
  a2 = a2
  z1 = z1
  x1 = x1
  x2 = x2
  Parts <- AllParts
  Ids = {i1}
  Clients = {p1, p2}
  NoRow = nobody
  MaxRowWrites = 3
  Tasks = {root, task}
  Root = root
  NoSession = noSession
  MaxScopes = 2
  MaxWrites = 1
  Callers = {p1, p2}
  MaxUploads = 2
  MaxCalls = 2
  Apps = {p1}
  Channels = {b1, b2}
  MaxVersion = 3
  MaxApplies = 2
  Procs = {p1, p2}
  Keys = {k1, k2}
  Watched <- WatchedKeys
  MaxFileTime = 2
  MaxFileWrites = 2
  Names = {k1, k2}
  MaxClock = 3
  MaxSecrets = 3
  TTL = 1
  Limiters = {p1}
  SharedCache = TRUE
  MayLose = TRUE
  WindowTypes = {"bucket", "window"}
  Capacity = 2
  Rate = 1
  Costs = {1, 2}
  MaxTime = 3
  MaxSpent = 6
  Threshold = 3
  MaxRetries = 1
  Scripts <- Canned
  CacheKeys = {k1, k2, k3}
  MaxSize = 2
  CacheTTLs = {0, 1}
  MaxCacheTime = 1
  MaxDepth = 1
  Delegates = {d1}
  ResourceTypes = {y1}
  Actions = {a1, a2}
  GrantTTLs = {1}
  MaxRecords = 2
  MaxGrantTime = 2
  Principals = {p1, p2}
  RoleActions <- RoleTable
  Delegating = {x1}
  NoRole = nobody
  Tenants = {tenant}
  Tokens <- Signed
  NoToken <- Unsigned
  Grace = 2
  MockTerm = 3
  MaxLicenceTime = 8
  DefaultSettings <- DefaultTree
  SettingFiles <- FileTrees
  Environments <- Variables
  ValidSettings <- EnvIsText
  FlagKeys = {k1}
  FlagDefault = TRUE
  Locales = {k1, k2}
  Fallback = k1
  TextSets <- Texts
  MaxLoads = 3
  States = {a1, a2, z1}
  Initial = a1
  Handled = {a1, a2}
  MoveRules <- Cycle
  MaxIter = 2
  Strategies = {"stop", "rollback", "retry"}
  NoState = noState
  MaxRuns = 2
  Global = global
  MaxSpans = 2
  Modules = {p1, p2}
  ListedModules = {p1}
  Permissive = FALSE
  CatalogKeys = {k1, k2}
  Packages = {a1}
  DefaultPackages = {a2}
  ModuleVersions = {1, 2, 3}
  Classless = {3}
  ClassKeys <- SpelledLike
  MaxListed = 1
  MaxEntries = 2
  Errors = {"RateLimitError", "ExceptionGroup"}
  Bindings <- Bound
  MaxCallDepth = 2
  MaxReports = 1
  MaxRaised = 1
  MaxLoggers = 2
SPECIFICATION Spec
CHECK_DEADLOCK FALSE
INVARIANTS TypesOK KeepsNewest VersionsIdentify UploadedIsServed KeepsLastGood DoubleLogIsPath ReportsAreTrue
PROPERTIES CommitsItsOwn RestoresLatest BoundedStaleness GrantsExpire LimitsHold
