SPECIFICATION MCSpec
CONSTANTS
  Names <- MCNames
  Slug <- MCSlug
  Pascal <- MCPascal
  Checks = {lint, tsc}
  MaxLaunches = 2
  MaxEdits = 1
  SiteLangs <- MCLangs
  MainLang = "it"
  Segments <- MCSegments
  PageTypes = {"A", "B", "C", "D", "P", "X"}
  Declarations <- MCDeclarations
  Settings <- MCSettings
  ParamSegs = {":x", ":y"}
  Catalog <- MCCatalog
  MaxFlattened = 2
  Drafts <- MCDrafts
  MaxPages = 4
  NavItems <- MCNavItems
  Registered = {"home"}
  Identities <- MCIdentities
  NavDepthMax = 2
  MaxItems = 4
  Brands <- MCBrands
  Patches <- MCPatches
  RoleSets <- MCRoleSets
  MaxPatches = 2
  Clients = {d1, d2}
  Documents = {sitemap}
  Entries = Entries
  NoDoc = NoDoc
  CacheEnabled = TRUE
  TTL = 2
  Timeout = 1
  MaxTime = 4
  MaxChanges = 1
  t1 = t1
  Everyone = Everyone
  Nothing = Nothing
  Groups = {}
  Tabs = {t1}
  GroupOf <- OneTab
  Messages = {m1, m2}
  Conns = {c1}
  BufferSize = 1
  HistoryCapacity = 1
  ListMax = 1
  MaxCrashes = 1
  MaxCalls = 1
INVARIANTS SiteSafe NavSafe DesignSafe NoGapWhileConnected
PROPERTIES SetupSafe StreamsServe DocumentsAnswered
CHECK_DEADLOCK FALSE
