SPECIFICATION MCSpec
CONSTANTS
  Clients = {d1, d2}
  Documents = {sitemap}
  Entries = Entries
  NoDoc = NoDoc
  CacheEnabled = TRUE
  TTL = 2
  Timeout = 1
  MaxTime = 5
  MaxChanges = 2
  Bytes = {"<", "a", "r"}
  Needle <- MCNeedle
  Nonce = "nonce"
  MaxPage = 5
  Hosts = {"site", "www"}
  LocalHost = "localhost"
  Stranger = "stranger"
  MaxVisits = 1
  Browsers = {b1, b2}
  Tracking = {"analytics"}
  MaxChoices = 5
  HistoryLimit = 3
  HistoryMaxChars = 4
  WrittenValues <- MCWritten
  Buttons <- MCButtons
  MaxTyped = 2
  Texts <- MCTexts
  Drafts <- MCDrafts
  Sources <- MCSources
  MaxLines = 4
  MaxText = 7
  Headers <- MCHeaders
  Rooms = {1, 3}
  MaxResolves = 1
  Picks <- MCPicks
  AcceptSets <- MCAcceptSets
  Limits <- MCLimits
  MaxJobs = 2
  Langs = {"it", "en"}
  DefaultLang = "it"
  Places = {"home", "about"}
  Dated = {"about"}
  Described = {"about"}
  Imageless = {"about"}
  SiteDescribed = {"it"}
  HasHandle = TRUE
  Parts = {"header"}
  MaxTrips = 1
  MaxSignIns = 1
INVARIANTS DocumentsSafe PageFlows RedirectsAreServed ConsentSafe MenusSafe UploadsSafe PageSafe
PROPERTIES NeverBackwards HistorySafe TextSafe
CHECK_DEADLOCK FALSE
