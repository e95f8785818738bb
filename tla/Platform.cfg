SPECIFICATION Spec
CONSTANTS
  Agents = {a1}
  Requests = {r1, r2}
  Configs = {"bare", "full"}
  Complete = {"full"}
  Keys = {"k"}
  MaxVersion = 2
  Pulls = {"p", "q"}
  SyncTexts = {"s", "t"}
  TextOf <- PullText
  MaxTasks = 2
  MaxRequests = 1
  MaxFaults = 1
  MaxFailures = 1
  Sources = {1, 2, 3}
  Bases = {"b1", "b2"}
  BaseOf <- SourceBase
  Texts <- SourceTexts
  Limit = 2
  MinRank = 2
  Floor = 4
  Budget = 3
  Records = {1, 2, 3, 4, 5}
  PageSize = 2
  MaxPages = 3
  MaxRecords = 3
  MaxLength = 4
  Processes = {"w1", "w2"}
  MaxLimit = 2
  MaxWindow = 1
  MaxOutages = 1
  MaxChanges = 1
  Messages = {m1, m2}
  Conversations = {c1, c2, c3}
  MaxEnds = 1
  Sends = {s1}
  Webhooks = {h1, h2}
  MaxReceipts = 4
  MaxMoves = 1
  Calls = {k1, k2}
  Arguments = {"x", "y"}
  MaxEntries = 1
  MaxRetries = 1
  MaxTtl = 1
  MaxTime = 2
  MaxToolVersion = 1
  Old = {o1, o2}
  MaxAttempts = 2
  MaxDeltas = 2
  Convs = {"web", "preview"}
  ChannelOf <- OwnChannel
  MaxDay = 1
  MaxTurns = 2
  MaxFailed = 2
  MaxSpan = 2
  Recent = 1
  Tenants = {"a", "b"}
  Home = "a"
  Wamids = {1, 2, 3, 4, 5}
  Contacts = {"x", "y"}
  Bodies <- Payloads
  MaxPosts = 2
INVARIANTS
  TypeOK UndisturbedSyncsAreExact ReadyHasText RetrievalIsSound PullIsSound
  AllowanceHolds  LogIsConsistent
  DeliveriesAreSafe ToolCallsAreSound EarlierPairsEnd AnswersAreWhole  
PROPERTIES
  HistoryIsFaithful NoEditIsLost ServesTheLiving StampsStay EveryRequestEnds
  ScheduledIsPulled
