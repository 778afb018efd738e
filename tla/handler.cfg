\* Two deliveries, of one message or of two, and every interleaving of their tasks.
SPECIFICATION HandlerSpec
CONSTANTS
    m1 = m1  m2 = m2  m3 = m3  d1 = d1  d2 = d2  d3 = d3  u1 = u1  u2 = u2  c1 = c1  g1 = g1
    Deliveries = {d1, d2}  AuditOpens = {TRUE, FALSE}
    MsgIds = {m1, m2, m3}
    Users = {u1, u2}  Channels = {c1}  Guilds = {g1}  NoGuild = "none"
    Context <- MCContext
    DuplicateTtl = 0  DuplicateCap = 0  MinDuplicateCap = 4
    Burst = 3  RefillPerTick = 1  TokenUnit = 1
    UserTtl = 0  ChannelTtl = 0  GuildTtl = 0  GlobalTtl = 0
    BreakerWindow = 1  BreakerThreshold = 1  BreakerOpenFor = 1
    SandboxWindow = 1  SandboxThreshold = 9
    ActionPolicy = "ReactOnly"  MaxCountCap = 1  ReactionValid = TRUE
    TemplateRenders = TRUE  Sendable = {"SendPhrase"}
    LowWatermark = 0  BudgetValues = {1}  MaxActions = 1
    AccessLists <- MCNoLists
    Overrides <- MCNoOverride  KillSettings = {FALSE}
    SendCounts = {1}  Totals = {1}
    MaxTime = 2  MaxFailures = 4
INVARIANTS HandlerTypeOK NoFailureLost SentRowsAreTrue
PROPERTIES OpenBreakerDrains DeliveriesSettle
CHECK_DEADLOCK FALSE
