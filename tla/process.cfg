\* Three deliveries of two messages over two processes, killed wherever they are.
SPECIFICATION BotSpec
CONSTANTS
    m1 = m1  m2 = m2  d1 = d1  d2 = d2  d3 = d3  u1 = u1  u2 = u2  c1 = c1  g1 = g1  dm = dm
    Deliveries = {d1, d2, d3}  AuditOpens = {TRUE}  MaxStarts = 2
    MsgIds = {m1, m2}
    Users = {u1, u2}  Channels = {c1}  Guilds = {g1}  NoGuild = dm
    Context <- MCContext
    DuplicateTtl = 1  DuplicateCap = 2  MinDuplicateCap = 1
    Burst = 1  RefillPerTick = 1  TokenUnit = 1
    UserTtl = 0  ChannelTtl = 0  GuildTtl = 0  GlobalTtl = 0
    BreakerWindow = 1  BreakerThreshold = 1  BreakerOpenFor = 1
    SandboxWindow = 1  SandboxThreshold = 9
    ActionPolicy = "ReactOrSend"  MaxCountCap = 1  ReactionValid = TRUE
    TemplateRenders = TRUE  Sendable = {"SendPhrase"}
    LowWatermark = 1  BudgetValues = {1, 2}  MaxActions = 1
    AccessLists <- MCNoLists
    Overrides <- MCNoOverride  KillSettings = {FALSE}
    SendCounts = {1}  Totals = {1}
    MaxTime = 1  MaxFailures = 0
INVARIANTS BotTypeOK PostedRate RepeatsNeedRestarts DecisionsPrecedeRequests LowBudgetLasts
VIEW BotView
SYMMETRY DeliverySymmetry
CHECK_DEADLOCK FALSE
