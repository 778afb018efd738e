\* Modes, breaker and failures under every setting, with no cooldown.
SPECIFICATION Spec
CONSTANTS
    m1 = m1  m2 = m2  m3 = m3  m4 = m4  m5 = m5
    u1 = u1  u2 = u2  c1 = c1  c2 = c2  c3 = c3  g1 = g1  g2 = g2  dm = dm
    MsgIds = {m1, m2, m4, m5}
    Users = {u1}  Channels = {c1, c3}  Guilds = {g1, g2}  NoGuild = dm
    Context <- MCMixedContext
    DuplicateTtl = 0  DuplicateCap = 0  MinDuplicateCap = 4
    Burst = 1  RefillPerTick = 1  TokenUnit = 4
    UserTtl = 0  ChannelTtl = 0  GuildTtl = 0  GlobalTtl = 0
    BreakerWindow = 1  BreakerThreshold = 2  BreakerOpenFor = 1
    SandboxWindow = 2  SandboxThreshold = 2
    ActionPolicy = "ReactOrSend"  MaxCountCap = 2  ReactionValid = TRUE
    TemplateRenders = TRUE  Sendable = {"SendPhrase"}
    LowWatermark = 0  BudgetValues = {1, 2}  MaxActions = 1
    AccessLists <- MCSomeLists
    Overrides <- MCOverrides  KillSettings = {TRUE, FALSE}
    SendCounts = {2}  Totals = {1}
    MaxTime = 3  MaxFailures = 3
INVARIANTS BreakerMatchesHistory
PROPERTIES TransitionsJustified OutboundIsProtected
VIEW CoreView
