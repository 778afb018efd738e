\* Outbound limits: rate, cooldowns and duplicates, with one failure and fixed settings. The
\* third action in a row needs a refill: too late at instant 3, in time at 4.
SPECIFICATION Spec
CONSTANTS
    m1 = m1  m2 = m2  m3 = m3  m4 = m4  m5 = m5
    u1 = u1  u2 = u2  c1 = c1  c2 = c2  c3 = c3  g1 = g1  g2 = g2  dm = dm
    MsgIds = {m1, m2, m3}
    Users = {u1, u2}  Channels = {c1, c2}  Guilds = {g1}  NoGuild = dm
    Context <- MCSpreadContext
    DuplicateTtl = 2  DuplicateCap = 3  MinDuplicateCap = 1
    Burst = 2  RefillPerTick = 2  TokenUnit = 7
    UserTtl = 2  ChannelTtl = 1  GuildTtl = 2  GlobalTtl = 1
    BreakerWindow = 1  BreakerThreshold = 1  BreakerOpenFor = 1
    SandboxWindow = 1  SandboxThreshold = 1
    ActionPolicy = "ReactOnly"  MaxCountCap = 2  ReactionValid = TRUE
    TemplateRenders = TRUE  Sendable = {"SendPhrase", "SendTemplate"}
    LowWatermark = 1  BudgetValues = {5}  MaxActions = 1
    AccessLists <- MCNoLists
    Overrides <- MCNoOverride  KillSettings = {FALSE}
    SendCounts = {2}  Totals = {2}
    MaxTime = 4  MaxFailures = 1
INVARIANTS TypeOK RateBound CooldownSpacing AnsweredOnce
PROPERTIES ImplementsPolicy
VIEW CoreView
