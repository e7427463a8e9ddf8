\* The services around the feed, each on a small instance of its own.
SPECIFICATION MCSpec
CONSTANTS
    Candidates = {c1}
    Voters = {v1, v2}
    Quorum = 2
    MinLikes = 2
    PostMemes = {m1, m2}
    Uploader = u1
    Sharer = u1
    NoAuthor = NoAuthor
    Author <- TheUploader
    Slots = {s1, s2}
    Clicks = {k1, k2}
    Places = 2
    SlotRetries = 1
    WeeklyRetries = 1
    InsertAttempts = 2
    LastDay = 2
    r2 = r2
    w2 = w2
    Recipients = {r1, r2}
    PushMemes = {w1, w2}
    Pushes = {p1, p2}
    NoPushMeme = NoPushMeme
    PushRetries = 1
    Langs = {en, ru}
    English = en
    Sharers = {h1, h2}
    NoSharer = NoSharer
    Updates = {e1, e2}
    NoUpdate = NoUpdate
    a1 = a1
    a2 = a2
    Accounts = {a1, a2}
    KeyAccount <- TheKeys
    Full = 2
    Guard = 1
    Models = 1
    Images = {g1, g2}
    Uploads = {g2}
    Describes = {d1}
    RunSize = 1
    b1 = b1
    b2 = b2
    b3 = b3
    BatchMemes = {b1, b2, b3}
    Facts <- TheFacts
    BatchLimit = 2
    SentCounts = {0, 9, 16, 100}
    SessionsGate = TRUE
    GuardFirst = TRUE
    q1 = q1
    t1 = t1
    t2 = t2
    DbCalls = {q1, q2}
    DbRows = {t1, t2}
    RowOrder <- TheOrder
    s1 = s1
    s2 = s2
    f1 = f1
    Fans = {f1}
    CountedMemes = {1, 2, 3}
    NoOriginal = NoOriginal
    SourceOf <- TheSources
    Tallies = {y1}
    Lookback = 3
    Changes = 2
    n1 = n1
    z1 = z1
    t3 = t3
    Channels = {n1}
    ChannelPost = {o1}
    PostedIn <- ThePlaces
    SourcePosts = {z1}
    Collectors = {t3, t4}
    CollectorRetries = 1
    MaxViews = 2
\* The services' flows end.
CHECK_DEADLOCK FALSE
INVARIANTS
    TypesOK
    VotesDecide
    PassedIsComplete
    NoSecondPost
    PaidOnce
    PrizesPaid
    AlbumOnce
    BroadcastOnce
    RepeatsAreRaces
    InvitedByTheFirstStart
    BlockedMarkIsTrue
    BudgetsHold
    BatchKeepsRules
    WritesWhole
    StatsCatchUp
    TasteHasGrounds
PROPERTIES
    StartLeavesALanguage
    DescriptionsLast
    FiguresGrow
