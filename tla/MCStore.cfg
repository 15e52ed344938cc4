CONSTANTS
    Scenes = {"matrix", "names", "images", "accounts", "builder", "advisor", "chat", "shop", "feed", "swatches", "tools", "signals", "list"}
    s1 = s1
    s2 = s2
    r1 = r1
    d1 = d1
    n1 = n1
    n2 = n2
    n3 = n3
    n4 = n4
    g1 = g1
    g2 = g2
    g3 = g3
    c1 = c1
    c2 = c2
    red = red
    blue = blue
    linen = linen
    tall = tall
    Tab = {"t1", "t2"}
    Value = {s1, s2, r1, d1}
    AttributeOf <- MCAttributeOf
    Axes <- MCAxes
    Unborn = {s2}
    MaxVariants = 2
    MaxAxes = 2
    MaxIds = 4
    MaxEdits = 3
    Clerk = {"t1", "t2"}
    Name = {n1, n2, n3, n4}
    WordsOf <- MCWordsOf
    Fallback = "fallback"
    Reserved = {"sort"}
    Long = "long"
    RawProposal <- MCRawProposal
    MaxProposed = 2
    MaxValues = 2
    Room = 3
    MaxFiled = 4
    MaxWrites = 3
    Typed = {n1, n2}
    NoKey = NoKey
    ImageTab = {"t1", "t2"}
    MaxImages = 2
    MaxAssets = 4
    MaxShots = 3
    MaxFaults = 1
    Client = {"c1", "c2"}
    Address = {"omar", "Omar"}
    Canonical = "omar"
    MaxUsers = 3
    MaxCodes = 2
    MaxTokens = 3
    MaxRequests = 3
    Window = {"w1", "w2"}
    Slug = {"a", "b"}
    MaxThemes = 3
    MaxLogos = 3
    MaxVisits = 3
    MaxCuts = 1
    Advice = {"restock"}
    Instance = {"i1", "i2"}
    Owner = "owner"
    MaxDays = 2
    RestDays = 2
    MaxManual = 1
    MaxDecisions = 1
    MaxFailed = 1
    ChatTurn = {"t1", "t2"}
    Shopper = {"u1"}
    Nobody = "nobody"
    RateLimit = 1
    Cap = 2
    MaxTurns = 2
    MaxCut = 1
    Good = {g1, g2, g3}
    Shelf = {c1, c2}
    Facet = {"shade", "fabric", "length"}
    AxisFacet = {"shade"}
    Choice = {red, blue, linen, tall}
    Picks <- MCPicks
    MaxFilterFacets = 2
    MaxFilterValues = 2
    FacetOf <- MCFacetOf
    Stocked <- MCStocked
    TopPrice = 9
    PriceBand <- PriceBands
    Word = {"mug"}
    NoFilter = NoFilter
    MaxShopEdits = 2
    Phrase = {"a", "b"}
    MaxRows = 3
    MaxGroups = 2
    MaxAnswers = 4
    MaxNights = 2
    MaxReviews = 2
    Painter = {"p1", "p2"}
    Tint = {"v1", "v2"}
    FirstTints = {"v1"}
    MaxStrokes = 3
    Ware = {"w1", "w2"}
    Entry = {"e1"}
    Receipt = {"o1"}
    MaxRounds = 2
    CardLimit = 1
    MaxCalls = 2
    MaxHides = 1
    Sku = {1, 2, 3}
    Article = {1, 2}
    ArticleOf <- MCArticleOf
    PriceOf <- MCPriceOf
    WordyArticle = {2}
    Theme = {1, 2}
    WordyTheme = {2}
    RecentDays = 7
    BaselineDays = 28
    CoverageDays = 14
    LeadDays = 7
    OverTarget = {9, 18, 29, 36, 58}
    UnderCover = {29, 58}
    SlowDays = 45
    MinUnits = 5
    MinRatio = 2
    MinTiedUp = 3
    MinAsked = 1
    Places = 3
    Opening <- MCOpening
    Occurs <- MCOccurs
    LookaheadDays = 3
    YearDays = 8
    Summer <- MCSummer
    Clock <- MCClock
    Forecasts <- MCForecasts
    MaxDisturbances = 1
    Faq = {1, 2, 3, 4}
    FirstFaqs = {1, 2, 3}
    Editor = {"t1", "t2"}
    MaxFaqs = 4
    MaxErrands = 3
    MaxBroken = 1

SPECIFICATION StoreSpec

INVARIANTS
    ProposalsApplyOnce
    AssetsMatchRows
    SignedInMeansVerified
    GoogleKeepsToOneAccount
    LiveStoreIsComplete
    OneMailADay
    EveryWindowEnds
    AReviewTakesTheWholeTheme
    RecordedAsTheToolsDid
    BriefsAddUp
    EventsKeepTheirDate
    ArrangedOrderHolds

PROPERTIES
    OnlyOvertakenEditsBreakTheMatrix
    OneRivalIsSurvived
    CapIsPassedOnlyByOvertakenCounts
    ServesOnce
    OnlyOvertakenSavesGoBack
    HandledAdviceRests
    OnlyOvertakenTurnsUnbind
    ModelIsAskedWithinTheCap
    UndisturbedEditsKeepThePair
    CountsAreWhatAClickLists

\* A scene is over when it has used up its bounds.
CHECK_DEADLOCK FALSE
