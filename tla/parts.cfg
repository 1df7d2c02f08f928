SPECIFICATION Spec
CONSTANTS
    Doc = {d1, d2}
    Saved = saved
    Text <- Texts
    MaxChars = 5
    MaxLineChars = 5
    MaxOutput = 8
    Number = 1
    Note = 2
    MaxEdits = 1
    Personal <- TheUser
    Group <- TheGroup
    Tmp <- TheTmp
    Sigils <- SigilNames
    Trees <- TreeSet
    Selections <- SelectionSet
    Lower <- LowerOf
    Builds <- BuildNames
    Vision <- VisionExts
    Tabular <- TabularExts
    Rank <- RankOf
    Spellings <- SpellingSet
    u1 = u1
    u2 = u2
    c1 = c1
    c2 = c2
    Caller = {c1, c2}
    Url <- UrlSet
    Links <- LinksFrom
    Written <- WrittenSet
    MaxPages = 1
    MaxDownloads = 3
    Upload <- Upload2
    Sent <- FileSet
    Order <- NameOrder
    MaxWorkers = 1
    MaxPools = 4
    Row = {"r1", "r2"}
    Placed <- Homes
    Store = {"own", "group", "other"}
    Searched = {"own", "group"}
    Stem = {"a", "b"}
    Scopes <- HiddenScopes
    Content <- FoundContent
    Model = {"m1", "m2"}
    Queries = 2
    MaxResults = 2
    Damping = 60
    MaxBoots = 3
    MaxIndexes = 2
    MaxMoves = 1
    MaxSearches = 1
    Request = {1, 2}
    SigningKey = {"k1", "k2"}
    FirstKeys = {"k1"}
    Token <- Tokens
    AdminRole = "admin"
    WriteSuffix = "write"
    DefaultWrite = TRUE
    Usable = {"g", "h"}
    KnownUsers = {"bob"}
    Ttl = 2
    MinInterval = 1
    MaxTime = 3
    MaxRotations = 1
    MaxToggles = 2
    Entry = {"e"}
    Conversation = {"c"}
    Writer = {"w1", "w2"}
    Edit <- Edits
    MaxPassages = 1
    Target = {"t"}
    Body = {"x", "y"}
    Leg = {1, 2, 3}
    Offered <- ConfirmedCalls
    MaxWrites = 2
    t1 = t1
    t2 = t2
    TableFile = {t1, t2}
    Files <- TableFiles
    Batch <- Batches
    Dtypes <- DtypeOrder
    Numeric = {"Int64", "Float64"}
    Parses <- ParsesAs
    Padded = {"007"}
    Blank = ""
    Query <- Queried
    HeaderScan = 3
    PreviewRows = 1
    MaxNamed = 1
    ImageCap = 2
    PdfPages = 2
    Frames = 4
    Ingestible = {"image/png"}
    Attachments <- Prompts
    Asked <- AskedFor
    MaxMessages = 3
    FileName <- FileNames
    Host <- Hosts
    MaxVersions = 2
    Context = 10
    Outputs = {1, 3}
    SummaryTokens = 1
    PromptReserve = 1
    MaxAttempts = 3
    Prompted = {1, 7}
    Returned = {1, 5}
    MaxHistory = 16
    Where <- Wheres
    Label = {"x"}
    Shelves <- Shelved
    MaxCommits = 2
INVARIANTS
    ReadThrough
    DocumentsShown
    DownloadedOnce
    UploadsLand
    SearchHonest
    AccessRight
    
    LandedAsShown
    
    PicturesShown
    
    SummariesClose
    ListsWhatStays
CHECK_DEADLOCK FALSE
