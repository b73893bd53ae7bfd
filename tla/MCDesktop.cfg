SPECIFICATION DesktopSpec
CONSTANTS
    home = home
    docs = docs
    note = note
    draft = draft
    Files = {note, draft}
    Scopes = {home, docs}
    Indexers = {i1, i2}
    Within <- MCWithin
    Metas = {m1}
    Missing = Missing
    MaxGeneration = 3
    MaxRefreshes = 3
    MaxEdits = 1
    Text = {text}
    Rich = {image}
    Uncapturable = {unreadable}
    RemoteValues = {image}
    Launchers = {l1, l2}
    Session = session
    Nobody = Nobody
    Nothing = Nothing
    MaxLaunches = 2
    MaxCopies = 1
    MaxRemote = 1
    MaxUser = 1
    MaxCrashes = 1
    Queries = {"", "e", "5 eur", "5.0 eur", "7 usd", "2+2", "gh"}
    Empty = ""
    Money <- MCMoney
    Calculated = {"2+2"}
    Keyword <- MCKeyword
    Rest <- MCRest
    Prefixed <- MCPrefixed
    Fuzzy <- MCFuzzy
    Base <- MCBase
    Apps = {"editor"}
    Tools = {"tool"}
    Clips <- MCClips
    EmojiOrder <- MCEmojiOrder
    EmojiTiers <- MCEmojiTiers
    SymbolOrder <- MCSymbolOrder
    SymbolsFor <- MCSymbolsFor
    Frequent <- MCFrequent
    Groups <- MCGroups
    GroupOf <- MCGroupOf
    Columns = 2
    None = None
    MaxAsked = 2
    Packages = {"first", "other", "next"}
    Versions = {"1.0", "2.0"}
    VersionOf <- MCVersionOf
    Pids = {p1, p2}
    Absent = Absent
    MaxRuns = 3
    MaxFaults = 1
    Chars = {"a", "smile"}
    Utf8 <- MCUtf8
    Utf16 <- MCUtf16
    Pieces <- MCPieces
    Placeholder <- MCPlaceholder
    MaxText = 2
    MaxUnits = 2
    NoRange = NoRange
    Items = {app}
    Aliases = {alias}
    Writers = {palette, cli}
    PaletteProcess = palette
    NoAlias = NoAlias
    NoPreferences = NoPreferences
    NoBytes = NoBytes
    Torn = Torn
    MaxFrequency = 1
    MaxChanges = 4
    ToolIds = {t1, t2}
    ToolKeywords = {keyword}
    Texts = {"x", "y"}
    NoKeyword = NoKeyword
    NoTool = NoTool
    MaxToolChanges = 3
    PeerIds = {peer}
    Undecided = Undecided
    MaxPairings = 2
    MaxOutside = 1
    BlobSize = 3
    ChunkSize = 2
    Fetchers = {s1, s2}
    NoFile = NoFile
    Wrong = Wrong
    MaxBlobFaults = 2
    Around = {here, friend, old}
    Here = here
    Foreign = {old}
    Addresses = {a1, a2}
    Gone = Gone
    Silent = Silent
    MaxMoves = 2
    MaxReports = 2
    Streams <- MCStreams
    Numbers = {"1", "2"}
    Unaries = {"sqrt"}
    Lists = {"max"}
    Operators = {"+", "-", "%", "^"}
    PlatformNames = {"linux", "macos"}
    Roots = 2
    FileNames <- MCFileNames
    Installed <- MCInstalled
    Contents <- MCContents
    StemOf <- MCStemOf
    Rank <- MCRank
    IconRoots <- MCIconRoots
    IconPaths = {}
    Commands <- MCCommands
    NoEntry = NoEntry
    Unreadable = Unreadable
    NoValue = NoValue
    MaxPackageChanges = 1
    Pairs = {k1, k2}
    Converters = {c1, c2}
    FreshFor = 0
    MaxClock = 1
    MaxConversions = 3
    NoRate = NoRate
    NativeValues <- MCNativeValues
    RichValues <- MCRichValues
    InlineBytes = 3
    DecodedBytes = 3
    FilesWritable = TRUE
    Invalid = Invalid
INVARIANTS
    DesktopTypeOK
    SearchTableMatchesRows
    Restorable
    SelectionInRange
    PublishedIsServable
    InstalledIsVerified
    TypingNeverPanics
    PreferencesAreWhole
    ToolsFoundOnce
    FragmentsDoNotMatter
    UnderstoodAsMeant
    CatalogueIsRight
    ContentSurvives
PROPERTIES
    OnlyCompleteScansRemove
    FreshScanIsExact
    FocusedLaunchBringsWatcher
    ShownIsCurrent
    FocusedLoadingEnds
    FocusedPairingEnds
    FocusedBlobArrives
    FocusedPresentIsListed
    NoRateForgotten
CHECK_DEADLOCK FALSE
