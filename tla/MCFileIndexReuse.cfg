SPECIFICATION FilesSpec
CONSTANTS
    home = home
    docs = docs
    note = note
    draft = draft
    Files = {note, draft}
    Scopes = {home, docs}
    Indexers = {i1, i2}
    Within <- MCWithin
    Metas = {m1, m2}
    Missing = Missing
    MaxGeneration = 3
    MaxRefreshes = 3
    MaxEdits = 1
PROPERTIES
    CompleteScanIsExact
CHECK_DEADLOCK FALSE
