SPECIFICATION TextFieldSpec
CONSTANTS
    Chars = {"a", "smile"}
    Utf8 <- MCUtf8
    Utf16 <- MCUtf16
    Pieces <- MCPieces
    Placeholder <- MCPlaceholder
    MaxText = 2
    MaxUnits = 2
    NoRange = NoRange
INVARIANTS
    FieldNeverPanics
CHECK_DEADLOCK FALSE
