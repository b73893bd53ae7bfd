SPECIFICATION PreferencesSpec
CONSTANTS
    Items = {app}
    Aliases = {alias}
    Writers = {palette, cli}
    PaletteProcess = palette
    NoAlias = NoAlias
    NoPreferences = NoPreferences
    NoBytes = NoBytes
    Torn = Torn
    MaxFrequency = 1
    MaxChanges = 2
INVARIANTS
    PersistsAtomically
CHECK_DEADLOCK FALSE
