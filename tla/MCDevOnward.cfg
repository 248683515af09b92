CONSTANTS
    Typed <- Three
    Styles <- Two
    BadTyped = {2}
    BadStyles = {}
    Codes = {"busy"}
    Typecheck = TRUE
    Reverts = FALSE
    MaxEdits = 3
SPECIFICATION FairSpec
INVARIANTS QuietShowsDisk
PROPERTIES SettlesDown StopsClean
CHECK_DEADLOCK FALSE
