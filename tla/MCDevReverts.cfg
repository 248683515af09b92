CONSTANTS
    Typed <- Two
    Styles <- Two
    BadTyped = {}
    BadStyles = {}
    Codes = {"busy"}
    Typecheck = TRUE
    Reverts = TRUE
    MaxEdits = 2
SPECIFICATION Spec
INVARIANT QuietShowsDisk
CHECK_DEADLOCK FALSE
