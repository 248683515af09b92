CONSTANTS
    Typed <- Two
    Styles <- Three
    BadTyped = {2}
    BadStyles = {2}
    Codes = {"busy", "other"}
    Typecheck = TRUE
    Reverts = TRUE
    MaxEdits = 3
SPECIFICATION Spec
INVARIANT SessionInv
PROPERTY KeepsPromise
CHECK_DEADLOCK FALSE
