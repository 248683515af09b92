CONSTANTS
    Typed <- Two
    Styles <- Two
    BadTyped = {2}
    BadStyles = {}
    Codes = {"busy"}
    Typecheck = TRUE
    Reverts = FALSE
    MaxEdits = 1
SPECIFICATION Spec
PROPERTY ErrorsNotSent
CHECK_DEADLOCK FALSE
