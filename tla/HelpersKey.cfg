SPECIFICATION Spec
CONSTANTS
    MaxKeyLength = 40
    MaxUnderscores = 3
    W = 5
INVARIANT ParsedKeysAgree
CHECK_DEADLOCK FALSE
