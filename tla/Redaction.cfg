SPECIFICATION Spec
CONSTANTS
    SensitiveKeys = {"email"}
    Lower <- LowerCase
    ExtraKeys <- WithAndWithout
    MaxDepth = 4
INVARIANTS HidesByPath
CHECK_DEADLOCK FALSE
