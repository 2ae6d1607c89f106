SPECIFICATION Spec
CONSTANTS
    None = None
    Memory = memory
    Apps = {a1}
    Files = {f1}
    Installed = {"openai", "anthropic"}
    MaxStartups = 1
    MaxOpened = 1
INVARIANTS ChosenProviderHasKey
CHECK_DEADLOCK FALSE
