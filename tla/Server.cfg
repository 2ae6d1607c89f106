SPECIFICATION Spec
CONSTANTS
    None = None
    Memory = memory
    Apps = {a1}
    Files = {f1, f2}
    Installed = {"openai"}
    MaxStartups = 3
    MaxOpened = 3
INVARIANTS ServerTypeOK ServesOpenStore PausesAreFound
CHECK_DEADLOCK FALSE
