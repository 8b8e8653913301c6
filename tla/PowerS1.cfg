CONSTANTS
    PCpus = {c0, c1, c2}
    Bsp = c0
    PArchs = {"x86_64", "aarch64"}
    PStates = {1}
    PromptBarrier = TRUE
SPECIFICATION PowerSpecS1
INVARIANTS
    ResetPossible
CHECK_DEADLOCK FALSE
