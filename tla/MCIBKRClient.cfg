CONSTANTS
    Tags = {t1, t2}
    Polls = 2
    MaxCalls = 2
SPECIFICATION MCSpec
INVARIANTS
    AccountWithinGiveups
    PaperOnly
PROPERTIES
    CallsReturn
