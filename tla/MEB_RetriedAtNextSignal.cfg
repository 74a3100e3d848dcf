CONSTANTS
    e1 = e1
    e2 = e2
    Tags = {e1, e2}
    Polls = 2
    Tfs <- OneTf
    ByTf <- OneByTf
    States <- Both
    MaxBars = 3
SPECIFICATION Spec
PROPERTY RetriedAtNextSignal
