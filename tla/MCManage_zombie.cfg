SPECIFICATION Spec
CONSTANTS
    m1 = m1
    m2 = m2
    c1 = c1
    Menus = {m1}
    Clis = {c1}
    Pid = {1, 2}
    Digits <- TwoLengths
    Odd = Odd
    Strangers = {}
    Polls = 1
    MaxMishaps = 0
    MaxMappings = 1
    HandWritten <- TwoFiles
    Answers <- MoreAnswers
    Given <- TwoAnswers
    Names = {"a"}
    None = None
    Blank = Blank
    Text <- Texts
    Arrives <- MCArrives
    MuxNumbers <- MuxGrid
    KCPNumbers <- KCPGrid
INVARIANT StaleReadsStopped
