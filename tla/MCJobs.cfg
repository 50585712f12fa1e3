SPECIFICATION FairSpec
CONSTANTS
    command = command
    pane = pane
    Clients = {command, pane}
    Viewers = {pane}
    MaxJobs = 2
    OnTerminal = {2}
    MaxWritten = 1
    FinishedKeep = 1
    Refuses = FALSE
INVARIANTS
    NobodySleepsThrough
    WaitedStay
    AskedToEnd
    OutputIsComplete
    InlineHasItsAsker
PROPERTIES
    EndIsTold
CHECK_DEADLOCK FALSE
