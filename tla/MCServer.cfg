\* The server program, and the router alone with a restart.
SPECIFICATION FairServer
CONSTANTS
  r1 = r1  r2 = r2
  None = None  Nil = None
  Requests <- TwoRequests
  EchoEnabled = FALSE
  CanFail = TRUE
  MaxStarts = 2
  Tree <- TwiceEphemeris
  Root <- FrontBroker
  Devices <- NoDevices
  Tickers <- Clocks
  Diagnostics = {TRUE, FALSE}
INVARIANTS ServerTypeOK Tracked EndIsOrderly
PROPERTIES QuietWhileStopping AnswersWhileTreeRuns PublishedIsReachable ProgramEnds TasksEnd
CHECK_DEADLOCK FALSE
