\* The diagnostics are left in the loop when main looks for tasks: every orderly
\* end is an error.
SPECIFICATION ServerSpec
CONSTANTS
  r1 = r1  r2 = r2
  None = None  Nil = None
  Requests <- TwoRequests
  EchoEnabled = FALSE
  CanFail = FALSE
  MaxStarts = 2
  Tree <- TreeBuild
  Root <- FrontBroker
  Devices <- NoDevices
  Tickers <- Clocks
  Diagnostics = {TRUE}
INVARIANTS AllTasksFinished
CHECK_DEADLOCK FALSE
