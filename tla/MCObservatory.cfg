\* Three requests: every kind of address of the example tree.
SPECIFICATION ObservatorySpec
CONSTANTS
  r1 = r1  r2 = r2  r3 = r3  m1 = m1  m2 = m2
  Nil = Nil  None = Nil  Nobody = Nil
  Tree <- TreeBuild
  Root <- FrontBroker
  Devices <- MCDevices
  Requests <- MCRequests
  Calls <- MCRequests
  Actions <- MCRequests
  Messages <- MCMessages
  Loads <- MCLoads
  Uncachable <- MCUncachable
  MaxRefreshes = 2
  Programs <- MCPrograms
  Variables = {"azimuth", "altitude"}
  Locked = {"azimuth", "altitude"}
  Positions = {0, 1}
  Parked = 0
  Passes = 2
INVARIANTS ObservatoryTypeOK RefreshesArriveAlike PermanentMeansPermanent SeverityIsWorst
  NothingHeldAfterEnd OneAtATime WrongAnswerHasCause SocketsBounded
PROPERTIES VerifiedMeansThere
CHECK_DEADLOCK FALSE
