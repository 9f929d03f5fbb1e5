\* A driver that omits the error number makes a component missing.
SPECIFICATION ObservatorySpec
CONSTANTS
  r1 = r1  r2 = r2  r3 = r3  m1 = m1  m2 = m2
  Nil = Nil  None = Nil  Nobody = Nil
  Tree <- TreeBuild
  Root <- FrontBroker
  Devices <- MCDevices
  Requests <- MCRequests
  Calls <- MCRequests
  Actions <- MCRequests
  Messages <- MCMessages
  Loads <- MCLoads
  Uncachable <- MCUncachable
  MaxRefreshes = 2
  Programs <- MCPrograms
  Variables = {"azimuth", "altitude"}
  Locked = {"azimuth", "altitude"}
  Positions = {0, 1}
  Parked = 0
  Passes = 2
INVARIANTS NotFoundMeansNotFound
CHECK_DEADLOCK FALSE
