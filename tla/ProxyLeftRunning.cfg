\* Removal races the start of the container, no docker fault.
CONSTANTS
  Container = {c1}
  Name = {n1}
  NameOf <- OneName
  Within <- NoneWithin
  Image = {i1}
  ImageOf <- OneImage
  Leftover = {"stopped"}
  Faults = {}
  Cap = 1
  MaxLoad = 2
  Conn = {k1}
  MaxTries = 2
  Timeout = 1
  TuiMayQuit = FALSE
  AcceptMayFail = FALSE
SPECIFICATION FairProxySpec
\* A removed proxy has nothing left to do.
CHECK_DEADLOCK FALSE
PROPERTY RemovedContainerStops
