\* The TUI ends at any time; removals then fail halfway.
CONSTANTS
  Container = {c1}
  Name = {n1}
  NameOf <- OneName
  Within <- NoneWithin
  Image = {i1}
  ImageOf <- OneImage
  Leftover = {"stopped"}
  Faults = {}
  Cap = 1
  MaxLoad = 2
  Conn = {k1}
  MaxTries = 2
  Timeout = 1
  TuiMayQuit = TRUE
  AcceptMayFail = FALSE
SPECIFICATION FairProxySpec
\* A removed proxy has nothing left to do.
CHECK_DEADLOCK FALSE
PROPERTIES
  IdleContainerStops
  ConnectionsResolved
