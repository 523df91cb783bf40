\* One proxy, one connection at a time, two requests in flight, every docker fault.
CONSTANTS
  Container = {c1}
  Name = {n1}
  NameOf <- OneName
  Within <- NoneWithin
  Image = {i1}
  ImageOf <- OneImage
  Leftover = {"stopped"}
  Faults = {"error", "lost", "exit"}
  Cap = 1
  MaxLoad = 2
  Conn = {k1}
  MaxTries = 2
  Timeout = 1
  TuiMayQuit = FALSE
  AcceptMayFail = TRUE
SPECIFICATION FairProxySpec
\* A removed proxy has nothing left to do.
CHECK_DEADLOCK FALSE
INVARIANTS
  ProxyTypeOK
  RegisteredIsAlive
 
