\* Two Creates of one container name, every fault, and containers left over.
CONSTANTS
  Container = {c1, c2}
  Name = {n1}
  NameOf <- OneName
  Within <- NoneWithin
  Image = {i1}
  ImageOf <- OneImage
  Leftover = {"absent", "running"}
  Faults = {"error", "lost", "exit"}
  Cap = 2
  MaxLoad = 2
SYMMETRY Symmetry
SPECIFICATION Spec
INVARIANTS
  TypeOK
  ImageFound
  KnownContainer
  AnsweredExists
  TableTracksDaemon
PROPERTY ImplementsHost
