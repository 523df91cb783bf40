\* One container, no fault: a Start received while a stop is under way is lost.
CONSTANTS
  Container = {c1}
  Name = {n1}
  NameOf <- OneName
  Within <- NoneWithin
  Image = {i1}
  ImageOf <- OneImage
  Leftover = {"absent"}
  Faults = {}
  Cap = 2
  MaxLoad = 2
SPECIFICATION FairSpec
PROPERTY StartHonoured
