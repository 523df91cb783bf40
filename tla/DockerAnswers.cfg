\* Two Creates of one name, which is within another one's, and a Pull compete
\* for a channel of two messages.
CONSTANTS
  Container = {c1, c2}
  Name = {n1, n2}
  NameOf <- OneName
  Within <- OneWithin
  Image = {i1}
  ImageOf <- OneImage
  Leftover = {"absent", "stopped"}
  Faults = {"error", "lost"}
  Cap = 2
  MaxLoad = 1
SPECIFICATION FairSpec
PROPERTY RequestsAnswered
