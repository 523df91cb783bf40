\* One client, no fault but a restart: the host port is handed out again.
CONSTANTS
  Client = {c1}
  Replay = replay
  Image = {i1}
  Kind = {"tcp"}
  HostPort = {1, 2}
  DockerPort = {1, 2}
  TlsConfigured = TRUE
  Faults = {}
  MaxLog = 3
SPECIFICATION Spec
INVARIANT PortMapsService
