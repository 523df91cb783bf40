\* Two clients, three logged requests, every fault, any number of crashes.
CONSTANTS
  Client = {c1, c2}
  Replay = replay
  Image = {i1}
  Kind = {"tcp", "tls"}
  HostPort = {1, 2}
  DockerPort = {1, 2}
  TlsConfigured = TRUE
  Faults = {"log", "docker", "bind", "leave"}
  MaxLog = 3
SPECIFICATION FairSpec
INVARIANTS
  TypeOK
  PromisesSurvive
  DialsItsContainer
PROPERTY ServesAgain
