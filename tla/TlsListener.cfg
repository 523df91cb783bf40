\* Two proxies of one host name, and every key at any time.
CONSTANTS
  Proxy = {p1, p2}
  Nobody = nobody
  Word = 3
  Keys = {"up", "down", "q"}
  Host = {h1}
  Cap = 1
  MaxLines = 1
SPECIFICATION FairSpec
\* The listener may be down, the TUI gone and every request over.
CHECK_DEADLOCK FALSE
INVARIANTS
  TypeOK
  NoDeadEntry
  LatestReachable
  NoGhostRows
  HighlightIsShown
  PanicTakesTwoKeys
PROPERTY RequestsEnd
