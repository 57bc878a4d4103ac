SPECIFICATION MCSpec
CONSTANTS
  Sub = {x1, x2}
  Payload = {a, b}
  Offline = Offline
  None = None
  Buffer = 1
  Threshold = 2
  s1 = s1
  s2 = s2
  b1 = b1
  b2 = b2
  Server = {s1, s2}
  Base = {b1, b2}
  ServerAt <- MCServerAt
  Registered <- MCRegistered
  Poll = {p1}
  Scraper = scrape
  NoPeer = None
INVARIANTS
  NoMissedUpdate
  LoopWhileListened
  PeersAreReal
  FailoverFindsServer
PROPERTIES
  UnsubscribeReturns
