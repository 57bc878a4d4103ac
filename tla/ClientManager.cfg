SPECIFICATION MCFairSpec
CONSTANTS
  Proc = {p1, p2}
  Client = {c1, c2}
  Sweeper = Sweeper
  None = None
  Caller = {p1, p2}
  Link = {c1, c2}
  Watcher = {w1}
  StatusBuffer = 1
  NoLink = None
  MaxHooks = 2
  RegId = {r1, r2, r3}
  Console = {x1, x2}
  Deleter = {d1, d2}
INVARIANTS
  NoConnectionLeak
  SessionTracksCache
  StatusExplained
  WatchersAgree
PROPERTIES
  DefaultStays
  SessionReturns
