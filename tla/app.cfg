SPECIFICATION FairSpec
CONSTANTS
  p1 = p1
  p2 = p2
  w1 = w1
  w2 = w2
  old = old
  None = None
  Empty = Empty
  Gone = Gone
  Procs = {p1, p2}
  Main = p1
  Wallets = {w1, w2}
  Old = old
  Services = {"api", "queue"}
  MaxTries = 1
  Budget = 1
  Replies = {"ok", "rejected", "error", "lost"}
CONSTANTS
  Settings <- AllSettings
  Valid <- AllValid
  Malformed <- SlipOnly
  Default <- TheDefault
  Flags <- TheFlags
  Homes <- AllHomes
INVARIANTS
  ServicesOnce
  RunsAsRecorded
  WalletKept
  OneBlockStore
  StopIsHeard
PROPERTIES
  Settles
  ServesAtLast
CHECK_DEADLOCK FALSE
