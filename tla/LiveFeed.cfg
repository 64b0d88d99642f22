SPECIFICATION FeedFairSpec
CONSTANTS
  Socks = {s1, s2}
  NoSock = NoSock
  MaxNow = 2
  MaxDrops = 2
  MaxExpires = 1
  MaxAsks = 1
INVARIANTS BadgeRight OneSocket
PROPERTIES Reconnects
CHECK_DEADLOCK FALSE
