SPECIFICATION FollowSpec
CONSTANTS
  Commands = {c1, c2, c3}
  Readers = {r1}
  None = none
  MaxAppends = 2
  BatchLimit = 2
  WireLimit = 2
  LastVersion = 2
  Streams = {s1, s2}
  NoticeLimit = 1
  InboxLimit = 1
INVARIANTS
  GaplessLog
  NothingSkipped
  StreamsHaveAnOwner
PROPERTIES
  ImplementsFeed
  EventsArrive
  RevokedStreamsEnd
  DirectoryCatchesUp
CHECK_DEADLOCK FALSE
