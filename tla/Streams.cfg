\* Rings that wrap around, pages smaller than the backlog.
SPECIFICATION FairSpec
CONSTANTS
  Client = {k1}
  FeedCapacity = 2
  NotificationCapacity = 2
  PageSize = 1
  StreamLimit = 1
  MaxCommits = 3
  MaxFeed = 4
INVARIANT StreamComplete
PROPERTIES
  StreamCatchesUp
  RevokedCloses
  CommitsReported
  StreamsStop
CHECK_DEADLOCK FALSE
