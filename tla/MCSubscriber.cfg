SPECIFICATION FairSpec
CONSTANTS
  Heads = 5
  Buffer = 2
  DialErrors <- AnyDialError
INVARIANTS TypeOK OneConnection
PROPERTIES NoGapOnConnection FeedSpec Resubscribes HeadsFlow
CHECK_DEADLOCK FALSE
