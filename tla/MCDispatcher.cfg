SPECIFICATION FairSpec
CONSTANTS
  bin = bin
  uni = uni
  Venues <- MCVenues
  Blocks <- TwoBlocks
  Results <- MCResults
INVARIANTS TypeOK NoSendAfterClose AtMostOnce NothingLost
PROPERTIES BacklogDrains HungVenueHarmless
CHECK_DEADLOCK FALSE
