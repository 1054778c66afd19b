\* The collections may be fewer from one backup to the next.
CONSTANTS
  orders = orders
  reviews = reviews
  archive = archive
  Listing <- MCListing
  Filters <- MCNarrowing
  MaxEvents = 2
  MaxRestored = 0
  MaxBackups = 2
  Sources <- MCSources
  AskedFor <- MCAskedFor
  Lives <- MCLives
  NoColl = NoColl
SPECIFICATION MongoBackupSpec
CHECK_DEADLOCK FALSE
INVARIANTS KeepsFollowed
