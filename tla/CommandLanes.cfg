SPECIFICATION FairSpec
CONSTANTS
  main = main
  cron = cron
  c1 = c1
  c2 = c2
  c3 = c3
  c4 = c4
  Lanes <- MCLanes
  Commands <- MCCommands
  LaneOf <- MCLaneOf
  MaxConcurrency = 2
  MaxResets = 1
INVARIANTS BooksExact WorkConserving
PROPERTIES FairStarts EveryCommandSettles
