SPECIFICATION Spec
CONSTANTS
  r1 = r1
  r2 = r2
  r3 = r3
  alice = alice
  bob = bob
  main = main
  nested = nested
  Runs = {r1, r2, r3}
  Sessions = {alice, bob}
  Globals = {main, nested}
  SessionOf <- MCSessionOf
  GlobalOf <- MCGlobalOf
  MaxConcurrency = 2
  MaxResets = 1
CHECK_DEADLOCK FALSE
INVARIANTS LevelsAgree OneRunPerGeneration
PROPERTIES EveryRunSettles ImplementsSessionLine
