SPECIFICATION FairSpec
CONSTANTS
  f1 = f1
  f2 = f2
  f3 = f3
  f4 = f4
  emitters = emitters
  execution = execution
  NoFiber = NoFiber
  NoGroup = NoGroup
  Fiber = {f1, f2, f3, f4}
  Group = {emitters, execution}
  GroupOf <- GroupOfMC
INVARIANTS
  BookkeepingIsExact
PROPERTIES
  OrderIsKept
  ParkedGroupIsFrozen
  WakesSpec
  ReadyIsServed
