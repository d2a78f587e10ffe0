SPECIFICATION Spec
CONSTANTS
  a1 = a1
  a2 = a2
  a3 = a3
  Nobody = Nobody
  Resumers = {a1, a2}
  Loaders = {a2}
  Creators = {a3}
  MaxEvents = 1
  MaxForeign = 1
INVARIANTS TypeOK HolderContinuesLog RetiredIsStored
PROPERTIES RepairsOnlyTheDead EveryoneAnswered
CHECK_DEADLOCK FALSE
