SPECIFICATION FairSpec
CONSTANTS
  Producers = {p1, p2}
  Consumers = {c1, c2}
  Items = {i1, i2, i3, i4}
  NoItem = NoItem
  NoThread = NoThread
INVARIANTS NoLostWakeup
PROPERTIES ImplementsAtomicQueue EveryItemIsTaken
