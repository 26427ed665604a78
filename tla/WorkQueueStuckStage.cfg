SPECIFICATION StuckStageSpec
CONSTANTS
  Producers = {p1}
  Consumers = {c1, c2}
  Items = {i1, i2}
  NoItem = NoItem
  NoThread = NoThread
PROPERTIES IdleConsumerTakesItem
