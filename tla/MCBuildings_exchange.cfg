SPECIFICATION FairSpec
CONSTANTS
  near = near
  t1 = t1
  Clients = {c1, c2}
  Topics = {t1}
  QueueLimit = 2
  HighWater = 2
  MaxLost = 1
  BuildingOf <- TopicBuildings
  Buildings = {near}
  Hosts = {near}
  LastCleanup = 2
INVARIANTS TypeOK SubscriptionsExact Connected PubsFresh
PROPERTIES Heard
