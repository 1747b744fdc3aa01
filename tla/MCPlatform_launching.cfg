CONSTANTS
  app1 = app1  dev1 = dev1
  NoCall = NoCall  Over = Over
  Names = {app1, dev1}
  Apps = {app1}
  Devices = {dev1}
  Clients = {"launcher", "discovery", "operator"}
  Commands <- MCCommands
  Gap = FALSE
  MaxRestarts = 1
SPECIFICATION FairSpec
INVARIANTS
  TypeOK
  RecordedFirst
PROPERTIES
  Served
  Evicted
  Resumed
