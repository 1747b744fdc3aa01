SPECIFICATION FairSpec
CONSTANTS
  Period <- TwoTimers
  FirstDelay <- FirstDelays
  LoopInterval = 1
  Backlog = 2
  Settings = {"heat", "off"}
  Events = {e1}
  Triggers <- HeatTriggers
  Heartbeat = 4
  SecondsPerDay = 10
  Durations <- ShortAndLong
  InboxLimit = 1
  ListLimit = 2
  ClockShifts <- BackAndForward
  MaxClockSets = 1
  Invalid = Invalid
  Garbled = Garbled
  NoReading = NoReading
  NoReply = NoReply
INVARIANTS TypeOK Spaced
PROPERTIES Renotified Responsive MonitorRuns
