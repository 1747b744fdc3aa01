CONSTANTS
  fa = fa  fb = fb  fc = fc  fbad = fbad  heat = heat  cool = cool  low = low
  Unreadable = Unreadable  NoFile = NoFile  NoSchedule = NoSchedule
  NoEntry = NoEntry  NoMessage = NoMessage
  Files = {fa, fb, fc, fbad}
  Content <- MCContent
  Holidays = {1}
  Weekends = {2}
  LastDay = 2
  HoursPerDay = 2
  MinutesPerHour = 2
  Straddled <- WithinDay
  Kind = "thermostat"
SPECIFICATION Spec
INVARIANTS
  TypeOK
  AppSurvives
  OnSchedule
  RowInForce
  WakesForNext
