---------------------------- MODULE SchedulerApp ----------------------------
(***************************************************************************)
(* The scheduler apps (Thermostat_Scheduler, Lighting_Scheduler,           *)
(* Plugload_Scheduler): every second clockBehavior reads the clock, loads  *)
(* the list of a new day and publishes the setting that is due to the      *)
(* agent of the device; updateScheduleBehavior takes a new schedule file   *)
(* from the UI.  Times are minutes: seconds decide nothing, because every  *)
(* entry stands at a whole minute.  Any statement sent to the database may *)
(* fail; as nothing rolls back, all later ones of the process then fail.   *)
(***************************************************************************)
EXTENDS Integers, FiniteSetsExt

CONSTANTS
  Files,          \* paths the UI may send
  Content,        \* what loading a path gives: a schedule or Unreadable
  Holidays,       \* the days in table holiday
  Weekends,       \* the days that are Saturdays or Sundays
  LastDay,        \* bound on the days, all in one week
  HoursPerDay, MinutesPerHour,
  Straddled,      \* moments at which the reads of one tick may be torn
  Kind,           \* "thermostat", "lighting" or "plugload"
  Unreadable, NoFile, NoSchedule, NoEntry, NoMessage

MinutesPerDay == HoursPerDay * MinutesPerHour
Days == 0 .. LastDay
Minutes == 0 .. MinutesPerDay - 1
LastMinute == (LastDay + 1) * MinutesPerDay - 1

DayOf(t) == t \div MinutesPerDay
HourOf(t) == (t % MinutesPerDay) \div MinutesPerHour
MinuteOf(t) == t % MinutesPerHour

Schedules == { Content[f] : f \in Files } \ {Unreadable}

\* A schedule is the modes its file lists as active, and the lists under
\* 'schedulers': functions from the minutes of their entries to settings.
ASSUME FilesAssumption ==
  /\ NoSchedule \notin Schedules /\ NoFile \notin Files
  /\ \A s \in Schedules : s.active \cap {"everyday", "weekdayweekend"} # {}
  /\ \A s \in Schedules : \A k \in DOMAIN s.lists : DOMAIN s.lists[k] \subseteq Minutes

ASSUME ClockAssumption ==
  /\ {HoursPerDay, MinutesPerHour} \subseteq Nat \ {0} /\ LastDay \in Nat
  /\ Straddled \subseteq 0 .. LastMinute - 1
  /\ NoEntry \notin Minutes

Settings ==
  UNION { UNION { { s.lists[k][m] : m \in DOMAIN s.lists[k] } : k \in DOMAIN s.lists }
            : s \in Schedules }

ASSUME SettingsAssumption == NoMessage \notin Settings

VARIABLES
  now,           \* the wall clock
  appSetting,    \* the column app_setting of the app's row
  connected,     \* no statement of the process has failed: cur and con work
  status,        \* "running", "killed", or "dead" of an uncaught exception
  schedule,      \* current_schedule_object, with active_scheduler_mode
  newTimes,      \* newTimeScheduleChange
  settings,      \* timeModeTemp (timeStatus...)
  currentUse,    \* current_use_schedule
  firstRun,      \* schedule_first_run
  oldDay,        \* old_day
  nextTime,      \* time_next_schedule_sec
  message,       \* what the last step published
  commanded,     \* the last setting published to the device agent
  read           \* the time the last step took the clock to show, or NoRead

app == <<schedule, newTimes, settings, currentUse, firstRun, oldDay, nextTime>>
vars == <<now, appSetting, connected, status, app, message, commanded, read>>

NoRead == -1

\* Which list a schedule has for a day.
QueryMode(s, day) ==
  CASE "holiday" \in s.active /\ day \in Holidays -> <<"holiday">>
    [] "everyday" \in s.active -> <<"everyday", day>>
    [] OTHER -> <<"weekdayweekend", IF day \in Weekends THEN "weekend" ELSE "weekday">>

\* Whether set_query_mode_all_day asks the database if the day is a holiday.
AsksDatabase(s) == "holiday" \in s.active

HasList(s, day) == QueryMode(s, day) \in DOMAIN s.lists
DayList(s, day) == s.lists[QueryMode(s, day)]

\* The settings of a list are added to those kept, which are never cleared.
ForgetfulAdd(list, old) == list
AddSettings(list, old) ==
  [m \in DOMAIN list \cup DOMAIN old |-> IF m \in DOMAIN list THEN list[m] ELSE old[m]]

\* set_query_mode_all_day for a schedule just taken: the times are replaced.
\* A list that is not there raises KeyError, after the times were cleared.
TakeSchedule(s, day, oldSettings, oldFirstRun) ==
  /\ schedule' = s
  /\ newTimes' = IF HasList(s, day) THEN DOMAIN DayList(s, day) ELSE {}
  /\ settings' = IF HasList(s, day) THEN AddSettings(DayList(s, day), oldSettings) ELSE oldSettings
  /\ firstRun' = (oldFirstRun \/ HasList(s, day))

\* The question whether today is a holiday fails: the schedule is taken, but
\* not its list, and the times of the old one stay.
TakeInVain(s, oldTimes, oldSettings, oldFirstRun) ==
  /\ AsksDatabase(s)
  /\ connected' = FALSE
  /\ schedule' = s
  /\ newTimes' = oldTimes /\ settings' = oldSettings /\ firstRun' = oldFirstRun

UncommittedUpdate(f) ==
  /\ status = "running" /\ connected /\ Content[f] # Unreadable
  /\ TakeSchedule(Content[f], DayOf(now), settings, firstRun)
  /\ message' = "success" /\ read' = NoRead
  /\ UNCHANGED <<now, appSetting, connected, status, currentUse, oldDay, nextTime, commanded>>
\* The UPDATE or its commit fails, and the row may say either; the file cannot
\* be read; its schedule is taken; or it is taken and the database then fails.
UpdateScheduleBehavior(f) ==
  /\ status = "running"
  /\ read' = NoRead
  /\ UNCHANGED <<now, status, currentUse, oldDay, nextTime, commanded>>
  /\ \/ /\ appSetting' \in {appSetting} \cup { g \in {f} : connected }
        /\ connected' = FALSE /\ message' = NoMessage
        /\ UNCHANGED <<schedule, newTimes, settings, firstRun>>
     \/ /\ connected /\ appSetting' = f
        /\ Content[f] = Unreadable
        /\ message' = NoMessage
        /\ UNCHANGED <<connected, schedule, newTimes, settings, firstRun>>
     \/ /\ connected /\ appSetting' = f
        /\ Content[f] # Unreadable
        /\ \/ /\ TakeSchedule(Content[f], DayOf(now), settings, firstRun)
              /\ message' = IF HasList(Content[f], DayOf(now)) THEN "success" ELSE NoMessage
              /\ UNCHANGED connected
           \/ /\ TakeInVain(Content[f], newTimes, settings, firstRun)
              /\ message' = NoMessage

ExclusivePast(minute, times) == { m \in times : m < minute }
Past(minute, times) == { m \in times : m <= minute }

InclusiveNextEntry(minute, times) == Min({ m \in times : m >= minute } \cup {MinutesPerDay})
SecondsNextEntry(minute, times) == Min({ m \in times : m > minute } \cup {60 * MinutesPerDay})
NextEntry(minute, times) == Min({ m \in times : m > minute } \cup {MinutesPerDay})

\* schedule_action at a minute, with the times and settings in force then.
\* Before the first entry of the day it falls back on the entry last used,
\* and there the lighting app raises TypeError in a print.
ScheduleAction(minute, times, table) ==
  LET past == Past(minute, times)
      use  == IF past # {} THEN Max(past) ELSE currentUse
      raises == use # NoEntry /\
                  (use \notin DOMAIN table \/ (past = {} /\ Kind = "lighting"))
  IN  /\ currentUse' = use
      /\ nextTime' = NextEntry(minute, times)
      /\ status' = IF raises THEN "dead" ELSE status
      /\ message' = IF use = NoEntry \/ raises THEN NoMessage ELSE table[use]
      /\ commanded' = IF message' = NoMessage THEN commanded ELSE message'

\* The hour, the minute and the day are read one after the other: the hour
\* now, the minute now or in the next minute, the day last.  On a new day the
\* database may fail to tell whether it is a holiday, outside any try.
ClockBehavior ==
  \E after \in {now} \cup { t \in {now + 1} : now \in Straddled } :
  \E mid \in {now, after} :
    LET minute == HourOf(now) * MinutesPerHour + MinuteOf(mid)
        day    == DayOf(after)
        newDay == day # oldDay /\ schedule # NoSchedule
        list   == DayList(schedule, day)
    IN
    /\ status = "running"
    /\ now' = after
    /\ read' = day * MinutesPerDay + minute
    /\ UNCHANGED <<appSetting, schedule>>
    /\ \/ /\ newDay
          /\ \/ ~HasList(schedule, day) /\ UNCHANGED connected
             \/ AsksDatabase(schedule) /\ connected' = FALSE
          /\ status' = "dead"
          /\ message' = NoMessage
          /\ UNCHANGED <<newTimes, settings, currentUse, firstRun, oldDay, nextTime, commanded>>
       \/ /\ newDay /\ HasList(schedule, day)
          /\ AsksDatabase(schedule) => connected
          /\ UNCHANGED connected
          /\ oldDay' = day /\ firstRun' = FALSE
          /\ newTimes' = DOMAIN list
          /\ settings' = AddSettings(list, settings)
          /\ ScheduleAction(minute, newTimes', settings')
       \/ /\ ~newDay
          /\ firstRun' = FALSE
          /\ UNCHANGED <<connected, oldDay, newTimes, settings>>
          /\ IF firstRun \/ minute >= nextTime
               THEN ScheduleAction(minute, newTimes, settings)
               ELSE message' = NoMessage /\ UNCHANGED <<status, currentUse, nextTime, commanded>>

TimePasses ==
  /\ now < LastMinute
  /\ now' = now + 1
  /\ message' = NoMessage /\ read' = NoRead
  /\ UNCHANGED <<appSetting, connected, status, app, commanded>>

\* The process is killed: between two handlers, or in updateScheduleBehavior
\* after the row was committed.
Kill ==
  /\ status = "running"
  /\ status' = "killed"
  /\ appSetting' \in {appSetting} \cup { f \in Files : connected }
  /\ message' = NoMessage /\ read' = NoRead
  /\ UNCHANGED <<now, connected, app, commanded>>

\* __init__ of a new process, which finds its schedule through its row: it
\* has none when the row or the file cannot be read, and goes on without.
Start ==
  /\ status # "running"
  /\ status' = "running"
  /\ oldDay' = DayOf(now)
  /\ currentUse' = NoEntry /\ nextTime' = MinutesPerDay
  /\ message' = NoMessage /\ read' = NoRead
  /\ UNCHANGED <<now, appSetting, commanded>>
  /\ LET readable == appSetting \in Files /\ Content[appSetting] # Unreadable
     IN  \/ /\ connected' = FALSE \/ (connected' = TRUE /\ ~readable)
            /\ schedule' = NoSchedule
            /\ newTimes' = {} /\ settings' = <<>> /\ firstRun' = FALSE
         \/ /\ readable
            /\ \/ /\ connected' = TRUE
                  /\ TakeSchedule(Content[appSetting], DayOf(now), <<>>, FALSE)
               \/ TakeInVain(Content[appSetting], {}, <<>>, FALSE)

Init ==
  /\ now = 0
  /\ appSetting = NoFile /\ connected = FALSE
  /\ status = "killed"
  /\ schedule = NoSchedule
  /\ newTimes = {} /\ settings = <<>> /\ currentUse = NoEntry
  /\ firstRun = FALSE /\ oldDay = 0 /\ nextTime = MinutesPerDay
  /\ message = NoMessage /\ commanded = NoMessage /\ read = NoRead

Next ==
  \/ \E f \in Files : UpdateScheduleBehavior(f)
  \/ ClockBehavior
  \/ TimePasses
  \/ Kill
  \/ Start

Spec == Init /\ [][Next]_vars

-----------------------------------------------------------------------------

\* Every variable keeps its type: the time of the next action is an entry of
\* the day or its end, and every time kept has its setting in the table.
TypeOK ==
  /\ now \in 0 .. LastMinute
  /\ appSetting \in Files \cup {NoFile} /\ connected \in BOOLEAN
  /\ status \in {"running", "killed", "dead"}
  /\ schedule \in Schedules \cup {NoSchedule}
  /\ newTimes \subseteq Minutes /\ DOMAIN settings \subseteq Minutes
  /\ currentUse \in Minutes \cup {NoEntry}
  /\ firstRun \in BOOLEAN
  /\ oldDay \in Days /\ nextTime \in Minutes \cup {MinutesPerDay}
  /\ message \in Settings \cup {"success", NoMessage}
  /\ commanded \in Settings \cup {NoMessage}
  /\ read \in (0 .. LastMinute) \cup {NoRead}

\* An app with a schedule that has a list for every day ends of an exception
\* only if it has to ask the database about holidays and a statement failed:
\* each time it looks up is among the settings it keeps, across files taken
\* whole or in part, days and restarts.
AppSurvives ==
  status = "dead" =>
    \/ \E day \in Days : ~HasList(schedule, day)
    \/ AsksDatabase(schedule) /\ ~connected

\* The last step was a tick that read the clock right, and the list of the
\* schedule in force could be chosen.
ServesToday ==
  /\ status = "running" /\ read = now /\ schedule # NoSchedule
  /\ HasList(schedule, DayOf(now))
  /\ AsksDatabase(schedule) => connected

\* Whatever the app missed, took over or was restarted with, after a tick
\* that read the clock right the last command it sent is the entry of
\* today's list that is due, if one is.
OnSchedule ==
  ServesToday =>
    LET list == DayList(schedule, DayOf(now))
        past == { m \in DOMAIN list : m <= now % MinutesPerDay }
    IN  past # {} => commanded = list[Max(past)]

\* The schedule in force is the one the app's row names, so that a restart
\* resumes it, unless the file named there cannot be read or the database
\* failed the app.
RowInForce ==
  status = "running" /\ connected /\ appSetting \in Files =>
    Content[appSetting] \in {schedule, Unreadable}

\* A tick leaves nothing to do until the next entry: the app will wake for
\* exactly that one, so it neither misses an entry, after the last one of a
\* day either, nor acts again every second.
WakesForNext ==
  ServesToday =>
    LET list == DayList(schedule, DayOf(now))
    IN  /\ ~firstRun /\ oldDay = DayOf(now) /\ newTimes = DOMAIN list
        /\ nextTime = Min({ m \in DOMAIN list : m > now % MinutesPerDay } \cup {MinutesPerDay})

=============================================================================
