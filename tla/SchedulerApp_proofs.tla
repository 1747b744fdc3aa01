------------------------ MODULE SchedulerApp_proofs ------------------------
(***************************************************************************)
(* The scheduler app keeps to its schedule, for every set of files, every  *)
(* calendar and days of any length.                                        *)
(***************************************************************************)
EXTENDS SchedulerApp, FiniteSetTheorems, WellFoundedInduction, TLAPS

-----------------------------------------------------------------------------
(* Arithmetic of the clock.                                                *)

LEMMA DivMod ==
  ASSUME NEW a \in Nat, NEW n \in Nat \ {0}
  PROVE  /\ a = n * (a \div n) + (a % n)
         /\ a % n \in 0 .. n - 1
         /\ a \div n \in Nat
OBVIOUS

LEMMA DivModUnique ==
  ASSUME NEW n \in Nat \ {0}, NEW q \in Nat, NEW r \in 0 .. n - 1
  PROVE  (n * q + r) \div n = q /\ (n * q + r) % n = r
OBVIOUS

LEMMA Multiples ==
  ASSUME NEW n \in Nat \ {0}, NEW p \in Nat, NEW q \in Nat, p < q
  PROVE  n * p + n <= n * q
<1>1. n * p + n = n * (p + 1)
  OBVIOUS
<1>2. p + 1 <= q
  OBVIOUS
<1> QED
  BY <1>1, <1>2

\* The remainder grows by one, or falls back to zero as the quotient grows.
LEMMA NextDivMod ==
  ASSUME NEW a \in Nat, NEW n \in Nat \ {0}
  PROVE  \/ (a + 1) \div n = a \div n /\ (a + 1) % n = (a % n) + 1
         \/ (a + 1) \div n = a \div n + 1 /\ (a + 1) % n = 0
<1> DEFINE q == a \div n
           r == a % n
<1>1. a = n * q + r /\ r \in 0 .. n - 1 /\ q \in Nat
  BY DivMod
<1> HIDE DEF q, r
<1>2. CASE r + 1 < n
  <2>1. a + 1 = n * q + (r + 1) /\ r + 1 \in 0 .. n - 1
    BY <1>1, <1>2
  <2>2. (a + 1) \div n = q /\ (a + 1) % n = r + 1
    BY <1>1, <2>1, DivModUnique
  <2> QED
    BY <2>2 DEF q, r
<1>3. CASE r + 1 = n
  <2>1. q + 1 \in Nat /\ 0 \in 0 .. n - 1
    BY <1>1
  <2>2. n * (q + 1) + 0 = n * q + n
    BY <1>1
  <2>3. a + 1 = n * (q + 1) + 0
    BY <1>1, <1>3, <2>2
  <2>4. (n * (q + 1) + 0) \div n = q + 1 /\ (n * (q + 1) + 0) % n = 0
    BY <2>1, DivModUnique
  <2>5. (a + 1) \div n = q + 1 /\ (a + 1) % n = 0
    BY <2>3, <2>4
  <2> QED
    BY <2>5 DEF q
<1> QED
  BY <1>1, <1>2, <1>3

LEMMA DayLength ==
  /\ HoursPerDay \in Nat \ {0} /\ MinutesPerHour \in Nat \ {0} /\ LastDay \in Nat
  /\ MinutesPerDay \in Nat \ {0}
  /\ MinutesPerDay = MinutesPerHour * HoursPerDay
  /\ LastMinute \in Nat
<1>1. HoursPerDay \in Nat \ {0} /\ MinutesPerHour \in Nat \ {0} /\ LastDay \in Nat
  BY ClockAssumption
<1>2. MinutesPerDay \in Nat \ {0} /\ MinutesPerDay = MinutesPerHour * HoursPerDay
  BY <1>1 DEF MinutesPerDay
<1>3. (LastDay + 1) * MinutesPerDay \in Nat \ {0}
  BY <1>1, <1>2
<1> QED
  BY <1>1, <1>2, <1>3 DEF LastMinute

LEMMA DayOfBound ==
  ASSUME NEW t \in 0 .. LastMinute
  PROVE  /\ DayOf(t) \in Days
         /\ t = DayOf(t) * MinutesPerDay + (t % MinutesPerDay)
         /\ t % MinutesPerDay \in Minutes
<1>1. /\ t = MinutesPerDay * DayOf(t) + (t % MinutesPerDay)
      /\ t % MinutesPerDay \in 0 .. MinutesPerDay - 1
      /\ DayOf(t) \in Nat
  <2>1. t \in Nat /\ MinutesPerDay \in Nat \ {0}
    BY DayLength
  <2> QED
    BY <2>1, DivMod DEF DayOf
<1>2. ~ (LastDay + 1 <= DayOf(t))
  <2> SUFFICES ASSUME LastDay + 1 <= DayOf(t)
               PROVE  FALSE
    OBVIOUS
  <2>1. LastDay < DayOf(t)
    BY <1>1, DayLength
  <2>2. MinutesPerDay * LastDay + MinutesPerDay <= MinutesPerDay * DayOf(t)
    BY <1>1, <2>1, DayLength, Multiples
  <2>3. (LastDay + 1) * MinutesPerDay = MinutesPerDay * LastDay + MinutesPerDay
    BY DayLength
  <2> QED
    BY <1>1, <2>2, <2>3, DayLength DEF LastMinute
<1> QED
  BY <1>1, <1>2, DayLength DEF Days, Minutes

\* The hour and the minute of one moment make up its minute of the day.
LEMMA HourAndMinute ==
  ASSUME NEW t \in Nat
  PROVE  /\ HourOf(t) * MinutesPerHour + MinuteOf(t) = t % MinutesPerDay
         /\ HourOf(t) \in 0 .. HoursPerDay - 1
         /\ MinuteOf(t) \in 0 .. MinutesPerHour - 1
<1> DEFINE q == t \div MinutesPerDay
           r == t % MinutesPerDay
           h == r \div MinutesPerHour
           s == r % MinutesPerHour
<1>1. t = MinutesPerDay * q + r /\ r \in 0 .. MinutesPerDay - 1 /\ q \in Nat
  BY DayLength, DivMod
<1>2. r = MinutesPerHour * h + s /\ s \in 0 .. MinutesPerHour - 1 /\ h \in Nat
  <2>1. r \in Nat /\ MinutesPerHour \in Nat \ {0}
    BY <1>1, DayLength
  <2> HIDE DEF r
  <2> QED
    BY <2>1, DivMod
<1> HIDE DEF q, r, h, s
<1>3. t = MinutesPerHour * (HoursPerDay * q + h) + s
  BY <1>1, <1>2, DayLength
<1>4. HoursPerDay * q + h \in Nat
  BY <1>1, <1>2, DayLength
<1>5. t % MinutesPerHour = s
  BY <1>2, <1>3, <1>4, DayLength, DivModUnique
<1>6. ~ (HoursPerDay <= h)
  <2> SUFFICES ASSUME HoursPerDay <= h
               PROVE  FALSE
    OBVIOUS
  <2>1. CASE HoursPerDay = h
    BY <1>1, <1>2, <2>1, DayLength
  <2>2. CASE HoursPerDay < h
    <3>1. MinutesPerHour * HoursPerDay + MinutesPerHour <= MinutesPerHour * h
      BY <1>2, <2>2, DayLength, Multiples
    <3> QED
      BY <1>1, <1>2, <3>1, DayLength
  <2> QED
    BY <1>2, <2>1, <2>2, DayLength
<1>7. HourOf(t) = h /\ MinuteOf(t) = s
  BY <1>5 DEF HourOf, MinuteOf, h, r
<1>8. h * MinutesPerHour + s = r
  BY <1>2, DayLength
<1> QED
  BY <1>2, <1>6, <1>7, <1>8, DayLength DEF r

LEMMA SameDay ==
  ASSUME NEW t \in Nat, NEW u \in {t, t + 1}, DayOf(u) = DayOf(t)
  PROVE  u % MinutesPerDay = (t % MinutesPerDay) + (u - t)
<1>1. CASE u = t
  <2>1. t % MinutesPerDay \in Int
    BY DivMod, DayLength
  <2> QED
    BY <1>1, <2>1
<1>2. CASE u = t + 1
  <2>1. DayOf(t) \in Nat /\ t % MinutesPerDay \in Nat
    BY DivMod, DayLength DEF DayOf
  <2>2. \/ DayOf(t + 1) = DayOf(t) /\ (t + 1) % MinutesPerDay = (t % MinutesPerDay) + 1
        \/ DayOf(t + 1) = DayOf(t) + 1
    BY NextDivMod, DayLength DEF DayOf
  <2> QED
    BY <1>2, <2>1, <2>2
<1> QED
  BY <1>1, <1>2

\* What a tick can take for the minute of the day.
LEMMA TickMinute ==
  ASSUME NEW t \in Nat, NEW u \in {t, t + 1}, NEW mid \in {t, u}
  PROVE  LET minute == HourOf(t) * MinutesPerHour + MinuteOf(mid)
         IN  /\ minute \in Minutes
             /\ DayOf(u) = DayOf(t) => minute \in 0 .. u % MinutesPerDay
<1> DEFINE minute == HourOf(t) * MinutesPerHour + MinuteOf(mid)
<1>1. /\ HourOf(t) * MinutesPerHour + MinuteOf(t) = t % MinutesPerDay
      /\ HourOf(t) \in 0 .. HoursPerDay - 1
      /\ MinuteOf(t) \in 0 .. MinutesPerHour - 1
  BY HourAndMinute
<1>2. mid \in Nat /\ MinuteOf(mid) \in 0 .. MinutesPerHour - 1
  BY HourAndMinute
<1>3. HourOf(t) * MinutesPerHour \in Nat
  BY <1>1, DayLength
<1>4. minute \in Minutes
  <2>1. MinutesPerHour * HourOf(t) + MinutesPerHour <= MinutesPerHour * HoursPerDay
    BY <1>1, DayLength, Multiples
  <2>2. HourOf(t) * MinutesPerHour = MinutesPerHour * HourOf(t)
    BY <1>1, DayLength
  <2> QED
    BY <1>2, <1>3, <2>1, <2>2, DayLength DEF Minutes
<1>5. MinuteOf(mid) <= MinuteOf(t) + (mid - t)
  <2>1. CASE mid = t
    BY <1>1, <2>1
  <2>2. CASE mid = t + 1
    BY <1>1, <2>2, NextDivMod, DayLength DEF MinuteOf
  <2> QED
    BY <2>1, <2>2
<1>6. ASSUME DayOf(u) = DayOf(t)
      PROVE  u % MinutesPerDay = (t % MinutesPerDay) + (u - t)
  BY <1>6, SameDay
<1>7. ASSUME DayOf(u) = DayOf(t)
      PROVE  minute \in 0 .. u % MinutesPerDay
  <2>1. mid - t <= u - t
    OBVIOUS
  <2>2. t % MinutesPerDay \in Nat
    BY DivMod, DayLength
  <2> QED
    BY <1>1, <1>2, <1>3, <1>5, <1>6, <1>7, <2>1, <2>2
<1> QED
  BY <1>4, <1>7

-----------------------------------------------------------------------------
(* Entries of a list.                                                      *)

LEMMA MinutesOfDay ==
  /\ MinutesPerDay \in Nat
  /\ \A m : m \in Minutes <=> m \in Nat /\ m < MinutesPerDay
<1>1. MinutesPerDay \in Nat
  BY DayLength
<1> QED
  BY <1>1 DEF Minutes

LEMMA LeastOfBounded ==
  ASSUME NEW n \in Nat, NEW S, S \subseteq 0 .. n, S # {}
  PROVE  Min(S) \in S /\ \A y \in S : Min(S) <= y
<1> DEFINE T == { 0 .. x : x \in S }
<1>1. T \subseteq FiniteSubsetsOf(0 .. n) /\ T # {}
  <2>1. \A x \in S : 0 .. x \subseteq 0 .. n /\ IsFiniteSet(0 .. x)
    BY FS_Interval
  <2> QED
    BY <2>1 DEF FiniteSubsetsOf
<1>2. IsWellFoundedOn(StrictSubsetOrdering(0 .. n), FiniteSubsetsOf(0 .. n))
  BY FS_StrictSubsetOrderingWellFounded
<1>3. \E X \in T : \A Y \in T : ~ (<<Y, X>> \in StrictSubsetOrdering(0 .. n))
  <2> HIDE DEF T
  <2> QED
    BY <1>1, <1>2, WFMin
<1>4. PICK x \in S : \A y \in S : ~ (<<0 .. y, 0 .. x>> \in StrictSubsetOrdering(0 .. n))
  BY <1>3
<1>5. \A y \in S : x <= y
  <2> SUFFICES ASSUME NEW y \in S, y < x
               PROVE  FALSE
    OBVIOUS
  <2>1. 0 .. y \subseteq 0 .. x /\ 0 .. x \subseteq 0 .. n
    OBVIOUS
  <2>2. x \in 0 .. x /\ x \notin 0 .. y
    OBVIOUS
  <2>3. 0 .. y # 0 .. x /\ 0 .. y \subseteq 0 .. n
    BY <2>1, <2>2
  <2> QED
    BY <1>4, <2>1, <2>3 DEF StrictSubsetOrdering
<1> QED
  BY <1>5 DEF Min

LEMMA GreatestOfBounded ==
  ASSUME NEW n \in Nat, NEW S, S \subseteq 0 .. n, S # {}
  PROVE  Max(S) \in S /\ \A y \in S : Max(S) >= y
<1> DEFINE T == { n - x : x \in S }
<1>1. T \subseteq 0 .. n /\ T # {}
  <2>1. \A x \in S : x \in 0 .. n /\ n - x \in 0 .. n
    OBVIOUS
  <2> QED
    BY <2>1
<1>2. Min(T) \in T /\ \A y \in T : Min(T) <= y
  <2> HIDE DEF T
  <2> QED
    BY <1>1, LeastOfBounded
<1>3. PICK x \in S : \A y \in S : n - x <= n - y
  BY <1>2
<1>4. \A y \in S : x >= y
  BY <1>3
<1> QED
  BY <1>4 DEF Max

LEMMA NextEntryIs ==
  ASSUME NEW times, times \subseteq Minutes, NEW minute \in Minutes
  PROVE  /\ NextEntry(minute, times) \in Minutes \cup {MinutesPerDay}
         /\ NextEntry(minute, times) > minute
         /\ \A m \in times : m > minute => NextEntry(minute, times) <= m
<1> DEFINE S == { m \in times : m > minute } \cup {MinutesPerDay}
<1>1. S \subseteq 0 .. MinutesPerDay /\ S # {} /\ MinutesPerDay \in Nat
  BY MinutesOfDay
<1>2. Min(S) \in S /\ \A y \in S : Min(S) <= y
  <2> HIDE DEF S
  <2> QED
    BY <1>1, LeastOfBounded
<1>3. NextEntry(minute, times) = Min(S)
  BY DEF NextEntry
<1>4. MinutesPerDay > minute
  BY MinutesOfDay
<1> QED
  BY <1>2, <1>3, <1>4

\* Until the next entry nothing changes: what was due at one minute is due.
LEMMA Unmissed ==
  ASSUME NEW times, times \subseteq Minutes, NEW minute \in Minutes, NEW L \in 0 .. minute,
         minute < NextEntry(L, times)
  PROVE  /\ Past(minute, times) = Past(L, times)
         /\ NextEntry(minute, times) = NextEntry(L, times)
<1>1. L \in Nat /\ minute \in Nat /\ L <= minute /\ L \in Minutes
  BY MinutesOfDay
<1>2. \A m \in times : m \in Nat
  BY MinutesOfDay
<1>3. /\ NextEntry(L, times) \in Nat
      /\ \A m \in times : m > L => NextEntry(L, times) <= m
  BY <1>1, NextEntryIs, MinutesOfDay
<1>4. \A m \in times : m > L <=> m > minute
  BY <1>1, <1>2, <1>3
<1>5. \A m \in times : m <= L <=> m <= minute
  BY <1>1, <1>2, <1>4
<1> QED
  BY <1>4, <1>5 DEF Past, NextEntry

LEMMA LastPast ==
  ASSUME NEW times, times \subseteq Minutes, NEW minute, Past(minute, times) # {}
  PROVE  Max(Past(minute, times)) \in times
<1>1. Past(minute, times) \subseteq 0 .. MinutesPerDay - 1 /\ MinutesPerDay - 1 \in Nat
  BY MinutesOfDay DEF Past
<1>2. Max(Past(minute, times)) \in Past(minute, times)
  BY <1>1, GreatestOfBounded
<1> QED
  BY <1>2 DEF Past

LEMMA ListEntries ==
  ASSUME NEW s \in Schedules, NEW day, HasList(s, day)
  PROVE  /\ DOMAIN DayList(s, day) \subseteq Minutes
         /\ \A m \in DOMAIN DayList(s, day) : DayList(s, day)[m] \in Settings
BY FilesAssumption DEF HasList, DayList, Settings

LEMMA EmptyTable == DOMAIN <<>> = {}
OBVIOUS

LEMMA Added ==
  ASSUME NEW list, NEW old
  PROVE  /\ DOMAIN AddSettings(list, old) = DOMAIN list \cup DOMAIN old
         /\ \A m \in DOMAIN list : AddSettings(list, old)[m] = list[m]
         /\ \A m \in DOMAIN old \ DOMAIN list : AddSettings(list, old)[m] = old[m]
BY DEF AddSettings

-----------------------------------------------------------------------------
(* Types, and what the app looks up in its table.                          *)

\* A running app has a setting for each time of the day's list and for the
\* entry it used last: schedule_action finds what it looks up.
CoreInv ==
  /\ TypeOK
  /\ \A m \in DOMAIN settings : settings[m] \in Settings
  /\ status = "running" =>
       newTimes \subseteq DOMAIN settings /\ currentUse \in DOMAIN settings \cup {NoEntry}

LEMMA Taken ==
  ASSUME NEW s \in Schedules, NEW day, NEW old, NEW first \in BOOLEAN,
         TakeSchedule(s, day, old, first),
         DOMAIN old \subseteq Minutes, \A m \in DOMAIN old : old[m] \in Settings
  PROVE  /\ schedule' = s /\ firstRun' \in BOOLEAN
         /\ newTimes' \subseteq Minutes /\ newTimes' \subseteq DOMAIN settings'
         /\ DOMAIN settings' \subseteq Minutes /\ DOMAIN old \subseteq DOMAIN settings'
         /\ \A m \in DOMAIN settings' : settings'[m] \in Settings
         /\ HasList(s, day) => /\ firstRun' /\ newTimes' = DOMAIN DayList(s, day)
                               /\ \A m \in newTimes' : settings'[m] = DayList(s, day)[m]
<1>1. CASE HasList(s, day)
  <2>1. /\ schedule' = s /\ firstRun' = TRUE
        /\ newTimes' = DOMAIN DayList(s, day)
        /\ settings' = AddSettings(DayList(s, day), old)
    BY <1>1 DEF TakeSchedule
  <2>2. /\ DOMAIN DayList(s, day) \subseteq Minutes
        /\ \A m \in DOMAIN DayList(s, day) : DayList(s, day)[m] \in Settings
    BY <1>1, ListEntries
  <2>3. /\ DOMAIN settings' = newTimes' \cup DOMAIN old
        /\ \A m \in newTimes' : settings'[m] = DayList(s, day)[m]
        /\ \A m \in DOMAIN old \ newTimes' : settings'[m] = old[m]
    <3> DEFINE list == DayList(s, day)
    <3>1. /\ DOMAIN AddSettings(list, old) = DOMAIN list \cup DOMAIN old
          /\ \A m \in DOMAIN list : AddSettings(list, old)[m] = list[m]
          /\ \A m \in DOMAIN old \ DOMAIN list : AddSettings(list, old)[m] = old[m]
      BY Added
    <3>2. newTimes' = DOMAIN list /\ settings' = AddSettings(list, old)
      BY <2>1
    <3> HIDE DEF list
    <3>3. DOMAIN settings' = newTimes' \cup DOMAIN old
      BY <3>1, <3>2
    <3>4. \A m \in newTimes' : settings'[m] = list[m]
      BY <3>1, <3>2
    <3>5. \A m \in DOMAIN old \ newTimes' : settings'[m] = old[m]
      BY <3>1, <3>2
    <3> QED
      BY <3>3, <3>4, <3>5 DEF list
  <2> QED
    BY <2>1, <2>2, <2>3
<1>2. CASE ~HasList(s, day)
  BY <1>2 DEF TakeSchedule
<1> QED
  BY <1>1, <1>2

LEMMA Acted ==
  ASSUME NEW minute \in Minutes, NEW times, NEW table, ScheduleAction(minute, times, table),
         times \subseteq Minutes, times \subseteq DOMAIN table,
         \A m \in DOMAIN table : table[m] \in Settings,
         currentUse \in DOMAIN table \cup {NoEntry}, status = "running",
         commanded \in Settings \cup {NoMessage}
  PROVE  /\ currentUse' \in DOMAIN table \cup {NoEntry}
         /\ nextTime' = NextEntry(minute, times)
         /\ status' \in {"running", "dead"}
         /\ Kind # "lighting" => status' = "running"
         /\ message' \in Settings \cup {NoMessage}
         /\ commanded' \in Settings \cup {NoMessage}
         /\ status' = "running" /\ Past(minute, times) # {} =>
              commanded' = table[Max(Past(minute, times))]
<1> DEFINE past == Past(minute, times)
           use == IF past # {} THEN Max(past) ELSE currentUse
           raises == use # NoEntry /\
                       (use \notin DOMAIN table \/ (past = {} /\ Kind = "lighting"))
<1>1. /\ currentUse' = use /\ nextTime' = NextEntry(minute, times)
      /\ status' = IF raises THEN "dead" ELSE status
      /\ message' = IF use = NoEntry \/ raises THEN NoMessage ELSE table[use]
      /\ commanded' = IF message' = NoMessage THEN commanded ELSE message'
  BY DEF ScheduleAction
<1>2. past # {} => use = Max(past) /\ use \in times /\ use # NoEntry
  BY LastPast, ClockAssumption
<1>3. use \in DOMAIN table \cup {NoEntry}
  BY <1>2
<1>4. NoMessage \notin Settings
  BY SettingsAssumption
<1> HIDE DEF past, use
<1>5. use # NoEntry /\ ~raises => message' = table[use] /\ message' \in Settings
  BY <1>1, <1>3
<1>6. past # {} /\ ~raises => commanded' = table[Max(past)]
  BY <1>1, <1>2, <1>4, <1>5
<1>7. raises <=> use # NoEntry /\ past = {} /\ Kind = "lighting"
  BY <1>3, <1>2
<1> HIDE DEF raises
<1>8. message' \in Settings \cup {NoMessage} /\ commanded' \in Settings \cup {NoMessage}
  BY <1>1, <1>5
<1> QED
  BY <1>1, <1>3, <1>6, <1>7, <1>8 DEF past

LEMMA ReadBound ==
  ASSUME NEW day \in Days, NEW minute \in Minutes
  PROVE  day * MinutesPerDay + minute \in 0 .. LastMinute
<1>1. day \in Nat /\ day <= LastDay /\ minute \in Nat /\ minute < MinutesPerDay
  BY MinutesOfDay, DayLength DEF Days
<1>2. day * MinutesPerDay \in Nat
  BY <1>1, MinutesOfDay
<1>3. MinutesPerDay * day + MinutesPerDay <= MinutesPerDay * (LastDay + 1)
  <2>1. day < LastDay + 1 /\ LastDay + 1 \in Nat /\ MinutesPerDay \in Nat \ {0}
    BY <1>1, DayLength
  <2> QED
    BY <1>1, <2>1, Multiples
<1>4. /\ MinutesPerDay * day = day * MinutesPerDay
      /\ MinutesPerDay * (LastDay + 1) = (LastDay + 1) * MinutesPerDay
  BY <1>1, DayLength
<1>5. (LastDay + 1) * MinutesPerDay \in Nat
  BY DayLength
<1> QED
  BY <1>1, <1>2, <1>3, <1>4, <1>5, MinutesOfDay DEF LastMinute

\* What a tick reads, and what it does with it.
Tick(after, minute) ==
  LET day == DayOf(after)
      list == DayList(schedule, day)
      newDay == day # oldDay /\ schedule # NoSchedule
  IN
  /\ now' = after
  /\ read' = day * MinutesPerDay + minute
  /\ UNCHANGED <<appSetting, schedule>>
  /\ \/ /\ newDay
        /\ \/ ~HasList(schedule, day) /\ UNCHANGED connected
           \/ AsksDatabase(schedule) /\ connected' = FALSE
        /\ status' = "dead"
        /\ message' = NoMessage
        /\ UNCHANGED <<newTimes, settings, currentUse, firstRun, oldDay, nextTime, commanded>>
     \/ /\ newDay /\ HasList(schedule, day)
        /\ AsksDatabase(schedule) => connected
        /\ UNCHANGED connected
        /\ oldDay' = day /\ firstRun' = FALSE
        /\ newTimes' = DOMAIN list
        /\ settings' = AddSettings(list, settings)
        /\ ScheduleAction(minute, newTimes', settings')
     \/ /\ ~newDay
        /\ firstRun' = FALSE
        /\ UNCHANGED <<connected, oldDay, newTimes, settings>>
        /\ \/ ScheduleAction(minute, newTimes, settings)
           \/ /\ ~firstRun /\ ~(minute >= nextTime)
              /\ message' = NoMessage
              /\ UNCHANGED <<status, currentUse, nextTime, commanded>>

LEMMA TickReads ==
  ASSUME TypeOK, ClockBehavior
  PROVE  /\ status = "running"
         /\ \E after \in 0 .. LastMinute, minute \in Minutes :
              /\ after \in {now} \cup { t \in {now + 1} : now \in Straddled }
              /\ DayOf(after) = DayOf(now) => minute \in 0 .. after % MinutesPerDay
              /\ Tick(after, minute)
<1>1. PICK after \in {now} \cup { t \in {now + 1} : now \in Straddled } :
        \E mid \in {now, after} :
          /\ status = "running"
          /\ Tick(after, HourOf(now) * MinutesPerHour + MinuteOf(mid))
  BY DEF ClockBehavior, Tick
<1>2. PICK mid \in {now, after} :
          /\ status = "running"
          /\ Tick(after, HourOf(now) * MinutesPerHour + MinuteOf(mid))
  BY <1>1
<1>3. now \in Nat /\ after \in {now, now + 1} /\ after \in 0 .. LastMinute
  BY DayLength, ClockAssumption DEF TypeOK
<1> DEFINE minute == HourOf(now) * MinutesPerHour + MinuteOf(mid)
<1>4. /\ minute \in Minutes
      /\ DayOf(after) = DayOf(now) => minute \in 0 .. after % MinutesPerDay
  BY <1>3, TickMinute
<1> HIDE DEF minute
<1>5. Tick(after, minute) /\ status = "running"
  BY <1>2 DEF minute
<1> QED
  BY <1>3, <1>4, <1>5

LEMMA NextCore == CoreInv /\ [Next]_vars => CoreInv'
<1> SUFFICES ASSUME CoreInv, [Next]_vars
             PROVE  CoreInv'
  OBVIOUS
<1>1. TypeOK
  BY DEF CoreInv
<1>2. ASSUME NEW f \in Files, UpdateScheduleBehavior(f)
      PROVE  CoreInv'
  <2>1. CASE UNCHANGED <<schedule, newTimes, settings, firstRun>> /\ message' = NoMessage
             /\ appSetting' \in {appSetting, f} /\ connected' \in BOOLEAN
    BY <1>2, <2>1 DEF UpdateScheduleBehavior, CoreInv, TypeOK
  <2>2. ASSUME Content[f] # Unreadable, appSetting' = f, connected' \in BOOLEAN,
               TakeSchedule(Content[f], DayOf(now), settings, firstRun)
        PROVE  CoreInv'
    <3>1. Content[f] \in Schedules
      BY <2>2 DEF Schedules
    <3>2. /\ schedule' = Content[f] /\ firstRun' \in BOOLEAN
          /\ newTimes' \subseteq Minutes /\ newTimes' \subseteq DOMAIN settings'
          /\ DOMAIN settings' \subseteq Minutes
          /\ DOMAIN settings \subseteq DOMAIN settings'
          /\ \A m \in DOMAIN settings' : settings'[m] \in Settings
      BY <2>2, <3>1, Taken DEF CoreInv, TypeOK
    <3>3. message' \in {"success", NoMessage}
      BY <1>2 DEF UpdateScheduleBehavior
    <3> QED
      BY <1>2, <2>2, <3>1, <3>2, <3>3 DEF UpdateScheduleBehavior, CoreInv, TypeOK
  <2>3. ASSUME Content[f] # Unreadable, appSetting' = f, message' = NoMessage,
               TakeInVain(Content[f], newTimes, settings, firstRun)
        PROVE  CoreInv'
    BY <1>2, <2>3 DEF UpdateScheduleBehavior, TakeInVain, Schedules, CoreInv, TypeOK
  <2> QED
    BY <1>1, <1>2, <2>1, <2>2, <2>3 DEF UpdateScheduleBehavior, TypeOK
<1>3. CASE ClockBehavior
  <2>1. PICK after \in 0 .. LastMinute, minute \in Minutes :
          status = "running" /\ Tick(after, minute)
    BY <1>1, <1>3, TickReads
  <2> DEFINE day == DayOf(after)
             list == DayList(schedule, day)
  <2>2. day \in Days /\ day * MinutesPerDay + minute \in 0 .. LastMinute
    BY DayOfBound, ReadBound
  <2>3. /\ now' = after /\ read' = day * MinutesPerDay + minute
        /\ UNCHANGED <<appSetting, schedule>>
    BY <2>1 DEF Tick
  <2> connected' \in BOOLEAN
    BY <1>1, <2>1 DEF Tick, TypeOK
  <2>4. CASE status' = "dead" /\ message' = NoMessage
             /\ UNCHANGED <<newTimes, settings, currentUse, firstRun, oldDay, nextTime, commanded>>
    BY <2>2, <2>3, <2>4 DEF CoreInv, TypeOK
  <2>5. ASSUME NEW times, NEW table, ScheduleAction(minute, times, table),
               newTimes' = times, settings' = table, firstRun' = FALSE, oldDay' \in Days,
               times \subseteq Minutes, times \subseteq DOMAIN table,
               DOMAIN settings \subseteq DOMAIN table, DOMAIN table \subseteq Minutes,
               \A m \in DOMAIN table : table[m] \in Settings
        PROVE  CoreInv'
    <3>1. /\ currentUse \in DOMAIN table \cup {NoEntry}
          /\ commanded \in Settings \cup {NoMessage}
      BY <2>1, <2>5 DEF CoreInv, TypeOK
    <3>2. /\ currentUse' \in DOMAIN table \cup {NoEntry}
          /\ nextTime' = NextEntry(minute, times)
          /\ status' \in {"running", "dead"}
          /\ message' \in Settings \cup {NoMessage}
          /\ commanded' \in Settings \cup {NoMessage}
      BY <2>1, <2>5, <3>1, Acted
    <3>3. nextTime' \in Minutes \cup {MinutesPerDay}
      BY <2>5, <3>2, NextEntryIs
    <3> QED
      BY <2>2, <2>3, <2>5, <3>2, <3>3 DEF CoreInv, TypeOK
  <2>6. ASSUME schedule # NoSchedule, HasList(schedule, day), oldDay' = day,
               firstRun' = FALSE, newTimes' = DOMAIN list,
               settings' = AddSettings(list, settings),
               ScheduleAction(minute, newTimes', settings')
        PROVE  CoreInv'
    <3>1. schedule \in Schedules
      BY <2>6 DEF CoreInv, TypeOK
    <3>2. DOMAIN list \subseteq Minutes /\ \A m \in DOMAIN list : list[m] \in Settings
      BY <2>6, <3>1, ListEntries
    <3>3. /\ DOMAIN settings \subseteq Minutes
          /\ \A m \in DOMAIN settings : settings[m] \in Settings
      BY DEF CoreInv, TypeOK
    <3> DEFINE table == AddSettings(list, settings)
    <3>4. /\ DOMAIN table = DOMAIN list \cup DOMAIN settings
          /\ \A m \in DOMAIN list : table[m] = list[m]
          /\ \A m \in DOMAIN settings \ DOMAIN list : table[m] = settings[m]
      BY Added
    <3>5. ScheduleAction(minute, DOMAIN list, table)
      BY <2>6
    <3> HIDE DEF table, list
    <3>6. \A m \in DOMAIN table : table[m] \in Settings
      BY <3>2, <3>3, <3>4
    <3>7. settings' = table
      BY <2>6 DEF table
    <3> QED
      BY <2>2, <2>5, <2>6, <3>2, <3>3, <3>4, <3>5, <3>6, <3>7
  <2>7. ASSUME firstRun' = FALSE, UNCHANGED <<oldDay, newTimes, settings>>,
               ScheduleAction(minute, newTimes, settings)
        PROVE  CoreInv'
    BY <2>1, <2>5, <2>7 DEF CoreInv, TypeOK
  <2>8. ASSUME firstRun' = FALSE, message' = NoMessage,
               UNCHANGED <<oldDay, newTimes, settings, status, currentUse, nextTime, commanded>>
        PROVE  CoreInv'
    BY <2>2, <2>3, <2>8 DEF CoreInv, TypeOK
  <2> QED
    BY <2>1, <2>4, <2>6, <2>7, <2>8 DEF Tick
<1>4. CASE TimePasses
  <2>1. now' \in 0 .. LastMinute
    BY <1>4, DayLength DEF TimePasses, CoreInv, TypeOK
  <2> QED
    BY <1>4, <2>1 DEF TimePasses, app, CoreInv, TypeOK
<1>5. CASE Kill
  BY <1>5 DEF Kill, app, CoreInv, TypeOK
<1>6. CASE Start
  <2>1. DayOf(now) \in Days /\ MinutesPerDay \in Nat
    BY <1>1, DayOfBound, MinutesOfDay DEF TypeOK
  <2>2. ASSUME appSetting \in Files, Content[appSetting] # Unreadable, connected' = TRUE,
               TakeSchedule(Content[appSetting], DayOf(now), <<>>, FALSE)
        PROVE  CoreInv'
    <3>1. Content[appSetting] \in Schedules
      BY <2>2 DEF Schedules
    <3>2. /\ schedule' = Content[appSetting] /\ firstRun' \in BOOLEAN
          /\ newTimes' \subseteq Minutes /\ newTimes' \subseteq DOMAIN settings'
          /\ DOMAIN settings' \subseteq Minutes
          /\ \A m \in DOMAIN settings' : settings'[m] \in Settings
      BY <2>2, <3>1, Taken, EmptyTable
    <3> QED
      BY <1>6, <2>1, <2>2, <3>1, <3>2 DEF Start, CoreInv, TypeOK
  <2>3. ASSUME schedule' \in Schedules \cup {NoSchedule}, connected' \in BOOLEAN,
               newTimes' = {}, settings' = <<>>, firstRun' = FALSE
        PROVE  CoreInv'
    BY <1>6, <2>1, <2>3, EmptyTable DEF Start, CoreInv, TypeOK
  <2> QED
    BY <1>6, <2>2, <2>3 DEF Start, TakeInVain, Schedules
<1>7. CASE UNCHANGED vars
  BY <1>7 DEF vars, app, CoreInv, TypeOK
<1> QED
  BY <1>2, <1>3, <1>4, <1>5, <1>6, <1>7 DEF Next

LEMMA InitCore == Init => CoreInv
<1>1. 0 \in Days /\ 0 \in 0 .. LastMinute
  BY DayLength DEF Days
<1> QED
  BY <1>1, EmptyTable, MinutesOfDay DEF Init, CoreInv, TypeOK

\* Every variable keeps its type, for every calendar and every set of files.
THEOREM TypeCorrect == Spec => []TypeOK
<1>1. CoreInv => TypeOK
  BY DEF CoreInv
<1> QED
  BY <1>1, InitCore, NextCore, PTL DEF Spec

-----------------------------------------------------------------------------

\* An app that ended of an exception had a schedule that lacks a list for one
\* of the days, or had to ask the database about holidays after a statement
\* failed.  The lighting app also dies in a print, so it is left out.
THEOREM NeverDies ==
  ASSUME Kind # "lighting"
  PROVE  Spec => []AppSurvives
<1>1. ASSUME CoreInv, AppSurvives, [Next]_vars
      PROVE  AppSurvives'
  <2>1. \A s, day : HasList(s, day)' <=> HasList(s, day)
    BY DEF HasList, QueryMode
  <2>2. UNCHANGED <<schedule, status, connected>> => AppSurvives'
    BY <1>1, <2>1 DEF AppSurvives, AsksDatabase
  <2>3. status' # "dead" => AppSurvives'
    BY DEF AppSurvives
  <2>4. ASSUME NEW f \in Files, UpdateScheduleBehavior(f)
        PROVE  AppSurvives'
    BY <2>3, <2>4 DEF UpdateScheduleBehavior
  <2>5. CASE ClockBehavior
    <3>1. PICK after \in 0 .. LastMinute, minute \in Minutes :
            status = "running" /\ Tick(after, minute)
      BY <1>1, <2>5, TickReads DEF CoreInv
    <3>2. DayOf(after) \in Days
      BY DayOfBound
    <3>3. \/ ~HasList(schedule, DayOf(after)) /\ schedule' = schedule
          \/ AsksDatabase(schedule) /\ schedule' = schedule /\ connected' = FALSE
          \/ status' = "running"
          \/ /\ schedule # NoSchedule
             /\ HasList(schedule, DayOf(after))
             /\ newTimes' = DOMAIN DayList(schedule, DayOf(after))
             /\ settings' = AddSettings(DayList(schedule, DayOf(after)), settings)
             /\ ScheduleAction(minute, newTimes', settings')
          \/ ScheduleAction(minute, newTimes, settings)
      BY <3>1 DEF Tick
    <3>4. ASSUME ~HasList(schedule, DayOf(after)), schedule' = schedule
          PROVE  AppSurvives'
      BY <2>1, <3>2, <3>4 DEF AppSurvives
    <3>8. ASSUME AsksDatabase(schedule), schedule' = schedule, connected' = FALSE
          PROVE  AppSurvives'
      BY <3>8 DEF AppSurvives, AsksDatabase
    <3>5. ASSUME NEW times, NEW table, ScheduleAction(minute, times, table),
                 times \subseteq Minutes, times \subseteq DOMAIN table,
                 DOMAIN settings \subseteq DOMAIN table,
                 \A m \in DOMAIN table : table[m] \in Settings
          PROVE  status' = "running"
      <4>1. /\ currentUse \in DOMAIN table \cup {NoEntry}
            /\ commanded \in Settings \cup {NoMessage}
        BY <1>1, <3>1, <3>5 DEF CoreInv, TypeOK
      <4> QED
        BY <3>1, <3>5, <4>1, Acted
    <3>6. CASE ScheduleAction(minute, newTimes, settings)
      BY <1>1, <2>3, <3>1, <3>5, <3>6 DEF CoreInv, TypeOK
    <3>7. ASSUME schedule # NoSchedule, HasList(schedule, DayOf(after)),
                 newTimes' = DOMAIN DayList(schedule, DayOf(after)),
                 settings' = AddSettings(DayList(schedule, DayOf(after)), settings),
                 ScheduleAction(minute, newTimes', settings')
          PROVE  status' = "running"
      <4> DEFINE list == DayList(schedule, DayOf(after))
                 table == AddSettings(list, settings)
      <4>1. schedule \in Schedules
        BY <1>1, <3>7 DEF CoreInv, TypeOK
      <4>2. DOMAIN list \subseteq Minutes /\ \A m \in DOMAIN list : list[m] \in Settings
        BY <3>7, <4>1, ListEntries
      <4>3. /\ DOMAIN table = DOMAIN list \cup DOMAIN settings
            /\ \A m \in DOMAIN list : table[m] = list[m]
            /\ \A m \in DOMAIN settings \ DOMAIN list : table[m] = settings[m]
        BY Added
      <4>4. ScheduleAction(minute, DOMAIN list, table)
        BY <3>7
      <4> HIDE DEF table, list
      <4>5. \A m \in DOMAIN table : table[m] \in Settings
        BY <1>1, <4>2, <4>3 DEF CoreInv
      <4> QED
        BY <3>5, <4>2, <4>3, <4>4, <4>5
    <3> QED
      BY <2>3, <3>3, <3>4, <3>6, <3>7, <3>8
  <2>6. CASE TimePasses
    BY <2>2, <2>6 DEF TimePasses, app
  <2>7. CASE Kill
    BY <2>3, <2>7 DEF Kill
  <2>8. CASE Start
    BY <2>3, <2>8 DEF Start
  <2>9. CASE UNCHANGED vars
    BY <2>2, <2>9 DEF vars, app
  <2> QED
    BY <1>1, <2>4, <2>5, <2>6, <2>7, <2>8, <2>9 DEF Next
<1>2. Init => AppSurvives
  BY DEF Init, AppSurvives
<1> QED
  BY <1>1, <1>2, InitCore, NextCore, PTL DEF Spec

\* A restart resumes the schedule the UI was told is in force: the row and the
\* schedule of the process never part, unless the file cannot be read or the database failed.
THEOREM RowAgrees == Spec => []RowInForce
<1>1. Init => RowInForce
  BY DEF Init, RowInForce
<1>2. RowInForce /\ [Next]_vars => RowInForce'
  <2> SUFFICES ASSUME RowInForce, [Next]_vars
               PROVE  RowInForce'
    OBVIOUS
  <2>1. UNCHANGED <<appSetting, schedule>> /\ status = "running" /\ (connected' => connected)
          => RowInForce'
    BY DEF RowInForce
  <2>2. ASSUME NEW f \in Files, UpdateScheduleBehavior(f)
        PROVE  RowInForce'
    BY <2>2 DEF UpdateScheduleBehavior, TakeSchedule, TakeInVain, RowInForce
  <2>3. CASE ClockBehavior
    BY <2>1, <2>3 DEF ClockBehavior
  <2>4. CASE TimePasses
    BY <2>4 DEF TimePasses, app, RowInForce
  <2>5. CASE Kill
    BY <2>5 DEF Kill, RowInForce
  <2>6. CASE Start
    BY <2>6 DEF Start, TakeSchedule, TakeInVain, RowInForce
  <2>7. CASE UNCHANGED vars
    BY <2>7 DEF vars, app, RowInForce
  <2> QED
    BY <2>2, <2>3, <2>4, <2>5, <2>6, <2>7 DEF Next
<1> QED
  BY <1>1, <1>2, PTL DEF Spec

-----------------------------------------------------------------------------
(* The commands of the day.                                                *)

\* The app stands as it would after an action at minute L of today.
Due(L) ==
  /\ nextTime = NextEntry(L, newTimes)
  /\ Past(L, newTimes) # {} =>
       commanded = DayList(schedule, DayOf(now))[Max(Past(L, newTimes))]

HasToday ==
  /\ status = "running" /\ schedule # NoSchedule
  /\ HasList(schedule, DayOf(now))
  /\ AsksDatabase(schedule) => connected

InForce ==
  /\ newTimes = DOMAIN DayList(schedule, DayOf(now))
  /\ \A m \in newTimes : settings[m] = DayList(schedule, DayOf(now))[m]

\* Once its list of today is loaded, the app has acted for some minute gone by,
\* and for the present one right after a tick.
DayInv ==
  /\ oldDay <= DayOf(now)
  /\ HasToday /\ oldDay = DayOf(now) =>
       /\ InForce
       /\ firstRun \/ \E L \in 0 .. now % MinutesPerDay : Due(L)
  /\ ServesToday =>
       oldDay = DayOf(now) /\ InForce /\ ~firstRun /\ Due(now % MinutesPerDay)

LEMMA DayInvSuffices == TypeOK /\ DayInv => OnSchedule /\ WakesForNext
<1> SUFFICES ASSUME TypeOK, DayInv, ServesToday
             PROVE  /\ LET list == DayList(schedule, DayOf(now))
                           past == { m \in DOMAIN list : m <= now % MinutesPerDay }
                       IN  past # {} => commanded = list[Max(past)]
                    /\ LET list == DayList(schedule, DayOf(now))
                       IN  /\ ~firstRun /\ oldDay = DayOf(now) /\ newTimes = DOMAIN list
                           /\ nextTime = Min({ m \in DOMAIN list : m > now % MinutesPerDay }
                                               \cup {MinutesPerDay})
  BY DEF OnSchedule, WakesForNext
<1>1. /\ oldDay = DayOf(now) /\ ~firstRun
      /\ newTimes = DOMAIN DayList(schedule, DayOf(now))
      /\ Due(now % MinutesPerDay)
  BY DEF DayInv, InForce
<1> QED
  BY <1>1 DEF Due, Past, NextEntry

LEMMA TakenDay ==
  ASSUME NEW s \in Schedules, NEW old, NEW first \in BOOLEAN, now \in 0 .. LastMinute,
         TakeSchedule(s, DayOf(now), old, first),
         DOMAIN old \subseteq Minutes, \A m \in DOMAIN old : old[m] \in Settings,
         now' = now, oldDay' <= DayOf(now), read' = NoRead
  PROVE  DayInv'
<1>1. /\ schedule' = s
      /\ HasList(s, DayOf(now)) =>
           /\ firstRun' /\ newTimes' = DOMAIN DayList(s, DayOf(now))
           /\ \A m \in newTimes' : settings'[m] = DayList(s, DayOf(now))[m]
  BY Taken
<1>2. ~ ServesToday'
  BY DayLength DEF ServesToday, NoRead
<1> QED
  BY <1>1, <1>2 DEF DayInv, HasToday, InForce, DayOf, HasList, DayList, QueryMode

\* The reads of a tick do not straddle midnight.
WithinDay == \A t \in Straddled : DayOf(t + 1) = DayOf(t)

LEMMA TickDay ==
  ASSUME WithinDay, CoreInv, DayInv, ClockBehavior
  PROVE  DayInv'
<1>1. TypeOK
  BY DEF CoreInv
<1>2. PICK after \in 0 .. LastMinute, minute \in Minutes :
        /\ after \in {now} \cup { t \in {now + 1} : now \in Straddled }
        /\ DayOf(after) = DayOf(now) => minute \in 0 .. after % MinutesPerDay
        /\ Tick(after, minute)
  BY <1>1, TickReads
<1>3. status = "running"
  BY <1>1, TickReads
<1> DEFINE day == DayOf(after)
           list == DayList(schedule, day)
           served == /\ schedule # NoSchedule /\ HasList(schedule, day)
                     /\ AsksDatabase(schedule) => connected'
<1>4. day = DayOf(now) /\ minute \in 0 .. after % MinutesPerDay
  BY <1>2 DEF WithinDay
<1>5. /\ now' = after /\ read' = day * MinutesPerDay + minute /\ schedule' = schedule
  BY <1>2 DEF Tick
<1>6. /\ DayOf(now)' = day
      /\ DayList(schedule, DayOf(now))' = list
      /\ HasList(schedule, DayOf(now))' <=> HasList(schedule, day)
  BY <1>5 DEF DayOf, DayList, HasList, QueryMode
<1>7. read' = now' => minute = after % MinutesPerDay
  <2>1. /\ after = day * MinutesPerDay + (after % MinutesPerDay)
        /\ after % MinutesPerDay \in Minutes /\ day \in Nat
    BY DayOfBound DEF Days
  <2>2. day * MinutesPerDay \in Nat
    BY <2>1, MinutesOfDay
  <2> QED
    BY <1>5, <2>1, <2>2, MinutesOfDay
<1>8. after % MinutesPerDay \in Minutes /\ minute \in Nat /\ oldDay <= day
  BY <1>4, DayOfBound, MinutesOfDay DEF DayInv
\* It is enough to see that the step leaves the app as an action at a minute
\* gone by does, the present one if the tick took it to be the present one.
<1>9. ASSUME NEW M \in 0 .. after % MinutesPerDay, minute = after % MinutesPerDay => M = minute,
             status' = "running" /\ served =>
               /\ oldDay' = day /\ firstRun' = FALSE
               /\ newTimes' = DOMAIN list
               /\ \A m \in newTimes' : settings'[m] = list[m]
               /\ nextTime' = NextEntry(M, newTimes')
               /\ Past(M, newTimes') # {} => commanded' = list[Max(Past(M, newTimes'))],
             oldDay' <= day
      PROVE  DayInv'
  <2>1. HasToday' => status' = "running" /\ served
    BY <1>5, <1>6 DEF HasToday, AsksDatabase
  <2>2. ServesToday' => HasToday' /\ M = after % MinutesPerDay
    BY <1>7, <1>9 DEF ServesToday, HasToday
  <2>3. ASSUME HasToday'
        PROVE  oldDay' = day /\ InForce' /\ firstRun' = FALSE /\ Due(M)'
    BY <1>6, <1>9, <2>1, <2>3 DEF InForce, Due, NextEntry, Past, MinutesPerDay
  <2>4. (now % MinutesPerDay)' = after % MinutesPerDay
    BY <1>5 DEF MinutesPerDay
  <2> QED
    BY <1>6, <1>9, <2>2, <2>3, <2>4 DEF DayInv
<1>10. CASE status' = "dead" /\ oldDay' = oldDay
  BY <1>4, <1>8, <1>9, <1>10
<1>11. ASSUME NEW times, NEW table, ScheduleAction(minute, times, table),
              newTimes' = times, settings' = table, firstRun' = FALSE, oldDay' <= day,
              times \subseteq Minutes, times \subseteq DOMAIN table,
              DOMAIN settings \subseteq DOMAIN table,
              \A m \in DOMAIN table : table[m] \in Settings,
              served =>
                oldDay' = day /\ times = DOMAIN list /\ \A m \in times : table[m] = list[m]
       PROVE  DayInv'
  <2>1. /\ currentUse \in DOMAIN table \cup {NoEntry}
        /\ commanded \in Settings \cup {NoMessage}
    BY <1>3, <1>11 DEF CoreInv, TypeOK
  <2>2. /\ nextTime' = NextEntry(minute, times)
        /\ status' = "running" /\ Past(minute, times) # {} =>
             commanded' = table[Max(Past(minute, times))]
    BY <1>3, <1>11, <2>1, Acted
  <2>3. Past(minute, times) # {} => Max(Past(minute, times)) \in times
    BY <1>11, LastPast
  <2> HIDE DEF list, day, served
  <2> QED
    BY <1>4, <1>9, <1>11, <2>2, <2>3
<1>12. ASSUME schedule # NoSchedule, HasList(schedule, day), oldDay' = day,
              firstRun' = FALSE, newTimes' = DOMAIN list,
              settings' = AddSettings(list, settings),
              ScheduleAction(minute, newTimes', settings')
       PROVE  DayInv'
  <2>1. schedule \in Schedules
    BY <1>12 DEF CoreInv, TypeOK
  <2>2. DOMAIN list \subseteq Minutes /\ \A m \in DOMAIN list : list[m] \in Settings
    BY <1>12, <2>1, ListEntries
  <2> DEFINE table == AddSettings(list, settings)
  <2>3. /\ DOMAIN table = DOMAIN list \cup DOMAIN settings
        /\ \A m \in DOMAIN list : table[m] = list[m]
        /\ \A m \in DOMAIN settings \ DOMAIN list : table[m] = settings[m]
    BY Added
  <2>4. ScheduleAction(minute, DOMAIN list, table) /\ settings' = table
    BY <1>12
  <2>5. day \in Nat
    BY DayOfBound DEF Days
  <2> HIDE DEF table, list, day
  <2>6. \A m \in DOMAIN table : table[m] \in Settings
    BY <2>2, <2>3 DEF CoreInv
  <2>7. oldDay' <= day
    BY <1>12, <2>5
  <2> QED
    BY <1>11, <1>12, <2>2, <2>3, <2>4, <2>6, <2>7
<1>13. served /\ UNCHANGED connected /\ ~(day # oldDay /\ schedule # NoSchedule)
         => HasToday /\ oldDay = DayOf(now) /\ InForce
  BY <1>3, <1>4 DEF HasToday, DayInv
<1>14. ASSUME ~(day # oldDay /\ schedule # NoSchedule), firstRun' = FALSE,
              UNCHANGED <<connected, oldDay, newTimes, settings>>,
              ScheduleAction(minute, newTimes, settings)
       PROVE  DayInv'
  <2>1. served =>
          oldDay' = day /\ newTimes = DOMAIN list /\ \A m \in newTimes : settings[m] = list[m]
    BY <1>4, <1>13, <1>14 DEF InForce
  <2>2. /\ newTimes \subseteq Minutes /\ newTimes \subseteq DOMAIN settings
        /\ \A m \in DOMAIN settings : settings[m] \in Settings
    BY <1>3 DEF CoreInv, TypeOK
  <2> HIDE DEF list, day, served
  <2> QED
    BY <1>8, <1>11, <1>14, <2>1, <2>2
\* No action: nothing has become due since the last one.
<1>15. ASSUME ~(day # oldDay /\ schedule # NoSchedule), ~firstRun, ~(minute >= nextTime),
              firstRun' = FALSE,
              UNCHANGED <<connected, oldDay, newTimes, settings, status, nextTime, commanded>>
       PROVE  DayInv'
  <2>1. CASE ~served
    BY <1>4, <1>8, <1>9, <1>15, <2>1
  <2>2. CASE served
    <3>1. HasToday /\ oldDay = DayOf(now) /\ InForce
      BY <1>13, <1>15, <2>2
    <3>2. PICK L \in 0 .. now % MinutesPerDay : Due(L)
      BY <1>15, <3>1 DEF DayInv
    <3>3. newTimes \subseteq Minutes /\ nextTime \in Nat
      BY MinutesOfDay DEF CoreInv, TypeOK
    <3>4. now % MinutesPerDay \in Minutes /\ now % MinutesPerDay <= after % MinutesPerDay
      <4>1. now \in Nat /\ after \in {now, now + 1}
        BY <1>1, <1>2, DayLength DEF TypeOK
      <4>2. now % MinutesPerDay \in Minutes
        BY <1>1, DayOfBound DEF TypeOK
      <4>3. after % MinutesPerDay = (now % MinutesPerDay) + (after - now)
        BY <1>4, <4>1, SameDay
      <4> QED
        BY <4>1, <4>2, <4>3, MinutesOfDay
    <3>5. L \in Nat /\ L \in 0 .. after % MinutesPerDay
      BY <1>8, <3>4, MinutesOfDay
    <3>6. nextTime = NextEntry(L, newTimes) /\ minute < nextTime
      BY <1>8, <1>15, <3>2, <3>3 DEF Due
    <3>7. CASE L <= minute
      <4>1. L \in 0 .. minute
        BY <1>8, <3>5, <3>7
      <4>2. /\ Past(minute, newTimes) = Past(L, newTimes)
            /\ NextEntry(minute, newTimes) = NextEntry(L, newTimes)
        BY <3>3, <3>6, <4>1, Unmissed
      <4> QED
        BY <1>4, <1>8, <1>9, <1>15, <3>1, <3>2, <4>2 DEF Due, InForce
    <3>8. CASE minute < L
      <4>1. minute # after % MinutesPerDay
        BY <1>8, <3>5, <3>8
      <4> QED
        BY <1>4, <1>8, <1>9, <1>15, <3>1, <3>2, <3>5, <4>1 DEF Due, InForce
    <3> QED
      BY <1>8, <3>5, <3>7, <3>8
  <2> QED
    BY <2>1, <2>2
<1> QED
  BY <1>2, <1>10, <1>12, <1>14, <1>15 DEF Tick

LEMMA NextDay ==
  ASSUME WithinDay
  PROVE  CoreInv /\ DayInv /\ [Next]_vars => DayInv'
<1> SUFFICES ASSUME CoreInv, DayInv, [Next]_vars
             PROVE  DayInv'
  OBVIOUS
<1>1. /\ now \in 0 .. LastMinute /\ now \in Nat /\ firstRun \in BOOLEAN
      /\ DayOf(now) \in Nat /\ oldDay <= DayOf(now) /\ oldDay \in Nat
  BY DayOfBound, DayLength DEF CoreInv, TypeOK, DayInv, Days
<1>2. read' = NoRead /\ now' \in Nat => ~ ServesToday'
  BY DEF ServesToday, NoRead
<1>3. ASSUME NEW f \in Files, UpdateScheduleBehavior(f)
      PROVE  DayInv'
  <2>1. CASE UNCHANGED <<schedule, newTimes, settings, firstRun>> /\ (connected' => connected)
    <3>1. UNCHANGED <<now, status, oldDay, nextTime, commanded>> /\ read' = NoRead
      BY <1>3 DEF UpdateScheduleBehavior
    <3>2. HasToday' => HasToday
      BY <2>1, <3>1 DEF HasToday, AsksDatabase, DayOf, HasList, QueryMode
    <3>3. (InForce' <=> InForce) /\ \A L : Due(L)' <=> Due(L)
      BY <2>1, <3>1 DEF InForce, Due, DayOf, DayList, QueryMode, NextEntry, Past
    <3> QED
      BY <1>1, <1>2, <2>1, <3>1, <3>2, <3>3 DEF DayInv, DayOf
  <2>2. ASSUME Content[f] # Unreadable,
               TakeSchedule(Content[f], DayOf(now), settings, firstRun)
        PROVE  DayInv'
    <3>1. Content[f] \in Schedules
      BY <2>2 DEF Schedules
    <3>2. now' = now /\ oldDay' = oldDay /\ read' = NoRead
      BY <1>3 DEF UpdateScheduleBehavior
    <3> QED
      BY <1>1, <2>2, <3>1, <3>2, TakenDay DEF CoreInv, TypeOK
  <2>3. ASSUME TakeInVain(Content[f], newTimes, settings, firstRun)
        PROVE  DayInv'
    <3>1. UNCHANGED <<now, oldDay>> /\ read' = NoRead
      BY <1>3 DEF UpdateScheduleBehavior
    <3>2. ~HasToday'
      BY <2>3 DEF TakeInVain, HasToday, AsksDatabase
    <3> QED
      BY <1>1, <1>2, <3>1, <3>2 DEF DayInv, DayOf
  <2> QED
    BY <1>3, <2>1, <2>2, <2>3 DEF UpdateScheduleBehavior
<1>4. CASE ClockBehavior
  BY <1>4, TickDay
<1>5. CASE TimePasses
  <2>1. /\ now' = now + 1 /\ read' = NoRead
        /\ UNCHANGED <<connected, status, schedule, newTimes, settings, firstRun, oldDay, nextTime,
                       commanded>>
    BY <1>5 DEF TimePasses, app
  <2>2. DayOf(now') \in {DayOf(now), DayOf(now) + 1}
    BY <1>1, <2>1, NextDivMod, DayLength DEF DayOf
  <2>3. CASE DayOf(now') = DayOf(now) + 1
    <3>1. ~ (oldDay' = DayOf(now)') /\ oldDay' <= DayOf(now)'
      BY <1>1, <2>1, <2>3 DEF DayOf, MinutesPerDay
    <3> QED
      BY <1>1, <1>2, <2>1, <3>1 DEF DayInv
  <2>4. CASE DayOf(now') = DayOf(now)
    <3>1. now' % MinutesPerDay = (now % MinutesPerDay) + 1
      BY <1>1, <2>1, <2>4, SameDay
    <3>2. now % MinutesPerDay \in Nat
      BY <1>1, DayOfBound, MinutesOfDay
    <3>3. 0 .. now % MinutesPerDay \subseteq 0 .. now' % MinutesPerDay
      BY <3>1, <3>2
    <3>4. /\ DayOf(now)' = DayOf(now) /\ (now % MinutesPerDay)' = now' % MinutesPerDay
          /\ (HasToday' <=> HasToday) /\ (InForce' <=> InForce)
          /\ \A L : Due(L)' <=> Due(L)
      BY <2>1, <2>4 DEF DayOf, MinutesPerDay, HasToday, InForce, Due, HasList, DayList, QueryMode,
                        AsksDatabase,
                        NextEntry, Past
    <3> QED
      BY <1>1, <1>2, <2>1, <3>3, <3>4 DEF DayInv
  <2> QED
    BY <2>2, <2>3, <2>4
<1>6. CASE Kill
  BY <1>1, <1>6 DEF Kill, app, DayInv, HasToday, ServesToday, DayOf, MinutesPerDay
<1>7. CASE Start
  <2>1. now' = now /\ oldDay' = DayOf(now) /\ read' = NoRead
    BY <1>7 DEF Start
  <2>2. ASSUME appSetting \in Files, Content[appSetting] # Unreadable,
               TakeSchedule(Content[appSetting], DayOf(now), <<>>, FALSE)
        PROVE  DayInv'
    <3>1. Content[appSetting] \in Schedules
      BY <2>2 DEF Schedules
    <3>2. oldDay' <= DayOf(now) /\ FALSE \in BOOLEAN
      BY <1>1, <2>1
    <3>3. PICK old : old = <<>>
      OBVIOUS
    <3>4. DOMAIN old \subseteq Minutes /\ \A m \in DOMAIN old : old[m] \in Settings
      BY <3>3, EmptyTable
    <3> QED
      BY <1>1, <2>1, <2>2, <3>1, <3>2, <3>3, <3>4, TakenDay
  <2>3. CASE ~HasToday'
    BY <1>1, <1>2, <2>1, <2>3 DEF DayInv, DayOf
  <2>4. schedule' = NoSchedule \/ (AsksDatabase(schedule') /\ ~connected') => ~HasToday'
    BY DEF HasToday, AsksDatabase
  <2> QED
    BY <1>7, <2>2, <2>3, <2>4 DEF Start, TakeInVain
<1>8. CASE UNCHANGED vars
  BY <1>8 DEF vars, app, DayInv, HasToday, ServesToday, InForce, Due, DayOf, HasList, DayList,
              QueryMode, NextEntry, Past, MinutesPerDay, AsksDatabase
<1> QED
  BY <1>3, <1>4, <1>5, <1>6, <1>7, <1>8 DEF Next

LEMMA InitDay == Init => DayInv
<1>1. 0 \in 0 .. LastMinute
  BY DayLength
<1>2. DayOf(0) \in Nat
  BY <1>1, DayOfBound DEF Days
<1> QED
  BY <1>2 DEF Init, DayInv, HasToday, ServesToday

\* After every tick that read the clock right, the last command of a scheduler
\* app is the entry of today's list that is due, and the app waits for the next
\* one: through changes of the file, of the day, missed ticks, torn readings
\* within a day, and restarts.
THEOREM KeepsSchedule ==
  ASSUME WithinDay
  PROVE  Spec => [](OnSchedule /\ WakesForNext)
<1>1. CoreInv /\ DayInv => OnSchedule /\ WakesForNext
  BY DayInvSuffices DEF CoreInv
<1> QED
  BY <1>1, InitCore, NextCore, InitDay, NextDay, PTL DEF Spec

\* In particular the app wakes for exactly the next entry after every tick: it
\* neither misses one, the first of the next day included, nor acts again every
\* second.
THEOREM WakesInTime ==
  ASSUME WithinDay
  PROVE  Spec => []WakesForNext
<1>1. OnSchedule /\ WakesForNext => WakesForNext
  OBVIOUS
<1> QED
  BY <1>1, KeepsSchedule, PTL

=============================================================================
