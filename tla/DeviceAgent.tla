---------------------------- MODULE DeviceAgent -----------------------------
(***************************************************************************)
(* The agent of a device (ThermostatAgent; the lighting and plugload       *)
(* agents have the same handlers) on the loop of EventLoop: it reads the   *)
(* device periodically, sets it when the UI or a scheduler app asks, and   *)
(* mails the user when a notification event is triggered.                  *)
(***************************************************************************)
EXTENDS EventLoop, SequencesExt

CONSTANTS
  Settings,      \* what the device can be set to
  Events,        \* event_id of the rows of notification_event
  Triggers,      \* the settings at which an event is triggered
  Heartbeat,     \* notify_heartbeat
  SecondsPerDay, \* timedelta.seconds leaves the days out
  Durations,     \* how long a handler may take, the unit being the shortest
  InboxLimit,    \* bound on the messages waiting at the socket
  ListLimit,     \* bound on event_ids
  ClockShifts,   \* by how much the wall clock may be set, back or forward
  MaxClockSets,  \* bound on how often it is set
  Invalid,       \* settings isPostmsgValid refuses
  Garbled,       \* text that is not JSON
  NoReading, NoReply

ASSUME DeviceAssumption ==
  /\ {Heartbeat, SecondsPerDay} \subseteq Nat /\ Heartbeat < SecondsPerDay - 1
  /\ Durations \subseteq Nat \ {0} /\ \E d \in Durations : \A c \in Durations : c <= d
  /\ Triggers \in [Events -> SUBSET Settings]
  /\ {NoReading, Invalid, Garbled} \cap Settings = {}
  /\ NoReply # "success"
  /\ {ListLimit, MaxClockSets} \subseteq Nat /\ ClockShifts \subseteq Int

Requests ==
  [op : {"update"}, arg : Settings \cup {Invalid}]
    \cup [op : {"add_event", "remove_event"}, arg : Events]
    \cup [op : {"device_status", "identify"}, arg : {NoReply}]

Refusal == [op |-> "update", arg |-> Garbled]
Messages == Requests \cup {Refusal}
Operations == { m.op : m \in Messages }

VARIABLES
  device,    \* what the device is set to
  known,     \* the variables of the agent
  row,       \* the row of the device in the database
  aborted,   \* the transaction of self.con has failed; nothing rolls it back
  eventIds,  \* event_ids
  sent,      \* time_sent_notifications, as the .seconds by the wall clock since
  alive,     \* no exception has left the loop
  refused,   \* a refusal of the agent is on its way
  inbox,     \* messages delivered to the SUB socket
  reply,     \* what the last step published
  ran,       \* what the last step ran: a timer, an operation, or "none"
  mailed,    \* the events the last step mailed for; sendEmail hides its errors
  quiet,     \* time from an event's last earlier mail, up to Heartbeat + 1,
             \* which it also is once the wall clock was set after that mail
  clockSets  \* how often the wall clock was set

agent == <<known, row, aborted, eventIds, sent, refused>>
vars == <<loop, device, agent, alive, inbox, reply, ran, mailed, quiet, clockSets>>

Status == Settings \cup {NoReading}

\* Time passes for the clocks of the notifications; datetime.now() may be set.
SentAfter(d) == [e \in DOMAIN sent |-> (sent[e] + d) % SecondsPerDay]
QuietAfter(d) ==
  [e \in Events |-> Min({(IF e \in mailed THEN 0 ELSE quiet[e]) + d, Heartbeat + 1})]

Passes(d) == /\ sent' = SentAfter(d)
             /\ quiet' = QuietAfter(d)
             /\ UNCHANGED clockSets

-----------------------------------------------------------------------------
(* deviceMonitorBehavior.                                                  *)

\* track_event_send_notification with what was read.  An event listed twice
\* is met twice, the second time with the time just stored.
Ready(e, ages) == e \notin DOMAIN ages \/ ages[e] > Heartbeat
Notified(events, status, ages) ==
  { e \in events : status \in Triggers[e] /\ Ready(e, ages) }

StampAll(events, status, ages) ==
  [e \in DOMAIN ages \cup events |-> 0]
Stamped(events, status, ages) ==
  [e \in DOMAIN ages \cup Notified(events, status, ages) |->
     IF e \in Notified(events, status, ages) THEN 0 ELSE ages[e]]

\* The reading of the device and the database updates stand in try; the query
\* for an event does not: it ends the agent when it fails, as it must after a
\* failed statement, and n is how many events were queried before that.
DeviceMonitorBehavior(t, d) ==
  \E reached, stored \in BOOLEAN, n \in 0 .. Len(eventIds) :
    LET status == IF reached THEN device ELSE known
        queried == ToSet(SubSeq(eventIds, 1, n))
        raises == n < Len(eventIds)
    IN
    /\ ExecuteTimer(t, d)
    /\ aborted => n = 0
    /\ known' = status
    /\ alive' = ~raises
    /\ mailed' = Notified(queried, status, SentAfter(d))
    /\ sent' = Stamped(queried, status, SentAfter(d))
    /\ quiet' = QuietAfter(d)
    /\ aborted' = (aborted \/ raises \/ ~stored)
    /\ IF aborted \/ raises \/ status = NoReading
         THEN UNCHANGED row
         ELSE row' \in {status} \cup { s \in {row} : ~stored }
    /\ ran' = t /\ reply' = NoReply
    /\ UNCHANGED <<device, eventIds, refused, inbox, clockSets>>

-----------------------------------------------------------------------------
(* The handlers of messages.  handle_sub_message takes one message.        *)

Handles(op, d) ==
  /\ inbox # <<>> /\ Head(inbox).op = op
  /\ HandleSocket(d)
  /\ inbox' = Tail(inbox)
  /\ Passes(d)
  /\ ran' = op /\ mailed' = {}

\* The refusal of settings that are not valid is published to the topic of
\* the request itself.  Text that is not JSON is found valid, and raises
\* ValueError when it is read again.  The API answers True for every request
\* that comes back, which does not tell whether the device took the setting,
\* and raises NameError when it fails; the reading after it is not guarded
\* either.  When one raises, no reply is sent.
DeviceControlBehavior(d) ==
  \E set, answered, reached \in BOOLEAN :
    LET asked == Head(inbox).arg IN
    /\ Handles("update", d)
    /\ UNCHANGED <<known, row, aborted, eventIds>>
    /\ refused' = (refused \/ asked = Invalid)
    /\ IF asked \in {Invalid, Garbled}
         THEN reply' = NoReply /\ alive' = (asked = Invalid) /\ UNCHANGED device
         ELSE /\ device' = IF set THEN asked ELSE device
              /\ alive' = (answered /\ reached)
              /\ reply' = IF alive' THEN "success" ELSE NoReply

UpdateUIBehavior(d) ==
  /\ Handles("device_status", d)
  /\ reply' = known
  /\ UNCHANGED <<device, known, row, aborted, eventIds, refused, alive>>

DeviceIdentifyBehavior(d) ==
  /\ Handles("identify", d)
  /\ reply' \in {"success", "failure"}
  /\ UNCHANGED <<device, known, row, aborted, eventIds, refused, alive>>

AddNotificationEvent(d) ==
  /\ Handles("add_event", d)
  /\ eventIds' = Append(eventIds, Head(inbox).arg)
  /\ reply' = "success"
  /\ UNCHANGED <<device, known, row, aborted, refused, alive>>

\* list.remove raises ValueError for an id that is not there; what was sent
\* stays in time_sent_notifications.
ForgettingRemove(d) ==
  LET e == Head(inbox).arg IN
  /\ inbox # <<>> /\ Head(inbox).op = "remove_event"
  /\ HandleSocket(d)
  /\ inbox' = Tail(inbox)
  /\ ran' = "remove_event" /\ mailed' = {} /\ reply' = "success"
  /\ eventIds' = SelectSeq(eventIds, LAMBDA x : x # e)
  /\ sent' = [x \in DOMAIN sent \ {e} |-> SentAfter(d)[x]]
  /\ quiet' = QuietAfter(d)
  /\ UNCHANGED <<device, known, row, aborted, refused, alive, clockSets>>
RemoveNotificationEvent(d) ==
  LET e == Head(inbox).arg IN
  /\ Handles("remove_event", d)
  /\ alive' = (e \in ToSet(eventIds))
  /\ IF alive'
       THEN \E i \in 1 .. Len(eventIds) :
              /\ eventIds[i] = e /\ \A j \in 1 .. i - 1 : eventIds[j] # e
              /\ eventIds' = RemoveAt(eventIds, i)
       ELSE UNCHANGED eventIds
  /\ reply' = IF alive' THEN "success" ELSE NoReply
  /\ UNCHANGED <<device, known, row, aborted, refused>>

HandleSubMessage(d) ==
  \/ DeviceControlBehavior(d)
  \/ UpdateUIBehavior(d)
  \/ DeviceIdentifyBehavior(d)
  \/ AddNotificationEvent(d)
  \/ RemoveNotificationEvent(d)

-----------------------------------------------------------------------------

NoEffect == /\ reply' = NoReply /\ ran' = "none" /\ mailed' = {}
            /\ UNCHANGED <<known, row, aborted, eventIds, refused, alive>>

Step ==
  /\ alive
  /\ \/ \E t \in Timers, d \in Durations : DeviceMonitorBehavior(t, d)
     \/ NothingDue /\ Passes(0) /\ NoEffect /\ UNCHANGED <<device, inbox>>
     \/ \E d \in Durations : HandleSubMessage(d)
     \/ /\ inbox = <<>>
        /\ Waiting
        /\ Passes(IF wait > 0 THEN 1 ELSE 0)
        /\ NoEffect /\ UNCHANGED <<device, inbox>>

Arrives(m) ==
  /\ alive /\ Len(inbox) < InboxLimit
  /\ inbox' = Append(inbox, m)
  /\ m.op = "add_event" =>
       LET adding == { i \in 1 .. Len(inbox) : inbox[i].op = "add_event" }
       IN  Len(eventIds) + Cardinality(adding) < ListLimit
  /\ Passes(0) /\ NoEffect
  /\ UNCHANGED <<loop, device>>

\* The exchange passes a refusal on to the agent, which subscribed to it.
RefusalReturns ==
  /\ alive /\ refused /\ Len(inbox) < InboxLimit
  /\ refused' = FALSE
  /\ inbox' = Append(inbox, Refusal)
  /\ Passes(0)
  /\ reply' = NoReply /\ ran' = "none" /\ mailed' = {}
  /\ UNCHANGED <<loop, device, known, row, aborted, eventIds, alive>>

\* Somebody turns the knob of the device.
DeviceChanges ==
  /\ device' \in Settings \ {device}
  /\ Passes(0) /\ NoEffect
  /\ UNCHANGED <<loop, inbox>>

\* The wall clock is set, at the end of summer time or by hand, while the
\* monotonic clock of the loop goes on.
ClockIsSet(k) ==
  /\ clockSets < MaxClockSets /\ clockSets' = clockSets + 1
  /\ sent' = SentAfter(k)
  /\ quiet' = [e \in Events |-> Heartbeat + 1]
  /\ NoEffect
  /\ UNCHANGED <<loop, device, inbox>>

\* A new process after the last one died: all it knew is gone, and messages on
\* their way are lost.  Its first statement, in setup, may have failed.
Restart ==
  /\ ~alive /\ alive' = TRUE
  /\ StartLoop
  /\ known' = NoReading
  /\ aborted' \in BOOLEAN
  /\ eventIds' = <<>> /\ sent' = <<>> /\ refused' = FALSE
  /\ quiet' = [e \in Events |-> Heartbeat + 1]
  /\ inbox' = <<>> /\ reply' = NoReply /\ ran' = "none" /\ mailed' = {}
  /\ UNCHANGED <<device, row, clockSets>>

Init ==
  /\ InitLoop
  /\ device \in Settings /\ row = NoReading
  /\ known = NoReading
  /\ aborted \in BOOLEAN /\ alive = TRUE /\ refused = FALSE
  /\ eventIds = <<>> /\ sent = <<>>
  /\ quiet = [e \in Events |-> Heartbeat + 1]
  /\ inbox = <<>> /\ reply = NoReply /\ ran = "none" /\ mailed = {}
  /\ clockSets = 0

Next ==
  \/ Step
  \/ \E m \in Requests : Arrives(m)
  \/ RefusalReturns
  \/ DeviceChanges
  \/ \E k \in ClockShifts : ClockIsSet(k)
  \/ Restart

Spec == Init /\ [][Next]_vars

\* The process is scheduled, and every call a handler makes returns.
FairSpec == Spec /\ WF_vars(Step)

-----------------------------------------------------------------------------

\* Every variable keeps its type; the sequence of the loop never falls so far
\* behind that poll would wait for a time already past.
TypeOK ==
  /\ \A t \in DOMAIN left : left[t] \in -Backlog .. Max({Period[t], FirstDelay[t]})
  /\ { t \in Timers : Period[t] > 0 } \subseteq DOMAIN left /\ DOMAIN left \subseteq Timers
  /\ lag \in 0 .. LoopInterval + Max(Durations)
  /\ wait \in 0 .. LoopInterval
  /\ phase \in {"execute", "wait"}
  /\ device \in Settings /\ {known, row} \subseteq Status
  /\ {aborted, refused, alive} \subseteq BOOLEAN
  /\ eventIds \in Seq(Events) /\ Len(eventIds) <= ListLimit
  /\ DOMAIN sent \subseteq Events
  /\ \A e \in DOMAIN sent : sent[e] \in 0 .. SecondsPerDay - 1
  /\ inbox \in Seq(Messages)
  /\ clockSets \in 0 .. MaxClockSets

\* While one process lives and the wall clock is not set, two mails for the
\* same event are more than a heartbeat apart, however the UI removes and adds
\* the event, or adds it twice, in between; and one mail after the clock was
\* set they are so again (track_event_send_notification).
Spaced == \A e \in mailed : quiet[e] > Heartbeat

\* An event that stays listed and triggered is mailed again and again:
\* leaving the days out of the time gone by does not silence it.
Renotified ==
  \A e \in Events :
    <>[](alive /\ known \in Triggers[e] /\ e \in ToSet(eventIds)) => []<>(e \in mailed)

\* Timers that have fallen behind do not keep the loop from its socket: a
\* waiting message is handled, unless the agent dies first (poll, execute).
Responsive == []<>(inbox = <<>> \/ ran \in Operations \/ ~alive)

\* Messages do not keep the loop from its timers: the device is read again
\* and again for as long as the agent lives (poll, RecurringEvent).
MonitorRuns == []<>(ran \in Timers \/ ~alive)

\* A request the agent refuses as invalid, to be tried again, does not end it:
\* only a device that fails does (deviceControlBehavior).
RefusalHarmless ==
  [][ran' = "update" /\ alive /\ ~alive' => Head(inbox).arg \in Settings]_vars

=============================================================================
