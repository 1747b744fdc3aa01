------------------------ MODULE DeviceAgent_proofs -------------------------
(***************************************************************************)
(* What holds of a device agent and its loop for every set of events,      *)
(* settings, timers and durations: two mails for an event with no setting  *)
(* of the wall clock in between are more than a heartbeat apart, and the   *)
(* times of the loop stay in bounds whatever the handlers take.            *)
(***************************************************************************)
EXTENDS DeviceAgent, FiniteSetTheorems, FunctionTheorems, WellFoundedInduction, TLAPS

\* The time since the last mail for an event, the last step's mail included.
Since(e) == IF e \in mailed THEN 0 ELSE quiet[e]

\* .seconds may say less than the time gone by, and never more, for a mail after
\* which the clock was not set.
Stored ==
  \A e \in Events : Since(e) <= Heartbeat => e \in DOMAIN sent /\ sent[e] <= Since(e)

SpacedInv ==
  /\ inbox \in Seq(Messages)
  /\ eventIds \in Seq(Events)
  /\ mailed \subseteq Events
  /\ quiet \in [Events -> 0 .. Heartbeat + 1]
  /\ \A e \in DOMAIN sent : sent[e] \in Nat
  /\ Stored
  /\ Spaced

LEMMA LesserOfTwo ==
  ASSUME NEW a \in Nat, NEW b \in Nat
  PROVE  Min({a, b}) = IF a <= b THEN a ELSE b
BY DEF Min

LEMMA ModBounds ==
  ASSUME NEW a \in Nat, NEW n \in Nat \ {0}
  PROVE  a % n \in Nat /\ a % n <= a
<1>1. a % n \in 0 .. n - 1
  OBVIOUS
<1>2. CASE a < n
  <2>1. a % n = a
    BY <1>2
  <2> QED
    BY <2>1
<1>3. CASE a >= n
  BY <1>1, <1>3
<1> QED
  BY <1>2, <1>3

\* As time passes the stored times stay below the true ones.
LEMMA ClocksAgree ==
  ASSUME SpacedInv, NEW d \in Nat
  PROVE  /\ QuietAfter(d) \in [Events -> 0 .. Heartbeat + 1]
         /\ DOMAIN SentAfter(d) = DOMAIN sent
         /\ \A e \in DOMAIN sent : SentAfter(d)[e] \in Nat
         /\ \A e \in Events : QuietAfter(d)[e] <= Heartbeat =>
              /\ e \in DOMAIN sent
              /\ SentAfter(d)[e] <= QuietAfter(d)[e]
<1>1. Heartbeat \in Nat /\ SecondsPerDay \in Nat \ {0}
  BY DeviceAssumption
<1>2. \A e \in Events : Since(e) \in Nat
  BY <1>1 DEF SpacedInv, Since
<1>3. QuietAfter(d) = [e \in Events |-> Min({Since(e) + d, Heartbeat + 1})]
  BY DEF QuietAfter, Since
<1>4. \A e \in Events : QuietAfter(d)[e] =
        IF Since(e) + d <= Heartbeat + 1 THEN Since(e) + d ELSE Heartbeat + 1
  BY <1>1, <1>2, <1>3, LesserOfTwo
<1>5. \A e \in Events : QuietAfter(d)[e] \in 0 .. Heartbeat + 1
  BY <1>1, <1>2, <1>4
<1>6. \A e \in DOMAIN sent :
        SentAfter(d)[e] \in Nat /\ SentAfter(d)[e] <= sent[e] + d
  <2> SUFFICES ASSUME NEW e \in DOMAIN sent
               PROVE  SentAfter(d)[e] \in Nat /\ SentAfter(d)[e] <= sent[e] + d
    OBVIOUS
  <2>1. sent[e] + d \in Nat
    BY DEF SpacedInv
  <2>2. SentAfter(d)[e] = (sent[e] + d) % SecondsPerDay
    BY DEF SentAfter
  <2> QED
    BY <1>1, <2>1, <2>2, ModBounds
<1>7. ASSUME NEW e \in Events, QuietAfter(d)[e] <= Heartbeat
      PROVE  e \in DOMAIN sent /\ SentAfter(d)[e] <= QuietAfter(d)[e]
  <2>1. Since(e) + d <= Heartbeat /\ QuietAfter(d)[e] = Since(e) + d
    BY <1>1, <1>2, <1>4, <1>7
  <2>2. e \in DOMAIN sent /\ sent[e] <= Since(e)
    BY <1>1, <1>2, <2>1 DEF SpacedInv, Stored
  <2>3. sent[e] \in Nat
    BY <2>2 DEF SpacedInv
  <2> QED
    BY <1>2, <1>6, <2>1, <2>2, <2>3
<1> QED
  BY <1>3, <1>5, <1>6, <1>7 DEF SentAfter

\* A step that sends nothing keeps what was said of the clocks.
LEMMA SilentStep ==
  ASSUME SpacedInv, NEW d \in Nat, Passes(d), mailed' = {},
         inbox' \in Seq(Messages), eventIds' \in Seq(Events)
  PROVE  SpacedInv'
<1>1. sent' = SentAfter(d) /\ quiet' = QuietAfter(d)
  BY DEF Passes
<1>2. \A e \in Events : Since(e)' = QuietAfter(d)[e]
  BY <1>1 DEF Since
<1>3. Stored'
  BY <1>1, <1>2, ClocksAgree DEF Stored
<1> QED
  BY <1>1, <1>3, ClocksAgree DEF SpacedInv, Spaced

\* The events queried before a query fails are among those listed.
LEMMA QueriedEvents ==
  ASSUME SpacedInv, NEW n \in 0 .. Len(eventIds)
  PROVE  ToSet(SubSeq(eventIds, 1, n)) \subseteq Events
<1>1. SubSeq(eventIds, 1, n) \in Seq(Events)
  BY DEF SpacedInv
<1> QED
  BY <1>1 DEF ToSet

LEMMA MonitorStep ==
  ASSUME SpacedInv, NEW t \in Timers, NEW d \in Nat, DeviceMonitorBehavior(t, d)
  PROVE  SpacedInv'
<1>1. PICK n \in 0 .. Len(eventIds), status \in {device, known} :
        /\ quiet' = QuietAfter(d)
        /\ inbox' = inbox /\ eventIds' = eventIds
        /\ mailed' = Notified(ToSet(SubSeq(eventIds, 1, n)), status, SentAfter(d))
        /\ sent' = Stamped(ToSet(SubSeq(eventIds, 1, n)), status, SentAfter(d))
  BY DEF DeviceMonitorBehavior
<1> DEFINE queried == ToSet(SubSeq(eventIds, 1, n))
<1>2. queried \subseteq Events
  BY QueriedEvents
<1> HIDE DEF queried
<1>3. mailed' = Notified(queried, status, SentAfter(d))
      /\ sent' = Stamped(queried, status, SentAfter(d))
  BY <1>1 DEF queried
<1>4. SpacedInv'
  <2>2. mailed' \subseteq Events
    BY <1>2, <1>3 DEF Notified
  <2>3. /\ DOMAIN sent' = DOMAIN sent \cup mailed'
        /\ \A e \in DOMAIN sent' :
             sent'[e] = IF e \in mailed' THEN 0 ELSE SentAfter(d)[e]
    BY <1>3, ClocksAgree DEF Stamped
  <2>4. \A e \in DOMAIN sent' : sent'[e] \in Nat
    BY <2>3, ClocksAgree
  <2>5. \A e \in Events : Since(e)' = IF e \in mailed' THEN 0 ELSE QuietAfter(d)[e]
    BY <1>1 DEF Since
  <2>6. Stored'
    BY <2>3, <2>5, ClocksAgree DEF Stored
  <2>7. \A e \in mailed' : e \notin DOMAIN sent \/ SentAfter(d)[e] > Heartbeat
    BY <1>3, ClocksAgree DEF Notified, Ready
  <2>8. \A e \in mailed' : QuietAfter(d)[e] > Heartbeat
    <3> SUFFICES ASSUME NEW e \in mailed', ~(QuietAfter(d)[e] > Heartbeat)
                 PROVE  FALSE
      OBVIOUS
    <3>1. Heartbeat \in Nat /\ QuietAfter(d)[e] \in 0 .. Heartbeat + 1
      BY <2>2, ClocksAgree, DeviceAssumption
    <3>2. e \in Events /\ QuietAfter(d)[e] <= Heartbeat
      BY <2>2, <3>1
    <3>3. e \in DOMAIN sent /\ SentAfter(d)[e] <= QuietAfter(d)[e]
      BY <3>2, ClocksAgree
    <3>4. SentAfter(d)[e] \in Nat
      BY <3>3, ClocksAgree
    <3> QED
      BY <2>7, <3>1, <3>3, <3>4
  <2>9. Spaced'
    BY <1>1, <2>8 DEF Spaced
  <2> QED
    BY <1>1, <2>2, <2>4, <2>6, <2>9, ClocksAgree DEF SpacedInv
<1> QED
  BY <1>4

LEMMA HandlerStep ==
  ASSUME SpacedInv, NEW d \in Nat, HandleSubMessage(d)
  PROVE  SpacedInv'
<1>1. ASSUME NEW op, Handles(op, d), eventIds' \in Seq(Events)
      PROVE  SpacedInv'
  <2>1. inbox' \in Seq(Messages)
    BY <1>1 DEF Handles, SpacedInv
  <2> QED
    BY <1>1, <2>1, SilentStep DEF Handles
<1>2. eventIds \in Seq(Events)
  BY DEF SpacedInv
<1>3. CASE DeviceControlBehavior(d)
  BY <1>1, <1>2, <1>3 DEF DeviceControlBehavior
<1>4. CASE UpdateUIBehavior(d)
  BY <1>1, <1>2, <1>4 DEF UpdateUIBehavior
<1>5. CASE DeviceIdentifyBehavior(d)
  BY <1>1, <1>2, <1>5 DEF DeviceIdentifyBehavior
<1>6. CASE AddNotificationEvent(d)
  <2>1. Handles("add_event", d) /\ eventIds' = Append(eventIds, Head(inbox).arg)
    BY <1>6 DEF AddNotificationEvent
  <2>2. Head(inbox) \in Messages /\ Head(inbox).op = "add_event"
    BY <2>1 DEF Handles, SpacedInv
  <2>3. Head(inbox).arg \in Events
    BY <2>2 DEF Messages, Requests, Refusal
  <2> QED
    BY <1>1, <1>2, <2>1, <2>3
<1>7. CASE RemoveNotificationEvent(d)
  <2>1. /\ Handles("remove_event", d)
        /\ \/ eventIds' = eventIds
           \/ \E i \in 1 .. Len(eventIds) : eventIds' = RemoveAt(eventIds, i)
    BY <1>7 DEF RemoveNotificationEvent
  <2>2. ASSUME NEW i \in 1 .. Len(eventIds)
        PROVE  RemoveAt(eventIds, i) \in Seq(Events)
    <3>1. SubSeq(eventIds, 1, i - 1) \in Seq(Events)
      BY <1>2
    <3>2. SubSeq(eventIds, i + 1, Len(eventIds)) \in Seq(Events)
      BY <1>2
    <3> QED
      BY <3>1, <3>2 DEF RemoveAt
  <2>3. eventIds' \in Seq(Events)
    BY <1>2, <2>1, <2>2
  <2> QED
    BY <1>1, <2>1, <2>3
<1> QED
  BY <1>3, <1>4, <1>5, <1>6, <1>7 DEF HandleSubMessage

\* A setting of the clock leaves numbers of seconds behind, and nothing to be
\* too early for.
LEMMA SetClock ==
  ASSUME SpacedInv, NEW k \in ClockShifts, ClockIsSet(k)
  PROVE  SpacedInv'
<1>1. /\ sent' = SentAfter(k) /\ mailed' = {}
      /\ quiet' = [e \in Events |-> Heartbeat + 1]
      /\ inbox' = inbox /\ eventIds' = eventIds
  BY DEF ClockIsSet, NoEffect
<1>2. Heartbeat \in Nat /\ SecondsPerDay \in Nat \ {0} /\ k \in Int
  BY DeviceAssumption
<1>3. \A e \in DOMAIN sent' : sent'[e] \in Nat
  <2> SUFFICES ASSUME NEW e \in DOMAIN sent
               PROVE  (sent[e] + k) % SecondsPerDay \in Nat
    BY <1>1 DEF SentAfter
  <2>1. sent[e] + k \in Int
    BY <1>2 DEF SpacedInv
  <2> QED
    BY <1>2, <2>1
<1>4. \A e \in Events : Since(e)' = Heartbeat + 1
  BY <1>1 DEF Since
<1>5. Stored'
  BY <1>2, <1>4 DEF Stored
<1> QED
  BY <1>1, <1>2, <1>3, <1>5 DEF SpacedInv, Spaced

LEMMA NextSpaced == SpacedInv /\ [Next]_vars => SpacedInv'
<1> SUFFICES ASSUME SpacedInv, [Next]_vars
             PROVE  SpacedInv'
  OBVIOUS
<1>1. inbox \in Seq(Messages) /\ eventIds \in Seq(Events) /\ Durations \subseteq Nat
  BY DeviceAssumption DEF SpacedInv
<1>2. CASE Step
  <2>1. ASSUME NEW t \in Timers, NEW d \in Durations, DeviceMonitorBehavior(t, d)
        PROVE  SpacedInv'
    BY <1>1, <2>1, MonitorStep
  <2>2. ASSUME NEW d \in Durations, HandleSubMessage(d)
        PROVE  SpacedInv'
    BY <1>1, <2>2, HandlerStep
  <2>3. ASSUME NEW d \in {0, 1}, Passes(d), NoEffect, UNCHANGED inbox
        PROVE  SpacedInv'
    BY <1>1, <2>3, SilentStep DEF NoEffect
  <2> QED
    BY <1>2, <2>1, <2>2, <2>3 DEF Step
<1>3. ASSUME NEW m \in Requests, Arrives(m)
      PROVE  SpacedInv'
  <2>1. inbox' \in Seq(Messages)
    BY <1>1, <1>3 DEF Arrives, Messages
  <2> QED
    BY <1>1, <1>3, <2>1, SilentStep DEF Arrives, NoEffect
<1>4. CASE RefusalReturns
  <2>1. inbox' \in Seq(Messages)
    BY <1>1, <1>4 DEF RefusalReturns, Messages
  <2> QED
    BY <1>1, <1>4, <2>1, SilentStep DEF RefusalReturns
<1>5. CASE DeviceChanges
  BY <1>1, <1>5, SilentStep DEF DeviceChanges, NoEffect
<1>6. CASE Restart
  BY <1>6, DeviceAssumption DEF Restart, SpacedInv, Stored, Since, Spaced
<1>7. ASSUME NEW k \in ClockShifts, ClockIsSet(k)
      PROVE  SpacedInv'
  BY <1>7, SetClock
<1>8. CASE UNCHANGED vars
  BY <1>8 DEF vars, agent, SpacedInv, Stored, Since, Spaced
<1> QED
  BY <1>2, <1>3, <1>4, <1>5, <1>6, <1>7, <1>8 DEF Next

\* One process never mails the user twice within a heartbeat for the same event
\* unless the wall clock is set between the two (track_event_send_notification),
\* whatever the timers, the length of the handlers, the shifts of the clock and
\* the order of the UI's messages are.
THEOREM MailsSpaced == Spec => []Spaced
<1>1. Init => SpacedInv
  BY DeviceAssumption DEF Init, SpacedInv, Stored, Since, Spaced
<1>2. SpacedInv => Spaced
  BY DEF SpacedInv
<1> QED
  BY <1>1, <1>2, NextSpaced, PTL DEF Spec

-----------------------------------------------------------------------------
(* The loop.  A poll starts with the clock it took, and what it may wait for *)
(* and what has gone by since never exceed an interval and a handler.      *)

Longest == Max(Durations)

LoopInv ==
  /\ \A t \in DOMAIN left : left[t] \in -Backlog .. Max({Period[t], FirstDelay[t]})
  /\ { t \in Timers : Period[t] > 0 } \subseteq DOMAIN left /\ DOMAIN left \subseteq Timers
  /\ lag \in Nat /\ wait \in 0 .. LoopInterval /\ phase \in {"execute", "wait"}
  /\ phase = "execute" => lag = 0
  /\ phase = "wait" => lag + wait <= LoopInterval + Longest

LEMMA GreaterOfTwo ==
  ASSUME NEW a \in Int, NEW b \in Int
  PROVE  Max({a, b}) = IF a >= b THEN a ELSE b
BY DEF Max

LEMMA LongestDuration ==
  Longest \in Durations /\ Longest \in Nat \ {0} /\ \A d \in Durations : d <= Longest
<1>1. PICK d \in Durations : \A c \in Durations : c <= d
  BY DeviceAssumption
<1>2. Durations \subseteq Nat \ {0}
  BY DeviceAssumption
<1>3. \E x \in Durations : \A y \in Durations : x >= y
  BY <1>1, <1>2
<1>4. Longest \in Durations /\ \A y \in Durations : Longest >= y
  BY <1>3 DEF Longest, Max
<1> QED
  BY <1>2, <1>4

\* Every set of numbers has a least one.
LEMMA LeastNat ==
  ASSUME NEW T \in SUBSET Nat, T # {}
  PROVE  \E m \in T : \A n \in T : m <= n
<1> DEFINE R == OpToRel(<, Nat)
<1>1. IsWellFoundedOn(R, Nat)
  BY NatLessThanWellFounded
<1>2. \A m, n \in Nat : m < n => <<m, n>> \in R
  BY DEF OpToRel
<1> HIDE DEF R
<1>3. PICK m \in T : \A n \in T : ~(<<n, m>> \in R)
  BY <1>1, WFMin
<1>4. \A n \in T : ~(n < m)
  BY <1>2, <1>3
<1> QED
  BY <1>4

\* poll never waits longer than LOOP_INTERVAL, nor for a time already past.
LEMMA DelayBounds ==
  ASSUME NEW heap, NEW behind \in Nat, \A t \in DOMAIN heap : heap[t] \in Int
  PROVE  DelayAt(heap, behind) \in 0 .. LoopInterval
<1> DEFINE delays == { Max({heap[t] + behind, 0}) : t \in DOMAIN heap }
           all == {LoopInterval} \cup delays
<1>1. delays \subseteq Nat
  <2> SUFFICES ASSUME NEW t \in DOMAIN heap
               PROVE  Max({heap[t] + behind, 0}) \in Nat
    OBVIOUS
  <2>1. heap[t] + behind \in Int
    OBVIOUS
  <2> QED
    BY <2>1, GreaterOfTwo
<1>2. LoopInterval \in Nat
  BY LoopAssumption
<1>3. DelayAt(heap, behind) = Min(all)
  BY DEF DelayAt
<1> HIDE DEF delays
<1>4. all \in SUBSET Nat /\ LoopInterval \in all
  BY <1>1, <1>2
<1> HIDE DEF all
<1>5. \E m \in all : \A n \in all : m <= n
  BY <1>4, LeastNat
<1>6. Min(all) \in all /\ \A n \in all : Min(all) <= n
  BY <1>5 DEF Min
<1>7. Min(all) \in Nat /\ Min(all) <= LoopInterval
  BY <1>4, <1>6
<1>8. Min(all) \in 0 .. LoopInterval
  BY <1>2, <1>7
<1> QED
  BY <1>3, <1>8

\* Deadlines only come nearer as time passes, down to the bound.
LEMMA ElapsedBounds ==
  ASSUME NEW f, NEW d \in Nat, NEW t \in DOMAIN f, f[t] \in Int, NEW top \in Nat, f[t] <= top
  PROVE  DOMAIN Elapsed(f, d) = DOMAIN f /\ Elapsed(f, d)[t] \in -Backlog .. top
<1>1. Elapsed(f, d)[t] = Max({f[t] - d, -Backlog}) /\ DOMAIN Elapsed(f, d) = DOMAIN f
  BY DEF Elapsed
<1>2. f[t] - d \in Int /\ -Backlog \in Int /\ Backlog \in Nat
  BY LoopAssumption
<1>3. Max({f[t] - d, -Backlog}) = IF f[t] - d >= -Backlog THEN f[t] - d ELSE -Backlog
  BY <1>2, GreaterOfTwo
<1> QED
  BY <1>1, <1>2, <1>3

LEMMA UpTo ==
  ASSUME NEW t \in Timers
  PROVE  /\ Period[t] \in Nat /\ FirstDelay[t] \in Nat
         /\ Max({Period[t], FirstDelay[t]}) \in Nat
         /\ Period[t] <= Max({Period[t], FirstDelay[t]})
         /\ FirstDelay[t] <= Max({Period[t], FirstDelay[t]})
<1>1. Period[t] \in Nat /\ FirstDelay[t] \in Nat
  BY LoopAssumption
<1>2. Max({Period[t], FirstDelay[t]}) = IF Period[t] >= FirstDelay[t] THEN Period[t] ELSE FirstDelay[t]
  BY <1>1, GreaterOfTwo
<1> QED
  BY <1>1, <1>2

\* A heap within its bounds stays there as time passes.
LEMMA HeapElapses ==
  ASSUME NEW heap, NEW d \in Nat, DOMAIN heap \subseteq Timers,
         \A t \in DOMAIN heap :
           heap[t] \in Int /\ heap[t] <= Max({Period[t], FirstDelay[t]})
  PROVE  /\ DOMAIN Elapsed(heap, d) = DOMAIN heap
         /\ \A t \in DOMAIN heap :
              /\ Elapsed(heap, d)[t] \in -Backlog .. Max({Period[t], FirstDelay[t]})
              /\ Elapsed(heap, d)[t] \in Int
<1>1. DOMAIN Elapsed(heap, d) = DOMAIN heap
  BY DEF Elapsed
<1>2. ASSUME NEW t \in DOMAIN heap
      PROVE  Elapsed(heap, d)[t] \in -Backlog .. Max({Period[t], FirstDelay[t]})
  BY UpTo, ElapsedBounds
<1>3. Backlog \in Nat /\ \A t \in DOMAIN heap : Max({Period[t], FirstDelay[t]}) \in Nat
  BY UpTo, LoopAssumption
<1>4. ASSUME NEW t \in DOMAIN heap
      PROVE  Elapsed(heap, d)[t] \in Int
  <2>1. \A top \in Nat : -Backlog .. top \subseteq Int
    BY <1>3
  <2> QED
    BY <1>2, <1>3, <2>1
<1> QED
  BY <1>1, <1>2, <1>4

LEMMA LeftBounds ==
  ASSUME LoopInv
  PROVE  \A t \in DOMAIN left :
           t \in Timers /\ left[t] \in Int /\ left[t] <= Max({Period[t], FirstDelay[t]})
<1> SUFFICES ASSUME NEW t \in DOMAIN left
             PROVE  t \in Timers /\ left[t] \in Int /\ left[t] <= Max({Period[t], FirstDelay[t]})
  OBVIOUS
<1>1. t \in Timers /\ left[t] \in -Backlog .. Max({Period[t], FirstDelay[t]})
  BY DEF LoopInv
<1>2. Max({Period[t], FirstDelay[t]}) \in Nat /\ Backlog \in Nat
  BY <1>1, UpTo, LoopAssumption
<1> QED
  BY <1>1, <1>2

\* A timer that is due and recurs is next due within its period, however late
\* it ran.
LEMMA RearmedBounds ==
  ASSUME LoopInv, NEW t \in Earliest
  PROVE  /\ DOMAIN Rearmed(t) \subseteq Timers
         /\ { u \in Timers : Period[u] > 0 } \subseteq DOMAIN Rearmed(t)
         /\ \A u \in DOMAIN Rearmed(t) :
              Rearmed(t)[u] \in Int /\ Rearmed(t)[u] <= Max({Period[u], FirstDelay[u]})
<1>1. t \in DOMAIN left /\ left[t] + lag <= 0 /\ lag \in Nat
  BY DEF Earliest, Due, LoopInv
<1>2. t \in Timers /\ left[t] \in Int /\ left[t] <= 0
  <2>1. t \in Timers /\ left[t] \in Int
    BY <1>1, LeftBounds
  <2> QED
    BY <1>1, <2>1
<1>3. Period[t] \in Nat /\ Period[t] <= Max({Period[t], FirstDelay[t]})
        /\ Max({Period[t], FirstDelay[t]}) \in Nat
  BY <1>2, UpTo
<1>4. CASE Period[t] > 0
  <2>1. Rearmed(t) = [left EXCEPT ![t] = left[t] + Period[t]]
    BY <1>4 DEF Rearmed
  <2>2. /\ DOMAIN Rearmed(t) = DOMAIN left
        /\ Rearmed(t)[t] = left[t] + Period[t]
        /\ \A u \in DOMAIN left \ {t} : Rearmed(t)[u] = left[u]
    BY <1>1, <2>1
  <2>3. left[t] + Period[t] \in Int /\ left[t] + Period[t] <= Max({Period[t], FirstDelay[t]})
    BY <1>2, <1>3
  <2>4. ASSUME NEW u \in DOMAIN Rearmed(t)
        PROVE  Rearmed(t)[u] \in Int /\ Rearmed(t)[u] <= Max({Period[u], FirstDelay[u]})
    BY <2>2, <2>3, LeftBounds
  <2> QED
    BY <2>2, <2>4 DEF LoopInv
<1>5. CASE ~(Period[t] > 0)
  <2>1. Rearmed(t) = [u \in DOMAIN left \ {t} |-> left[u]]
    BY <1>5 DEF Rearmed
  <2>2. /\ DOMAIN Rearmed(t) = DOMAIN left \ {t}
        /\ \A u \in DOMAIN Rearmed(t) : Rearmed(t)[u] = left[u]
    BY <2>1
  <2> QED
    BY <1>5, <2>2, LeftBounds DEF LoopInv
<1> QED
  BY <1>4, <1>5

LEMMA ExecuteLoop ==
  ASSUME LoopInv, NEW t \in Timers, NEW d \in Durations, ExecuteTimer(t, d)
  PROVE  LoopInv'
<1>1. /\ phase = "execute" /\ t \in Earliest
      /\ left' = Elapsed(Rearmed(t), d)
      /\ lag' = lag + d /\ wait' = DelayAt(left', lag') /\ phase' = "wait"
  BY DEF ExecuteTimer
<1>2. lag' = d /\ d \in Nat /\ d <= Longest /\ Longest \in Nat
  <2>1. lag = 0 /\ d \in Nat /\ d <= Longest /\ Longest \in Nat
    BY <1>1, LongestDuration, DeviceAssumption DEF LoopInv
  <2> QED
    BY <1>1, <2>1
<1>3. /\ DOMAIN left' = DOMAIN Rearmed(t)
      /\ \A u \in DOMAIN left' :
           left'[u] \in -Backlog .. Max({Period[u], FirstDelay[u]}) /\ left'[u] \in Int
  BY <1>1, <1>2, RearmedBounds, HeapElapses
<1>4. wait' \in 0 .. LoopInterval
  BY <1>1, <1>2, <1>3, DelayBounds
<1>5. lag' + wait' <= LoopInterval + Longest
  <2>1. LoopInterval \in Nat
    BY LoopAssumption
  <2>2. wait' \in Nat /\ wait' <= LoopInterval
    BY <1>4, <2>1
  <2>3. lag' \in Nat /\ lag' <= Longest /\ Longest \in Nat
    BY <1>2
  <2>4. \A a, b, x, y \in Nat : a <= x /\ b <= y => a + b <= y + x
    OBVIOUS
  <2> QED
    BY <2>1, <2>2, <2>3, <2>4
<1>6. /\ DOMAIN left' \subseteq Timers
      /\ { u \in Timers : Period[u] > 0 } \subseteq DOMAIN left'
  BY <1>1, <1>3, RearmedBounds
<1> QED
  BY <1>1, <1>2, <1>3, <1>4, <1>5, <1>6 DEF LoopInv, Longest

LEMMA ElapsedLoop ==
  ASSUME LoopInv, NEW d \in Nat, left' = Elapsed(left, d), lag' \in Nat,
         wait' \in 0 .. LoopInterval, phase' \in {"execute", "wait"},
         phase' = "execute" => lag' = 0,
         phase' = "wait" => lag' + wait' <= LoopInterval + Longest
  PROVE  LoopInv'
<1>1. DOMAIN left \subseteq Timers
  BY DEF LoopInv
<1>2. /\ DOMAIN left' = DOMAIN left
      /\ \A t \in DOMAIN left : left'[t] \in -Backlog .. Max({Period[t], FirstDelay[t]})
  BY <1>1, LeftBounds, HeapElapses
<1> QED
  BY <1>2 DEF LoopInv, Longest

LEMMA SocketLoop ==
  ASSUME LoopInv, NEW d \in Durations, HandleSocket(d)
  PROVE  LoopInv'
<1>1. d \in Nat
  BY DeviceAssumption
<1> QED
  BY <1>1, ElapsedLoop DEF HandleSocket, LoopInv

LEMMA WaitingLoop ==
  ASSUME LoopInv, Waiting
  PROVE  LoopInv'
<1>1. /\ phase = "wait" /\ lag \in Nat /\ wait \in 0 .. LoopInterval
      /\ lag + wait <= LoopInterval + Longest
      /\ LoopInterval \in Nat /\ Longest \in Nat
  BY LoopAssumption, LongestDuration DEF Waiting, LoopInv
<1>2. CASE wait > 0
  <2>1. /\ wait' = wait - 1 /\ left' = Elapsed(left, 1) /\ lag' = lag + 1 /\ phase' = "wait"
    BY <1>1, <1>2 DEF Waiting
  <2>2. /\ wait' \in 0 .. LoopInterval /\ lag' \in Nat
        /\ lag' + wait' <= LoopInterval + Longest
    BY <1>1, <1>2, <2>1
  <2> QED
    BY <2>1, <2>2, ElapsedLoop
<1>3. CASE ~(wait > 0)
  BY <1>3 DEF Waiting, LoopInv, Longest
<1> QED
  BY <1>2, <1>3

LEMMA NothingDueLoop ==
  ASSUME LoopInv, NothingDue
  PROVE  LoopInv'
<1>1. lag = 0 /\ lag' = 0 /\ left' = left /\ wait' = DelayAt(left, lag) /\ phase' = "wait"
  BY DEF NothingDue, LoopInv
<1>2. wait' \in 0 .. LoopInterval
  BY <1>1, LeftBounds, DelayBounds
<1>3. lag' + wait' <= LoopInterval + Longest
  BY <1>1, <1>2, LoopAssumption, LongestDuration
<1> QED
  BY <1>1, <1>2, <1>3 DEF LoopInv, Longest

LEMMA StartBounds ==
  ASSUME NEW t \in DOMAIN FirstDelay
  PROVE  t \in Timers /\ FirstDelay[t] \in -Backlog .. Max({Period[t], FirstDelay[t]})
<1>1. t \in Timers /\ Backlog \in Nat
  BY LoopAssumption
<1> QED
  BY <1>1, UpTo

LEMMA StartLoopInv ==
  /\ InitLoop => LoopInv
  /\ StartLoop => LoopInv'
<1>1. DOMAIN FirstDelay = Timers /\ LoopInterval \in Nat
  BY LoopAssumption
<1>2. InitLoop => LoopInv
  BY <1>1, StartBounds DEF InitLoop, LoopInv
<1>3. StartLoop => LoopInv'
  BY <1>1, StartBounds DEF StartLoop, LoopInv
<1> QED
  BY <1>2, <1>3

-----------------------------------------------------------------------------
(* The events the agent is asked to list.                                  *)

Adds(q) == { i \in 1 .. Len(q) : q[i].op = "add_event" }

\* A set of numbers is as large when each is one less.
LEMMA Shifted ==
  ASSUME NEW A \in SUBSET Int, IsFiniteSet(A)
  PROVE  LET B == { a - 1 : a \in A }
         IN  IsFiniteSet(B) /\ Cardinality(B) = Cardinality(A)
<1> DEFINE B == { a - 1 : a \in A }
           f == [a \in A |-> a - 1]
<1>1. f \in [A -> B] /\ \A a \in A : f[a] = a - 1
  OBVIOUS
<1>2. \A x \in B : \E a \in A : f[a] = x
  BY <1>1
<1> HIDE DEF f, B
<1>3. ASSUME NEW a \in A, NEW b \in A, f[a] = f[b]
      PROVE  a = b
  <2>1. a \in Int /\ b \in Int /\ a - 1 = b - 1
    BY <1>1, <1>3
  <2> QED
    BY <2>1
<1>4. f \in Bijection(A, B)
  BY <1>1, <1>2, <1>3, Fun_IsBij
<1>5. ExistsBijection(A, B)
  BY <1>4, Fun_ExistsBij
<1> QED
  BY <1>5, FS_Bijection DEF B

LEMMA AddsFinite ==
  ASSUME NEW q, Len(q) \in Nat
  PROVE  /\ IsFiniteSet(Adds(q)) /\ Cardinality(Adds(q)) \in Nat
         /\ Cardinality(Adds(q)) <= Len(q)
<1> DEFINE n == Len(q)
<1>1. Adds(q) \in SUBSET (1 .. n)
  BY DEF Adds
<1>2. n \in Nat
  OBVIOUS
<1> HIDE DEF n
<1>3. IsFiniteSet(1 .. n) /\ Cardinality(1 .. n) = IF 1 > n THEN 0 ELSE n - 1 + 1
  BY <1>2, FS_Interval
<1>4. Cardinality(1 .. n) = n
  BY <1>2, <1>3
<1>5. IsFiniteSet(Adds(q)) /\ Cardinality(Adds(q)) <= n
  BY <1>1, <1>3, <1>4, FS_Subset
<1>6. Cardinality(Adds(q)) \in Nat
  BY <1>5, FS_CardinalityType
<1> QED
  BY <1>5, <1>6 DEF n

LEMMA AddsAppend ==
  ASSUME NEW S, NEW q \in Seq(S), NEW m \in S, NEW p, p = Append(q, m)
  PROVE  Cardinality(Adds(p)) = Cardinality(Adds(q)) + (IF m.op = "add_event" THEN 1 ELSE 0)
<1>1. /\ Len(p) = Len(q) + 1 /\ Len(q) \in Nat
      /\ \A i \in 1 .. Len(q) : p[i] = q[i]
      /\ p[Len(q) + 1] = m
  OBVIOUS
<1>2. 1 .. Len(p) = (1 .. Len(q)) \cup {Len(q) + 1}
  BY <1>1
<1>3. Adds(p) = Adds(q) \cup (IF m.op = "add_event" THEN {Len(q) + 1} ELSE {})
  BY <1>1, <1>2 DEF Adds
<1>4. Len(q) + 1 \notin Adds(q)
  BY <1>1 DEF Adds
<1>5. IsFiniteSet(Adds(q)) /\ Cardinality(Adds(q)) \in Nat
  BY <1>1, AddsFinite
<1>6. CASE m.op = "add_event"
  <2>1. Adds(p) = Adds(q) \cup {Len(q) + 1}
    BY <1>3, <1>6
  <2> QED
    BY <1>4, <1>5, <1>6, <2>1, FS_AddElement
<1>7. CASE m.op # "add_event"
  <2>1. Adds(p) = Adds(q)
    BY <1>3, <1>7
  <2> QED
    BY <1>5, <1>7, <2>1
<1> QED
  BY <1>6, <1>7

LEMMA AddsTail ==
  ASSUME NEW S, NEW q \in Seq(S), q # <<>>, NEW p, p = Tail(q)
  PROVE  Cardinality(Adds(q)) = Cardinality(Adds(p)) + (IF Head(q).op = "add_event" THEN 1 ELSE 0)
<1> DEFINE A == Adds(q) \ {1}
<1>1. /\ Len(p) = Len(q) - 1 /\ Len(q) \in Nat \ {0} /\ Len(p) \in Nat
      /\ \A i \in 1 .. Len(p) : p[i] = q[i + 1]
      /\ q[1] = Head(q)
  OBVIOUS
<1>2. IsFiniteSet(Adds(q)) /\ Cardinality(Adds(q)) \in Nat
  BY <1>1, AddsFinite
<1>3. Adds(p) = { a - 1 : a \in A }
  <2>1. ASSUME NEW i \in Adds(p)
        PROVE  i + 1 \in A /\ i = (i + 1) - 1
    <3>1. i \in 1 .. Len(p) /\ q[i + 1].op = "add_event"
      BY <1>1 DEF Adds
    <3>2. i + 1 \in 1 .. Len(q) /\ i + 1 # 1 /\ i = (i + 1) - 1
      BY <1>1, <3>1
    <3> QED
      BY <3>1, <3>2 DEF Adds
  <2>2. ASSUME NEW a \in A
        PROVE  a - 1 \in Adds(p)
    <3>1. a \in 1 .. Len(q) /\ a # 1 /\ q[a].op = "add_event"
      BY DEF Adds
    <3>2. a - 1 \in 1 .. Len(p) /\ (a - 1) + 1 = a
      BY <1>1, <3>1
    <3> QED
      BY <1>1, <3>1, <3>2 DEF Adds
  <2> HIDE DEF A
  <2> QED
    BY <2>1, <2>2
<1>4. 1 \in Adds(q) <=> Head(q).op = "add_event"
  <2>1. 1 \in 1 .. Len(q)
    BY <1>1
  <2> QED
    BY <1>1, <2>1 DEF Adds
<1>5. /\ IsFiniteSet(A)
      /\ Cardinality(A) = Cardinality(Adds(q)) - (IF Head(q).op = "add_event" THEN 1 ELSE 0)
  BY <1>2, <1>4, FS_RemoveElement
<1>6. A \in SUBSET Int
  BY DEF Adds
<1> HIDE DEF A
<1>7. Cardinality(Adds(p)) = Cardinality(A)
  BY <1>3, <1>5, <1>6, Shifted
<1> QED
  BY <1>2, <1>5, <1>7

ListInv == Len(eventIds) + Cardinality(Adds(inbox)) <= ListLimit

LEMMA ListCounts ==
  ASSUME SpacedInv
  PROVE  Len(eventIds) \in Nat /\ Cardinality(Adds(inbox)) \in Nat
<1>1. Len(eventIds) \in Nat /\ Len(inbox) \in Nat
  BY DEF SpacedInv
<1> QED
  BY <1>1, AddsFinite

\* A handler takes a message off the socket; only add_event lengthens the list.
LEMMA ReadList ==
  ASSUME SpacedInv, ListInv, inbox # <<>>, inbox' = Tail(inbox), eventIds' \in Seq(Events),
         Len(eventIds') <= Len(eventIds) + (IF Head(inbox).op = "add_event" THEN 1 ELSE 0)
  PROVE  ListInv'
<1> DEFINE was == Cardinality(Adds(inbox))
           is == Cardinality(Adds(inbox'))
           one == IF Head(inbox).op = "add_event" THEN 1 ELSE 0
           old == Len(eventIds)
           new == Len(eventIds')
<1>1. inbox \in Seq(Messages)
  BY DEF SpacedInv
<1>2. was = is + one
  BY <1>1, AddsTail
<1>3. was \in Nat /\ old \in Nat /\ one \in {0, 1}
  BY ListCounts
<1>4. Len(inbox') \in Nat /\ new \in Nat
  BY <1>1
<1>5. is \in Nat
  BY <1>4, AddsFinite
<1>6. old + was <= ListLimit /\ ListLimit \in Nat /\ new <= old + one
  BY DeviceAssumption DEF ListInv
<1> HIDE DEF was, is, one, old, new
<1>7. new + is <= ListLimit
  BY <1>2, <1>3, <1>4, <1>5, <1>6
<1> QED
  BY <1>7 DEF ListInv, is, new

LEMMA RemovedOne ==
  ASSUME NEW q \in Seq(Events), NEW i \in 1 .. Len(q)
  PROVE  RemoveAt(q, i) \in Seq(Events) /\ Len(RemoveAt(q, i)) = Len(q) - 1
<1> DEFINE a == SubSeq(q, 1, i - 1)
           b == SubSeq(q, i + 1, Len(q))
<1>1. /\ a \in Seq(Events) /\ Len(a) = i - 1
      /\ b \in Seq(Events) /\ Len(b) = Len(q) - i
  OBVIOUS
<1>2. RemoveAt(q, i) = a \o b
  BY DEF RemoveAt
<1> HIDE DEF a, b
<1>3. a \o b \in Seq(Events) /\ Len(a \o b) = Len(a) + Len(b)
  BY <1>1
<1>4. Len(a) + Len(b) = Len(q) - 1
  BY <1>1
<1> QED
  BY <1>2, <1>3, <1>4

LEMMA NextList ==
  ASSUME SpacedInv, ListInv, [Next]_vars
  PROVE  ListInv'
<1>1. UNCHANGED <<inbox, eventIds>> => ListInv'
  BY DEF ListInv, Adds
<1>2. inbox \in Seq(Messages) /\ eventIds \in Seq(Events)
  BY DEF SpacedInv
<1>3. ASSUME NEW m \in Messages, inbox' = Append(inbox, m), eventIds' = eventIds,
             m.op = "add_event" => Len(eventIds) + Cardinality(Adds(inbox)) < ListLimit
      PROVE  ListInv'
  <2>1. Cardinality(Adds(inbox')) =
          Cardinality(Adds(inbox)) + (IF m.op = "add_event" THEN 1 ELSE 0)
    BY <1>2, <1>3, AddsAppend
  <2>2. Len(eventIds') = Len(eventIds)
    BY <1>3
  <2>3. /\ Len(eventIds) \in Nat /\ Cardinality(Adds(inbox)) \in Nat /\ ListLimit \in Nat
        /\ Len(eventIds) + Cardinality(Adds(inbox)) <= ListLimit
    BY ListCounts, DeviceAssumption DEF ListInv
  <2>4. Len(eventIds') + Cardinality(Adds(inbox')) <= ListLimit
    BY <1>3, <2>1, <2>2, <2>3
  <2> QED
    BY <2>4 DEF ListInv
<1>4. CASE Step
  <2>1. ASSUME NEW t \in Timers, NEW d \in Durations, DeviceMonitorBehavior(t, d)
        PROVE  ListInv'
    BY <1>1, <2>1 DEF DeviceMonitorBehavior
  <2>2. ASSUME NEW d \in Durations, HandleSubMessage(d)
        PROVE  ListInv'
    <3>1. inbox # <<>> /\ inbox' = Tail(inbox)
      BY <2>2 DEF HandleSubMessage, DeviceControlBehavior, UpdateUIBehavior,
                  DeviceIdentifyBehavior, AddNotificationEvent, RemoveNotificationEvent, Handles
    <3>2. CASE eventIds' = eventIds
      <4>1. Len(eventIds') <= Len(eventIds) + (IF Head(inbox).op = "add_event" THEN 1 ELSE 0)
        BY <3>2, ListCounts
      <4> QED
        BY <1>2, <3>1, <3>2, <4>1, ReadList
    <3>3. CASE AddNotificationEvent(d)
      <4>1. /\ Head(inbox).op = "add_event" /\ eventIds' = Append(eventIds, Head(inbox).arg)
            /\ Head(inbox) \in Messages
        BY <1>2, <3>1, <3>3 DEF AddNotificationEvent, Handles
      <4>2. Head(inbox).arg \in Events
        BY <4>1 DEF Messages, Requests, Refusal
      <4>3. eventIds' \in Seq(Events) /\ Len(eventIds') = Len(eventIds) + 1
        BY <1>2, <4>1, <4>2
      <4>4. Len(eventIds') <= Len(eventIds) + (IF Head(inbox).op = "add_event" THEN 1 ELSE 0)
        BY <4>1, <4>3, ListCounts
      <4> QED
        BY <3>1, <4>3, <4>4, ReadList
    <3>4. CASE \E i \in 1 .. Len(eventIds) : eventIds' = RemoveAt(eventIds, i)
      <4>1. eventIds' \in Seq(Events) /\ Len(eventIds') = Len(eventIds) - 1
        BY <1>2, <3>4, RemovedOne
      <4>2. Len(eventIds') <= Len(eventIds) + (IF Head(inbox).op = "add_event" THEN 1 ELSE 0)
        BY <4>1, ListCounts
      <4> QED
        BY <3>1, <4>1, <4>2, ReadList
    <3>5. eventIds' = eventIds \/ AddNotificationEvent(d)
            \/ \E i \in 1 .. Len(eventIds) : eventIds' = RemoveAt(eventIds, i)
      BY <2>2 DEF HandleSubMessage, DeviceControlBehavior, UpdateUIBehavior,
                  DeviceIdentifyBehavior, RemoveNotificationEvent
    <3> QED
      BY <3>2, <3>3, <3>4, <3>5
  <2>3. CASE NoEffect /\ UNCHANGED inbox
    BY <1>1, <2>3 DEF NoEffect
  <2> QED
    BY <1>4, <2>1, <2>2, <2>3 DEF Step
<1>5. ASSUME NEW m \in Requests, Arrives(m)
      PROVE  ListInv'
  BY <1>3, <1>5 DEF Arrives, NoEffect, Adds, Messages
<1>6. CASE RefusalReturns
  <2>1. Refusal \in Messages /\ Refusal.op # "add_event"
    BY DEF Messages, Refusal
  <2> QED
    BY <1>3, <1>6, <2>1 DEF RefusalReturns
<1>7. CASE DeviceChanges
  BY <1>1, <1>7 DEF DeviceChanges, NoEffect
<1>8. CASE Restart
  <2>1. inbox' = <<>> /\ eventIds' = <<>>
    BY <1>8 DEF Restart
  <2>2. Adds(inbox') = {} /\ Len(eventIds') = 0
    BY <2>1 DEF Adds
  <2>3. Cardinality(Adds(inbox')) = 0
    BY <2>2, FS_EmptySet
  <2> QED
    BY <2>2, <2>3, DeviceAssumption DEF ListInv
<1>9. (\E k \in ClockShifts : ClockIsSet(k)) \/ UNCHANGED vars => ListInv'
  BY <1>1 DEF ClockIsSet, NoEffect, vars, agent
<1> QED
  BY <1>4, <1>5, <1>6, <1>7, <1>8, <1>9 DEF Next

-----------------------------------------------------------------------------

ValuesInv ==
  /\ device \in Settings /\ {known, row} \subseteq Status
  /\ {aborted, refused, alive} \subseteq BOOLEAN
  /\ DOMAIN sent \subseteq Events
  /\ \A e \in DOMAIN sent : sent[e] \in 0 .. SecondsPerDay - 1
  /\ clockSets \in 0 .. MaxClockSets

\* timedelta.seconds is below a day.
LEMMA SentBounds ==
  ASSUME SpacedInv, ValuesInv, NEW d \in Int
  PROVE  /\ DOMAIN SentAfter(d) \subseteq Events
         /\ \A e \in DOMAIN SentAfter(d) : SentAfter(d)[e] \in 0 .. SecondsPerDay - 1
<1>1. DOMAIN SentAfter(d) = DOMAIN sent
  BY DEF SentAfter
<1>2. ASSUME NEW e \in DOMAIN sent
      PROVE  SentAfter(d)[e] \in 0 .. SecondsPerDay - 1
  <2>1. SentAfter(d)[e] = (sent[e] + d) % SecondsPerDay
    BY DEF SentAfter
  <2>2. sent[e] + d \in Int
    BY DEF SpacedInv
  <2>3. SecondsPerDay \in Nat \ {0}
    BY DeviceAssumption
  <2> QED
    BY <2>1, <2>2, <2>3
<1> QED
  BY <1>1, <1>2 DEF ValuesInv

LEMMA MonitorValues ==
  ASSUME SpacedInv, ValuesInv, NEW t \in Timers, NEW d \in Durations, DeviceMonitorBehavior(t, d)
  PROVE  ValuesInv'
<1>1. d \in Nat /\ 0 \in 0 .. SecondsPerDay - 1
  BY DeviceAssumption
<1>2. PICK reached, stored \in BOOLEAN, n \in 0 .. Len(eventIds) :
        LET status == IF reached THEN device ELSE known
            raises == n < Len(eventIds)
        IN
        /\ known' = status /\ alive' = ~raises
        /\ UNCHANGED <<device, eventIds, refused, clockSets>>
        /\ sent' = Stamped(ToSet(SubSeq(eventIds, 1, n)), status, SentAfter(d))
        /\ aborted' = (aborted \/ raises \/ ~stored)
        /\ IF aborted \/ raises \/ status = NoReading
             THEN UNCHANGED row
             ELSE row' \in {status} \cup { s \in {row} : ~stored }
  BY DEF DeviceMonitorBehavior
<1> DEFINE status == IF reached THEN device ELSE known
           queried == ToSet(SubSeq(eventIds, 1, n))
<1>3. status \in Status /\ known' = status /\ device' = device
  BY <1>2 DEF ValuesInv, Status
<1>4. row' \in Status
  BY <1>2, <1>3 DEF ValuesInv
<1>5. aborted' \in BOOLEAN /\ alive' \in BOOLEAN /\ refused' \in BOOLEAN
  <2>1. aborted \in BOOLEAN /\ refused \in BOOLEAN
    BY DEF ValuesInv
  <2> QED
    BY <1>2, <2>1
<1>6. sent' = Stamped(queried, status, SentAfter(d)) /\ queried \subseteq Events
  BY <1>2, QueriedEvents
<1> HIDE DEF status, queried
<1>7. /\ DOMAIN sent' \subseteq Events
      /\ \A e \in DOMAIN sent' : sent'[e] \in 0 .. SecondsPerDay - 1
  <2> DEFINE ages == SentAfter(d)
             mails == Notified(queried, status, ages)
  <2>1. mails \subseteq Events
    BY <1>6 DEF Notified
  <2>2. /\ DOMAIN ages \subseteq Events
        /\ \A e \in DOMAIN ages : ages[e] \in 0 .. SecondsPerDay - 1
    BY <1>1, SentBounds
  <2>3. sent' = [e \in DOMAIN ages \cup mails |-> IF e \in mails THEN 0 ELSE ages[e]]
    BY <1>6 DEF Stamped
  <2> HIDE DEF ages, mails
  <2>4. /\ DOMAIN sent' = DOMAIN ages \cup mails
        /\ \A e \in DOMAIN sent' : sent'[e] = IF e \in mails THEN 0 ELSE ages[e]
    BY <2>3
  <2> QED
    BY <1>1, <2>1, <2>2, <2>4
<1> QED
  BY <1>2, <1>3, <1>4, <1>5, <1>7 DEF ValuesInv

\* A step that only lets time pass for the notifications.
LEMMA PassValues ==
  ASSUME SpacedInv, ValuesInv, NEW d \in Nat, Passes(d),
         device' \in Settings, {known, row}' \subseteq Status,
         {aborted, refused, alive}' \subseteq BOOLEAN
  PROVE  ValuesInv'
<1>1. sent' = SentAfter(d) /\ clockSets' = clockSets
  BY DEF Passes
<1> QED
  BY <1>1, SentBounds DEF ValuesInv

LEMMA ControlValues ==
  ASSUME SpacedInv, ValuesInv, NEW d \in Durations, DeviceControlBehavior(d)
  PROVE  ValuesInv'
<1> DEFINE asked == Head(inbox).arg
<1>1. PICK set, answered, reached \in BOOLEAN :
        /\ UNCHANGED <<known, row, aborted>>
        /\ refused' = (refused \/ asked = Invalid)
        /\ IF asked \in {Invalid, Garbled}
             THEN alive' = (asked = Invalid) /\ UNCHANGED device
             ELSE /\ device' = IF set THEN asked ELSE device
                  /\ alive' = (answered /\ reached)
  BY DEF DeviceControlBehavior
<1>2. Handles("update", d) /\ d \in Nat
  BY DeviceAssumption DEF DeviceControlBehavior
<1>3. Head(inbox) \in Messages /\ Head(inbox).op = "update"
  BY <1>2 DEF Handles, SpacedInv
<1>4. asked \in Settings \cup {Invalid, Garbled}
  BY <1>3 DEF Messages, Requests, Refusal
<1> HIDE DEF asked
<1>5. refused' \in BOOLEAN /\ alive' \in BOOLEAN /\ aborted' \in BOOLEAN
  <2>1. refused \in BOOLEAN /\ aborted \in BOOLEAN
    BY DEF ValuesInv
  <2>2. alive' = (asked = Invalid) \/ alive' = (answered /\ reached)
    BY <1>1
  <2> QED
    BY <1>1, <2>1, <2>2
<1>6. device' \in Settings
  BY <1>1, <1>4 DEF ValuesInv
<1>7. known' \in Status /\ row' \in Status
  BY <1>1 DEF ValuesInv
<1> QED
  BY <1>2, <1>5, <1>6, <1>7, PassValues DEF Handles

LEMMA NextValues ==
  ASSUME SpacedInv, ValuesInv, [Next]_vars
  PROVE  ValuesInv'
<1>1. ASSUME NEW d \in Nat, Passes(d), alive' \in BOOLEAN, refused' \in BOOLEAN,
             device' \in Settings, UNCHANGED <<known, row, aborted>>
      PROVE  ValuesInv'
  BY <1>1, PassValues DEF ValuesInv
<1>2. /\ device \in Settings /\ alive \in BOOLEAN /\ refused \in BOOLEAN
      /\ Durations \subseteq Nat
  BY DeviceAssumption DEF ValuesInv
<1>3. CASE Step
  <2>1. ASSUME NEW t \in Timers, NEW d \in Durations, DeviceMonitorBehavior(t, d)
        PROVE  ValuesInv'
    BY <2>1, MonitorValues
  <2>2. ASSUME NEW d \in Durations, HandleSubMessage(d)
        PROVE  ValuesInv'
    <3>1. CASE DeviceControlBehavior(d)
      BY <3>1, ControlValues
    <3>2. CASE ~DeviceControlBehavior(d)
      <4>1. /\ Passes(d) /\ UNCHANGED <<device, known, row, aborted, refused>>
            /\ alive' \in BOOLEAN
        <5>1. CASE UpdateUIBehavior(d) \/ DeviceIdentifyBehavior(d) \/ AddNotificationEvent(d)
          BY <1>2, <5>1 DEF UpdateUIBehavior, DeviceIdentifyBehavior, AddNotificationEvent,
                            Handles, HandleSocket
        <5>2. CASE RemoveNotificationEvent(d)
          <6>1. alive' = (Head(inbox).arg \in ToSet(eventIds))
            BY <5>2 DEF RemoveNotificationEvent
          <6>2. alive' \in BOOLEAN
            BY <6>1
          <6> QED
            BY <5>2, <6>2 DEF RemoveNotificationEvent, Handles
        <5> QED
          BY <2>2, <3>2, <5>1, <5>2 DEF HandleSubMessage
      <4> QED
        BY <1>1, <1>2, <4>1
    <3> QED
      BY <3>1, <3>2
  <2>3. ASSUME NEW d \in {0, 1}, Passes(d), NoEffect, UNCHANGED device
        PROVE  ValuesInv'
    BY <1>1, <1>2, <2>3 DEF NoEffect
  <2> QED
    BY <1>3, <2>1, <2>2, <2>3 DEF Step
<1>4. ASSUME NEW m \in Requests, Arrives(m)
      PROVE  ValuesInv'
  BY <1>1, <1>2, <1>4 DEF Arrives, NoEffect
<1>5. CASE RefusalReturns
  BY <1>1, <1>2, <1>5 DEF RefusalReturns
<1>6. CASE DeviceChanges
  BY <1>1, <1>2, <1>6 DEF DeviceChanges, NoEffect
<1>7. CASE Restart
  <2>1. sent' = <<>> /\ device' = device /\ row' = row /\ clockSets' = clockSets
        /\ known' = NoReading /\ alive' = TRUE /\ refused' = FALSE /\ aborted' \in BOOLEAN
    BY <1>7 DEF Restart
  <2>2. DOMAIN sent' = {}
    BY <2>1
  <2> QED
    BY <2>1, <2>2 DEF ValuesInv, Status
<1>8. ASSUME NEW k \in ClockShifts, ClockIsSet(k)
      PROVE  ValuesInv'
  <2>1. /\ sent' = SentAfter(k) /\ clockSets' = clockSets + 1 /\ clockSets < MaxClockSets
        /\ UNCHANGED <<device, known, row, aborted, refused, alive>>
    BY <1>8 DEF ClockIsSet, NoEffect
  <2>2. k \in Int /\ MaxClockSets \in Nat
    BY DeviceAssumption
  <2> QED
    BY <2>1, <2>2, SentBounds DEF ValuesInv
<1>9. CASE UNCHANGED vars
  BY <1>9 DEF vars, agent, ValuesInv
<1> QED
  BY <1>3, <1>4, <1>5, <1>6, <1>7, <1>8, <1>9 DEF Next

LEMMA NextLoop ==
  ASSUME LoopInv, [Next]_vars
  PROVE  LoopInv'
<1>1. UNCHANGED loop => LoopInv'
  BY DEF loop, LoopInv, Longest
<1>2. CASE Step
  <2>1. ASSUME NEW t \in Timers, NEW d \in Durations, DeviceMonitorBehavior(t, d)
        PROVE  LoopInv'
    BY <2>1, ExecuteLoop DEF DeviceMonitorBehavior
  <2>2. ASSUME NEW d \in Durations, HandleSubMessage(d)
        PROVE  LoopInv'
    <3>1. HandleSocket(d)
      BY <2>2 DEF HandleSubMessage, DeviceControlBehavior, UpdateUIBehavior,
                  DeviceIdentifyBehavior, AddNotificationEvent, RemoveNotificationEvent, Handles
    <3> QED
      BY <3>1, SocketLoop
  <2> QED
    BY <1>2, <2>1, <2>2, NothingDueLoop, WaitingLoop DEF Step
<1>3. CASE (\E m \in Requests : Arrives(m)) \/ RefusalReturns \/ DeviceChanges
  BY <1>1, <1>3 DEF Arrives, RefusalReturns, DeviceChanges
<1>4. CASE Restart
  BY <1>4, StartLoopInv DEF Restart
<1>5. (\E k \in ClockShifts : ClockIsSet(k)) \/ UNCHANGED vars => LoopInv'
  BY <1>1 DEF ClockIsSet, vars
<1> QED
  BY <1>2, <1>3, <1>4, <1>5 DEF Next

DeviceInv == SpacedInv /\ LoopInv /\ ListInv /\ ValuesInv

LEMMA InitDevice == Init => DeviceInv
<1> SUFFICES ASSUME Init
             PROVE  DeviceInv
  OBVIOUS
<1>1. SpacedInv
  BY DeviceAssumption DEF Init, SpacedInv, Stored, Since, Spaced
<1>2. LoopInv
  BY StartLoopInv DEF Init
<1>3. inbox = <<>> /\ eventIds = <<>> /\ sent = <<>>
  BY DEF Init
<1>4. ListInv
  <2>1. Adds(inbox) = {} /\ Len(eventIds) = 0
    BY <1>3 DEF Adds
  <2>2. Cardinality(Adds(inbox)) = 0
    BY <2>1, FS_EmptySet
  <2> QED
    BY <2>1, <2>2, DeviceAssumption DEF ListInv
<1>5. ValuesInv
  <2>1. DOMAIN sent = {}
    BY <1>3
  <2>2. clockSets \in 0 .. MaxClockSets
    <3>1. clockSets = 0 /\ MaxClockSets \in Nat
      BY DeviceAssumption DEF Init
    <3> QED
      BY <3>1
  <2> QED
    BY <2>1, <2>2 DEF Init, ValuesInv, Status
<1> QED
  BY <1>1, <1>2, <1>4, <1>5 DEF DeviceInv

LEMMA DeviceTypes == DeviceInv => TypeOK
<1> SUFFICES ASSUME DeviceInv
             PROVE  TypeOK
  OBVIOUS
<1>1. SpacedInv /\ LoopInv /\ ListInv /\ ValuesInv
  BY DEF DeviceInv
<1>2. lag \in 0 .. LoopInterval + Max(Durations)
  <2>1. /\ lag \in Nat /\ wait \in Nat /\ LoopInterval \in Nat /\ Longest \in Nat
        /\ lag = 0 \/ lag + wait <= LoopInterval + Longest
    <3>1. LoopInterval \in Nat /\ Longest \in Nat
      BY LoopAssumption, LongestDuration
    <3> QED
      BY <1>1, <3>1 DEF LoopInv
  <2>2. lag \in 0 .. LoopInterval + Longest
    BY <2>1
  <2> QED
    BY <2>2 DEF Longest
<1>3. Len(eventIds) <= ListLimit
  <2>1. /\ Len(eventIds) \in Nat /\ Cardinality(Adds(inbox)) \in Nat /\ ListLimit \in Nat
        /\ Len(eventIds) + Cardinality(Adds(inbox)) <= ListLimit
    BY <1>1, ListCounts, DeviceAssumption DEF ListInv
  <2> QED
    BY <2>1
<1>4. eventIds \in Seq(Events) /\ inbox \in Seq(Messages)
  BY <1>1 DEF SpacedInv
<1>5. /\ \A t \in DOMAIN left : left[t] \in -Backlog .. Max({Period[t], FirstDelay[t]})
      /\ { t \in Timers : Period[t] > 0 } \subseteq DOMAIN left /\ DOMAIN left \subseteq Timers
      /\ wait \in 0 .. LoopInterval /\ phase \in {"execute", "wait"}
  BY <1>1 DEF LoopInv
<1> QED
  BY <1>1, <1>2, <1>3, <1>4, <1>5 DEF TypeOK, ValuesInv

\* The loop of an agent keeps its times in bounds whatever its handlers take:
\* a recurring timer stays in the heap and is never due later than its period
\* or first delay, poll never waits for a time already past nor beyond LOOP_INTERVAL, and the
\* time it took at its start is never older than an interval and one handler.
THEOREM LoopTyped == Spec => []TypeOK
<1>1. DeviceInv /\ [Next]_vars => DeviceInv'
  BY NextSpaced, NextLoop, NextList, NextValues DEF DeviceInv
<1> QED
  BY <1>1, InitDevice, DeviceTypes, PTL DEF Spec

=============================================================================
