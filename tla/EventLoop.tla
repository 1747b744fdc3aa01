----------------------------- MODULE EventLoop ------------------------------
(***************************************************************************)
(* The main loop of a BaseAgent (volttron/lite/agent/base.py, sched.py):   *)
(* poll runs at most one timer that is due, then waits on the sockets for  *)
(* as long as the next timer allows; a socket that is ready ends the poll  *)
(* and its handler runs.  One thread does both, so that a handler which    *)
(* takes long makes every timer late.  All times are relative to now:      *)
(* left[t] is the deadline of t less the monotonic clock.                  *)
(***************************************************************************)
EXTENDS Integers, FiniteSetsExt

CONSTANTS
  Period,        \* of each recurring timer; 0 for a timer that runs once
  FirstDelay,    \* the interval each timer is first set to
  LoopInterval,  \* LOOP_INTERVAL
  Backlog        \* bound: how far a deadline can lie in the past

Timers == DOMAIN Period

ASSUME LoopAssumption ==
  /\ Period \in [Timers -> Nat]
  /\ FirstDelay \in [Timers -> Nat]
  /\ LoopInterval \in Nat \ {0}
  /\ Backlog \in Nat

VARIABLES
  left,    \* the heap: from the timers in it to the time until they are due
  lag,     \* how long ago poll took mono_time
  wait,    \* what is left of the delay given to the reactor
  phase    \* "execute" or "wait"

loop == <<left, lag, wait, phase>>

Elapsed(f, d) == [t \in DOMAIN f |-> Max({f[t] - d, -Backlog})]

\* Queue.execute compares with the mono_time taken at the start of the poll.
Due == { t \in DOMAIN left : left[t] + lag <= 0 }
Earliest == { t \in Due : \A u \in DOMAIN left : left[t] <= left[u] }

\* Queue.delay and the minimum poll takes.
UnclampedDelay(heap, behind) ==
  Min({LoopInterval} \cup { heap[t] + behind : t \in DOMAIN heap })
DelayAt(heap, behind) ==
  Min({LoopInterval} \cup { Max({heap[t] + behind, 0}) : t \in DOMAIN heap })

\* A RecurringEvent goes back into the heap one period after its deadline,
\* not after the time it ran at; an Event is not put back.
Rearmed(t) ==
  IF Period[t] > 0 THEN [left EXCEPT ![t] = @ + Period[t]]
                   ELSE [u \in DOMAIN left \ {t} |-> left[u]]

\* poll executes every timer that is due before it looks at a socket.
DrainTimers(t, d) ==
  /\ phase = "execute" /\ t \in Earliest
  /\ left' = Elapsed(Rearmed(t), d)
  /\ lag' = 0
  /\ wait' = DelayAt(left', lag')
  /\ phase' = IF \E u \in DOMAIN left' : left'[u] <= 0 THEN "execute" ELSE "wait"
ExecuteTimer(t, d) ==
  /\ phase = "execute" /\ t \in Earliest
  /\ left' = Elapsed(Rearmed(t), d)
  /\ lag' = lag + d
  /\ wait' = DelayAt(left', lag')
  /\ phase' = "wait"

NothingDue ==
  /\ phase = "execute" /\ Due = {}
  /\ wait' = DelayAt(left, lag)
  /\ phase' = "wait"
  /\ UNCHANGED <<left, lag>>

\* The sockets come first: a poll that finds one ready skips the timers.
SocketsFirst(d) ==
  /\ phase = "wait"
  /\ left' = Elapsed(left, d)
  /\ lag' = 0
  /\ wait' = DelayAt(left', lag')
  /\ phase' = "wait"
HandleSocket(d) ==
  /\ phase = "wait"
  /\ left' = Elapsed(left, d)
  /\ lag' = 0
  /\ phase' = "execute"
  /\ UNCHANGED wait

Waiting ==
  /\ phase = "wait"
  /\ IF wait > 0
       THEN /\ wait' = wait - 1
            /\ left' = Elapsed(left, 1) /\ lag' = lag + 1
            /\ UNCHANGED phase
       ELSE /\ lag' = 0 /\ phase' = "execute"
            /\ UNCHANGED <<left, wait>>

StartLoop ==
  /\ left' = FirstDelay
  /\ lag' = 0 /\ wait' = 0 /\ phase' = "execute"

InitLoop ==
  /\ left = FirstDelay
  /\ lag = 0 /\ wait = 0 /\ phase = "execute"

=============================================================================
