---------------------------- MODULE MCScheduler -----------------------------
(* Small instances of the scheduler apps for TLC: days of two hours of two *)
(* minutes, a weekday, a holiday and a weekend day.                        *)
EXTENDS SchedulerApp, TLC

CONSTANTS fa, fb, fc, fbad, heat, cool, low

Everyday(list) == [k \in {"everyday"} \X Days |-> list]

\* One file with the same list every day, one with lists that share minutes
\* with it and with each other, one that lacks the list of a day, and one the
\* app cannot read.
MCContent ==
  fa :> [active |-> {"everyday"}, lists |-> Everyday(1 :> heat @@ 2 :> cool)] @@
  fb :> [active |-> {"holiday", "weekdayweekend"},
         lists |-> <<"holiday">> :> (0 :> low @@ 3 :> low) @@
                   <<"weekdayweekend", "weekday">> :> (1 :> cool @@ 3 :> heat) @@
                   <<"weekdayweekend", "weekend">> :> (2 :> low)] @@
  fc :> [active |-> {"everyday"}, lists |-> <<"everyday", 1>> :> (1 :> low)] @@
  fbad :> Unreadable

\* The reads of a tick may straddle any minute except midnight.
WithinDay == { t \in 0 .. LastMinute - 1 : DayOf(t) = DayOf(t + 1) }
=============================================================================
