------------------------- MODULE TelemetrySchedule -------------------------
(***************************************************************************)
(* Which telemetry source is polled when.  Each pass of loop() polls at    *)
(* most one source, the first in the table that is due; a poll blocks the  *)
(* pass until it is answered or times out.  A success makes a source due   *)
(* again after its interval, a failure after a delay that doubles.         *)
(*                                                                         *)
(* due is how long a source still has to wait, nextDueMs - millis(); one   *)
(* that is overdue waits for 0.                                            *)
(***************************************************************************)
EXTENDS Integers

CONSTANTS SourceCount,    \* SOURCE_COUNT, 4
          Intervals,      \* intervals an operator may choose, in ticks
          AnswerTimes,    \* how long a poll that is answered may take
          FailTimes,      \* how long one that is not, at most its timeouts
          PassTimes,      \* how long the rest of a pass may take
          FailLimit,      \* no pass with a failing poll takes longer
          RestLimit,      \* no rest of a pass takes longer
          MaxMultiplier,  \* 1 << 6
          MaxDelay,       \* cap of the delay, 30000 ms
          FirstDue,       \* delay of the i-th source after a reload
          MaxReloads      \* bound: reloads of the telemetry map

Sources == 1..SourceCount

AtMost(n, cap) == IF n < cap THEN n ELSE cap

ASSUME ScheduleAssumption ==
  /\ SourceCount \in Nat /\ MaxMultiplier \in Nat \ {0} /\ MaxDelay \in Nat /\ MaxReloads \in Nat
  /\ Intervals \subseteq 1..MaxDelay
  /\ AnswerTimes \subseteq Nat /\ FailTimes \subseteq Nat /\ PassTimes \subseteq Nat \ {0}
  /\ FirstDue \in [Sources -> 0..MaxDelay]

(* The delay after the last of the failures that are counted leaves room   *)
(* for failing polls of all sources but two: of 14 s each with the default *)
(* interval, where the cap of 30000 ms is reached, and of 3 s each with    *)
(* the shortest one, 6400 ms.  The camera's answer is waited for 1500 ms   *)
(* at most; how long a connection is, the network stack decides.  Nothing  *)
(* is assumed of the intervals: by default 600 ms do not fit into 500 ms.  *)
ASSUME BackoffAssumption ==
  /\ FailLimit \in Nat /\ RestLimit \in Nat
  /\ \A f \in FailTimes, r \in PassTimes : f + r <= FailLimit /\ r <= RestLimit
  /\ \A t \in Intervals : AtMost(t * MaxMultiplier, MaxDelay) > (SourceCount - 2) * FailLimit + RestLimit

VARIABLES enabled,        \* sources that are enabled and have a path
          interval, due,
          multiplier,     \* 1 << failureCount
          polled,         \* the source this pass polled, 0 for none
          reloads,
          slow,           \* history: this pass's answer was slow for an interval
          ahead           \* history: who failed at full delay while a source was due

scheduleVars == <<enabled, interval, due, multiplier, polled, reloads, slow, ahead>>

(* What reload() makes of the table. *)
Load ==
  /\ enabled' \in SUBSET Sources
  /\ interval' \in [Sources -> Intervals]
  /\ due' = FirstDue
  /\ multiplier' = [i \in Sources |-> 1]
  /\ ahead' = [i \in Sources |-> {}]

ScheduleInit ==
  /\ enabled \in SUBSET Sources
  /\ interval \in [Sources -> Intervals]
  /\ due = FirstDue
  /\ multiplier = [i \in Sources |-> 1]
  /\ polled = 0 /\ reloads = 0 /\ slow = FALSE
  /\ ahead = [i \in Sources |-> {}]

Later(delay, time) == IF delay > time THEN delay - time ELSE 0

Due == {i \in enabled : due[i] = 0}

(* No source is due: the pass only takes time. *)
QuietPass ==
  /\ Due = {}
  /\ \E rest \in PassTimes : due' = [i \in Sources |-> Later(due[i], rest)]
  /\ polled' = 0 /\ slow' = FALSE
  /\ UNCHANGED <<enabled, interval, multiplier, reloads, ahead>>

(* Slip: the delay of a failure does not grow.                             *)
NextDelayFlat(i, succeeds, times) == AtMost(interval[i], MaxDelay)

NextDelay(i, succeeds, times) ==
  IF succeeds THEN interval[i] ELSE AtMost(interval[i] * times, MaxDelay)

(* Slip: that a source failed is kept, not how often.                      *)
MultiplierOnce(i, succeeds) == IF succeeds THEN 1 ELSE AtMost(2, MaxMultiplier)

Multiplier(i, succeeds) == IF succeeds THEN 1 ELSE AtMost(2 * multiplier[i], MaxMultiplier)

(* Polls as long as this one by all sources but two take up an interval.   *)
SlowFor(time, rest) == \E i \in enabled : (SourceCount - 2) * (time + rest) + rest >= interval[i]

PollEnds(i, succeeds, time, rest) ==
  /\ multiplier' = [multiplier EXCEPT ![i] = Multiplier(i, succeeds)]
  /\ due' = [j \in Sources |->
               IF j = i THEN Later(NextDelay(i, succeeds, multiplier'[i]), rest)
               ELSE Later(due[j], time + rest)]
  /\ slow' = (succeeds /\ SlowFor(time, rest))
  /\ ahead' = [j \in Sources |->
                 IF j \in Due \ {i} /\ ~succeeds /\ multiplier'[i] = MaxMultiplier
                 THEN ahead[j] \cup {i} ELSE {}]

Poll(i) ==
  /\ i \in Due
  /\ \A j \in Due : i <= j
  /\ \E rest \in PassTimes :
       \/ \E time \in AnswerTimes : PollEnds(i, TRUE, time, rest)
       \/ \E time \in FailTimes : PollEnds(i, FALSE, time, rest)
  /\ polled' = i
  /\ UNCHANGED <<enabled, interval, reloads>>

(* A map that does not parse is refused and changes nothing. *)
Reload ==
  /\ reloads < MaxReloads
  /\ reloads' = reloads + 1
  /\ Load
  /\ UNCHANGED <<polled, slow>>

Pass == QuietPass \/ \E i \in Sources : Poll(i)

ScheduleNext == Pass \/ Reload

(* loop() goes on for ever. *)
ScheduleSpec == ScheduleInit /\ [][ScheduleNext]_scheduleVars /\ WF_scheduleVars(Pass)

-----------------------------------------------------------------------------
(* Properties                                                              *)

(* Every enabled source is polled for ever, although the first in the      *)
(* table always goes first and each poll keeps the others waiting: sources *)
(* that fail do not lock out the others, however much longer than the      *)
(* interval their timeouts are, because their delays grow.  Only answers   *)
(* that are slow for an interval can, if they never cease.                 *)
EverySourcePolled == []<>slow \/ \A i \in Sources : []<>(i \in enabled => polled = i)

(* While sources fail that have failed often enough, none of them is       *)
(* polled twice before one that is due all the time.                       *)
FailingGoAheadOnce ==
  [][\A i \in Sources : Poll(i) => \A j \in Due \ {i} : i \notin ahead[j]]_scheduleVars
=============================================================================
