------------------------------ MODULE SeventTimer -----------------------------
(***************************************************************************)
(* Timers of src/src/sevent.c: the select timeout computed from them, the  *)
(* elapsed milliseconds charged to them after select, the two phases of    *)
(* run_timers with their limits, and registration and unregistration by    *)
(* callbacks and by other threads.                                         *)
(*                                                                         *)
(* Time is counted in ticks, TicksPerMs to the millisecond; it passes in   *)
(* select and in callbacks.  The clock is kept modulo one second, which is *)
(* what ms_elapsed reads of it.  A section under ctx->lock is one step;    *)
(* the wakeup that ends every timer call is part of it here, the case of a *)
(* thread delayed in between is the subject of SeventIo and SeventPost.    *)
(***************************************************************************)
EXTENDS Integers, Sequences, SequencesExt, FiniteSets, FiniteSetsExt

CONSTANTS
  Timer,       \* timers, each registered at most once
  Interval,    \* the values of interval_ms (unsigned int)
  IntMax,      \* INT_MAX
  MaxExpired,  \* MAX_EXPIRED_PER_TICK
  MaxFire,     \* MAX_FIRE_PER_TIMER
  IdleWait,    \* the timeout without timers, 50 ms
  TicksPerMs, MsPerSec,
  ClosedFd,    \* the fd of some IO handle may be closed: select fails with EBADF
  HasIo,       \* there are IO handles, so that select is called without timers
  RegAt,       \* the points of the round at which timers are registered ...
  UnregAt,     \* ... and unregistered
  MinWait,     \* the shortest select, in ticks
  MaxWait,     \* bound: ticks in one select
  MaxLag,      \* bound: ms by which a timer is overdue after run_timers
  MaxSlack     \* bound: ticks of slack kept

PC == {"rest", "build", "select", "callbacks", "timers", "fire", "call", "timer_cb"}

\* Where the loop thread runs user code.
UserCode == {"rest", "callbacks", "timer_cb"}

ASSUME TimerAssumption ==
  /\ Interval \subseteq Nat \ {0}
  /\ {IntMax, MaxExpired, MaxFire, IdleWait, TicksPerMs, MsPerSec} \subseteq Nat \ {0}
  /\ {MinWait, MaxWait, MaxLag, MaxSlack} \subseteq Nat
  /\ RegAt \subseteq PC /\ UnregAt \subseteq PC
  /\ HasIo \in BOOLEAN /\ ClosedFd \in BOOLEAN

SecTicks == TicksPerMs * MsPerSec

VARIABLES
  timer_list,  \* ctx->timer_list, head first
  death_timer, \* ctx->death_timer
  freed,       \* released timers
  interval,    \* t->interval_ms
  remaining,   \* t->remaining_ms
  deleted,     \* t->deleted
  wake,        \* the wakeup fd is readable
  pc,
  has_timer,   \* sampled by run_build_fdset
  timeout,     \* of select, in ms
  clock,       \* CLOCK_MONOTONIC, in ticks within the second
  t0,          \* clock at the entry of select
  waited,      \* ticks spent in select
  delta,       \* ms charged in this round
  expired,     \* run_timers' array: timer and number of calls left
  owed,        \* history: ms charged less those of the calls collected
  slack,       \* history: ticks since the registration, and those that may be
               \* charged in excess, less those of the calls collected; MaxSlack
               \* at most, -1 once a call came early; 0 for those in midround
  grace,       \* history: calls a timer may still get after its unregistration;
               \* -1 once it got one more
  midround,    \* history: timers registered after the round's clock reading
  overrun      \* history: timers that found the array full

handles == <<timer_list, death_timer, freed, interval, deleted>>
round   == <<has_timer, timeout, t0, waited, delta>>
history == <<owed, slack, grace, midround, overrun>>
vars    == <<handles, remaining, round, expired, history, wake, pc, clock>>

Live == ToSet(timer_list)

TypeOK ==
  /\ timer_list \in Seq(Timer) /\ death_timer \in SUBSET Timer /\ freed \in SUBSET Timer
  /\ interval \in [Timer -> Interval \cup {0}] /\ remaining \in [Timer -> Int]
  /\ deleted \in [Timer -> BOOLEAN]
  /\ wake \in BOOLEAN /\ has_timer \in BOOLEAN /\ pc \in PC
  /\ timeout \in Nat /\ clock \in 0..(SecTicks - 1) /\ t0 \in 0..(SecTicks - 1)
  /\ waited \in 0..MaxWait /\ delta \in Nat
  /\ expired \in Seq([t : Timer, times : 1..MaxFire]) /\ Len(expired) <= MaxExpired
  /\ owed \in [Timer -> Int] /\ slack \in [Timer -> -1..MaxSlack]
  /\ grace \in [Timer -> -1..1]
  /\ midround \in SUBSET Timer /\ overrun \in SUBSET Timer

Init ==
  /\ timer_list = <<>> /\ death_timer = {} /\ freed = {}
  /\ interval = [t \in Timer |-> 0] /\ remaining = [t \in Timer |-> 0]
  /\ deleted = [t \in Timer |-> FALSE]
  /\ wake = FALSE /\ has_timer = FALSE /\ pc = "rest"
  /\ timeout = 0 /\ clock \in 0..(SecTicks - 1) /\ t0 = 0 /\ waited = 0 /\ delta = 0
  /\ expired = <<>>
  /\ owed = [t \in Timer |-> 0] /\ slack = [t \in Timer |-> 0]
  /\ grace = [t \in Timer |-> 0]
  /\ midround = {} /\ overrun = {}

-------------------------------------------------------------------------------
(* Arithmetic. *)

\* (int) of an unsigned int.
ToInt(u) == IF u > IntMax THEN u - 2 * (IntMax + 1) ELSE u

\* Division of C: truncated towards zero.
TruncDiv(a, b) == IF a >= 0 THEN a \div b ELSE -((-a) \div b)

\* Mutant: only the nanoseconds are subtracted.
ms_elapsed_nsec(a, w) == TruncDiv(((a + w) % SecTicks) - a, TicksPerMs)

\* Whole milliseconds between clock value a and w ticks later: seconds and
\* nanoseconds are subtracted separately, the latter divided as C does.
ms_elapsed(a, w) ==
  LET b == a + w
  IN (b \div SecTicks) * MsPerSec + TruncDiv((b % SecTicks) - a, TicksPerMs)

\* How often the while loop of run_timers adds iv to r: until r is positive,
\* MAX_FIRE_PER_TIMER times at most.
FireCount(r, iv) ==
  IF r > 0 THEN 0 ELSE Min({k \in 1..MaxFire : r + k * iv > 0} \cup {MaxFire})

-------------------------------------------------------------------------------
(* The API. *)

\* Mutant: the write to the wakeup fd is missing.
sevent_wakeup_dropped == UNCHANGED wake

sevent_wakeup == wake' = TRUE

sevent_timer_register(t, iv) ==
  /\ pc \in RegAt
  /\ t \notin Live \cup death_timer \cup freed
  /\ interval' = [interval EXCEPT ![t] = iv]
  /\ remaining' = [remaining EXCEPT ![t] = ToInt(iv)]
  /\ timer_list' = <<t>> \o timer_list
  /\ sevent_wakeup
  /\ midround' = IF pc \in {"select", "callbacks", "timers"} THEN midround \cup {t}
                 ELSE midround
  /\ UNCHANGED <<death_timer, freed, deleted, round, expired, owed, slack, grace, overrun, pc, clock>>

sevent_timer_unregister(t) ==
  /\ pc \in UnregAt
  /\ t \in Live
  /\ deleted' = [deleted EXCEPT ![t] = TRUE]
  /\ timer_list' = RemoveFirst(timer_list, t)
  /\ death_timer' = death_timer \cup {t}
  /\ sevent_wakeup
  /\ grace' = IF pc = "call" /\ Head(expired).t = t THEN [grace EXCEPT ![t] = 1] ELSE grace
  /\ UNCHANGED <<freed, interval, remaining, round, expired, owed, slack, midround, overrun, pc, clock>>

\* A timer that is not on the list any more: the loop is woken all the same.
sevent_timer_unregister_absent(t) ==
  /\ pc \in UnregAt
  /\ t \in death_timer \cup freed
  /\ sevent_wakeup
  /\ UNCHANGED <<handles, remaining, round, expired, history, pc, clock>>

-------------------------------------------------------------------------------
(* The round. *)

round_begin ==
  /\ pc = "rest"
  /\ pc' = "build"
  /\ UNCHANGED <<handles, remaining, round, expired, history, wake, clock>>

\* The smallest remaining time, an overdue timer counting as 0.
NextTimer == Min({Max({remaining[t], 0}) : t \in Live})

\* run_free_death, then run_build_fdset and the clock read before select.
run_build_fdset ==
  /\ pc = "build"
  /\ freed' = freed \cup death_timer /\ death_timer' = {}
  /\ has_timer' = (timer_list # <<>>)
  /\ timeout' = IF timer_list # <<>> THEN NextTimer ELSE IdleWait
  /\ pc' = IF has_timer' \/ HasIo THEN "select" ELSE "callbacks"
  /\ t0' = clock /\ waited' = 0 /\ delta' = 0
  /\ UNCHANGED <<timer_list, interval, deleted, remaining, expired, history, wake, clock>>

\* n more ticks for the calls of the timers on the list.
Gain(n) ==
  [t \in Timer |-> IF t \in Live \ midround /\ slack[t] >= 0
                   THEN Min({slack[t] + n, MaxSlack}) ELSE slack[t]]

\* Time passes in select and in the callbacks before run_timers.
Tick ==
  /\ pc \in {"select", "callbacks"}
  /\ pc = "select" => waited < MaxWait
  /\ clock' = (clock + 1) % SecTicks
  /\ waited' = IF pc = "select" THEN waited + 1 ELSE waited
  /\ slack' = Gain(1)
  /\ UNCHANGED <<handles, remaining, has_timer, timeout, t0, delta, expired,
                 owed, grace, midround, overrun, wake, pc>>

\* tv and t0 are out of use after select.
SelectDone == timeout' = 0 /\ t0' = 0 /\ waited' = 0

\* Ticks that may be charged for a select in excess of those it took: less than
\* 1 ms where the second changes in it and ms_elapsed rounds up.
Excess == IF t0 + waited >= SecTicks THEN TicksPerMs - 1 ELSE 0

\* select returns: ready fds, the wakeup fd, its timeout or EINTR.
select_return ==
  /\ pc = "select" /\ waited >= MinWait
  /\ delta' = Max({ms_elapsed(t0, waited), 0})
  /\ slack' = Gain(Excess)
  /\ wake' = FALSE
  /\ pc' = "callbacks"
  /\ SelectDone
  /\ UNCHANGED <<handles, remaining, has_timer, expired, owed, grace, midround, overrun, clock>>

\* Mutant: 1 ms is added to the time that has passed.
select_ebadf_adds ==
  /\ pc = "select" /\ ClosedFd
  /\ delta' = ms_elapsed(t0, waited) + 1
  /\ slack' = Gain(IF waited < TicksPerMs THEN TicksPerMs ELSE Excess)
  /\ pc' = "callbacks"
  /\ SelectDone
  /\ UNCHANGED <<handles, remaining, has_timer, expired, owed, grace, midround, overrun, wake, clock>>

\* EBADF: the IO phase, and with it the drain, is skipped; at least 1 ms counts.
select_ebadf ==
  /\ pc = "select" /\ ClosedFd
  /\ delta' = Max({ms_elapsed(t0, waited), 1})
  /\ slack' = Gain(IF waited < TicksPerMs THEN TicksPerMs ELSE Excess)
  /\ pc' = "callbacks"
  /\ SelectDone
  /\ UNCHANGED <<handles, remaining, has_timer, expired, owed, grace, midround, overrun, wake, clock>>

\* Any other error ends the round.
select_fatal ==
  /\ pc = "select"
  /\ pc' = "rest"
  /\ SelectDone
  /\ UNCHANGED <<handles, remaining, has_timer, delta, expired, history, wake, clock>>

callbacks_end ==
  /\ pc = "callbacks"
  /\ pc' = "timers"
  /\ UNCHANGED <<handles, remaining, round, expired, history, wake, clock>>

\* run_timers returns at once without timers at the start of the round or
\* without a whole millisecond.
run_timers_skip ==
  /\ pc = "timers" /\ (~has_timer \/ delta <= 0)
  /\ pc' = "rest"
  /\ UNCHANGED <<handles, remaining, round, expired, history, wake, clock>>

\* The timer's time left once delta is charged, before any call is counted.
Left(t) == remaining[t] - delta

Calls(t) == FireCount(Left(t), ToInt(interval[t]))

\* The walk over the list: the array after its first i timers.  It takes the
\* timers that are due as long as there is room.
Expired[i \in 0 .. Len(timer_list)] ==
  IF i = 0 THEN <<>>
  ELSE LET t == timer_list[i]
       IN IF Calls(t) > 0 /\ Len(Expired[i - 1]) < MaxExpired
          THEN Append(Expired[i - 1], [t |-> t, times |-> Calls(t)])
          ELSE Expired[i - 1]

Collected == {e.t : e \in ToSet(Expired[Len(timer_list)])}

\* The timers that are due and find the array full.
TurnedAway == {t \in Live : Calls(t) > 0} \ Collected

\* Mutant: a timer that was called starts again from its full interval.
After_restarts(t) ==
  IF t \in TurnedAway THEN 1
  ELSE IF Calls(t) > 0 THEN ToInt(interval[t]) ELSE Left(t)

\* remaining_ms after phase A: a timer that finds the array full loses its
\* calls and is left with 1 ms.
After(t) ==
  IF t \in TurnedAway THEN 1 ELSE Left(t) + Calls(t) * ToInt(interval[t])

\* The histories of timer t, of which k calls are collected.
Owed(t, k)  == IF t \in overrun' THEN 0 ELSE owed[t] + delta - k * ToInt(interval[t])
Slack(t, k) == LET ticks == k * interval[t] * TicksPerMs
               IN IF slack[t] >= ticks THEN slack[t] - ticks ELSE -1

\* Phase A, under the lock.
run_timers_collect ==
  /\ pc = "timers" /\ has_timer /\ delta > 0
  /\ \A t \in Live : After(t) >= -MaxLag
  /\ expired' = Expired[Len(timer_list)]
  /\ remaining' = [t \in Timer |-> IF t \in Live THEN After(t) ELSE remaining[t]]
  /\ overrun' = overrun \cup TurnedAway
  /\ owed' = [t \in Timer |-> IF t \in Live THEN Owed(t, Calls(t)) ELSE owed[t]]
  /\ slack' = [t \in Timer |-> IF t \in Collected \ midround THEN Slack(t, Calls(t)) ELSE slack[t]]
  /\ pc' = "fire" /\ delta' = 0
  /\ UNCHANGED <<handles, has_timer, timeout, t0, waited, grace, midround, wake, clock>>

\* Phase B looks at the mark of the next timer ...
fire_check ==
  /\ pc = "fire" /\ expired # <<>> /\ ~deleted[Head(expired).t]
  /\ pc' = "call"
  /\ UNCHANGED <<handles, remaining, round, expired, history, wake, clock>>

\* ... passes over a timer that was unregistered meanwhile ...
fire_skip ==
  /\ pc = "fire" /\ expired # <<>> /\ deleted[Head(expired).t]
  /\ expired' = Tail(expired)
  /\ UNCHANGED <<handles, remaining, round, history, wake, pc, clock>>

\* ... makes the call ...
fire_call ==
  /\ pc = "call"
  /\ pc' = "timer_cb"
  /\ LET t == Head(expired).t
     IN grace' = IF deleted[t] THEN [grace EXCEPT ![t] = IF @ = 1 THEN 0 ELSE -1] ELSE grace
  /\ UNCHANGED <<handles, remaining, round, expired, owed, slack, midround, overrun, wake, clock>>

\* Mutant: the mark is looked at once for all the calls of a timer.
fire_return_unchecked ==
  /\ pc = "timer_cb"
  /\ expired' = IF Head(expired).times = 1 THEN Tail(expired)
                ELSE [expired EXCEPT ![1].times = @ - 1]
  /\ pc' = IF Head(expired).times = 1 THEN "fire" ELSE "call"
  /\ UNCHANGED <<handles, remaining, round, history, wake, clock>>

\* ... and goes on when it returns.
fire_return ==
  /\ pc = "timer_cb"
  /\ expired' = IF Head(expired).times = 1 THEN Tail(expired)
                ELSE [expired EXCEPT ![1].times = @ - 1]
  /\ pc' = "fire"
  /\ UNCHANGED <<handles, remaining, round, history, wake, clock>>

run_timers_end ==
  /\ pc = "fire" /\ expired = <<>>
  /\ pc' = "rest"
  /\ UNCHANGED <<handles, remaining, round, expired, history, wake, clock>>

-------------------------------------------------------------------------------
Api ==
  \/ \E t \in Timer, iv \in Interval : sevent_timer_register(t, iv)
  \/ \E t \in Timer : sevent_timer_unregister(t) \/ sevent_timer_unregister_absent(t)

LoopStep ==
  \/ round_begin \/ run_build_fdset \/ callbacks_end
  \/ run_timers_skip \/ run_timers_collect
  \/ fire_check \/ fire_skip \/ fire_call \/ fire_return \/ run_timers_end

Select == select_return \/ select_ebadf \/ select_fatal

Next == Api \/ LoopStep \/ Select \/ Tick

Spec == Init /\ [][Next]_vars

\* The loop and its callbacks proceed, time passes in select, select returns.
FairSpec ==
  Spec /\ WF_vars(LoopStep) /\ SF_vars(pc = "select" /\ Tick) /\ SF_vars(select_return)

-------------------------------------------------------------------------------
(* Properties. *)

\* The loop does not sleep past a deadline: the timeout of select is at most
\* what any timer has left, also of timers registered since, or the loop is
\* being woken.
SelectBounded ==
  pc = "select" => wake \/ \A t \in Live : timeout <= Max({remaining[t], 0})

\* ms_elapsed is never negative and off by less than a millisecond, across a
\* change of the second too, where its division rounds up.
ElapsedError ==
  pc = "select" =>
    LET ms == ms_elapsed(t0, waited)
    IN ms >= 0 /\ ms * TicksPerMs - waited \in (1 - TicksPerMs)..(TicksPerMs - 1)

\* No drift: what is charged is what has passed to less than a millisecond, and
\* the calls collected for a timer, which the array always holds, and what it has
\* left account for every millisecond charged to it, whatever the sequence of
\* rounds and of MAX_FIRE_PER_TIMER cuts, unless it once found the array full.
NoDrift ==
  /\ ElapsedError
  /\ Len(expired) <= MaxExpired
  /\ \A t \in Live \ overrun : owed[t] + remaining[t] = ToInt(interval[t]) /\ owed[t] >= 0

\* sevent.h:219: a timer is not called after it was unregistered.  False of the
\* code: another thread may unregister it between the loop's look at the mark and
\* the call, which no lock covers (sevent.c:467-469).
NoCallAfterUnregister ==
  [][pc = "call" /\ pc' = "timer_cb" => ~deleted[Head(expired).t]]_vars

\* What unregistration gives wherever it comes, from the loop's callbacks or from
\* another thread at any point of the round: the timer is not called again, the
\* call excepted that the loop had decided on at that moment, though many more may
\* be collected; and the timers phase B still has to look at are not released.
UnregisterTakesHold ==
  /\ \A t \in Timer : grace[t] >= 0
  /\ \A e \in ToSet(expired) : e.t \notin freed

\* The n-th call of a timer comes early by less than 1 ms for each select in which
\* the second changed, and by 1 ms at most for each that failed with EBADF within
\* its first millisecond; without those n intervals have passed.  It holds for the
\* timers registered outside the select and the IO callbacks of a round.
NotEarly == \A t \in Live \ midround : slack[t] >= 0

\* sevent.h:211: a registered timer is called, again and again.
TimerFires ==
  \A t \in Timer : t \in Live ~> ((pc = "timer_cb" /\ Head(expired).t = t) \/ t \notin Live)
===============================================================================
