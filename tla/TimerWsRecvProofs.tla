-------------------------- MODULE TimerWsRecvProofs ---------------------------
(***************************************************************************)
(* The proofs about two components that count: SeventTimer, which counts   *)
(* time, and WsRecv, which counts the bytes of its buffers.                *)
(***************************************************************************)
EXTENDS SeventTimer, WsRecv, DataLemmas

(***************************************************************************)
(* SeventTimer, for any timers, intervals, array sizes and clock rates.    *)
(***************************************************************************)

\* Nothing has been charged to a timer that was never registered.
Fresh == \A t \in Timer \ (Live \cup death_timer \cup freed) : owed[t] = 0

\* Phase B calls the first timer of the array.
Calling == pc \in {"call", "timer_cb"} => expired # <<>>

\* What was charged to a timer and not yet called for is what it is short of
\* its interval.
Account ==
  \A t \in Live \ overrun : owed[t] + remaining[t] = ToInt(interval[t]) /\ owed[t] >= 0

\* A call of a timer that was unregistered meanwhile is the one allowed for.
Window ==
  /\ \A t \in Timer : grace[t] >= 0
  /\ pc = "call" /\ deleted[Head(expired).t] => grace[Head(expired).t] = 1

\* A timer is on one list at most, and once.
OneList == Distinct(timer_list) /\ Live \cap (death_timer \cup freed) = {}

\* The array is filled and used between two runs of run_free_death.
Held ==
  /\ pc \notin {"fire", "call", "timer_cb"} => expired = <<>>
  /\ \A i \in DOMAIN expired : expired[i].t \notin freed

\* The inductive invariant.
Inv == TypeOK /\ Fresh /\ Calling /\ Account /\ SelectBounded /\ Window /\ OneList /\ Held

-------------------------------------------------------------------------------
(* Arithmetic. *)

\* Max of two integers.
LEMMA MaxOfTwo ==
  ASSUME NEW x \in Int, NEW y \in Int
  PROVE  Max({x, y}) \in {x, y} /\ Max({x, y}) >= x /\ Max({x, y}) >= y
<1>1. \E m \in {x, y} : \A k \in {x, y} : m >= k
  <2>1. CASE x >= y
    BY <2>1
  <2>2. CASE y >= x
    BY <2>2
  <2> QED BY <2>1, <2>2
<1> QED BY <1>1 DEF Max

\* Min of two integers.
LEMMA MinOfTwo ==
  ASSUME NEW x \in Int, NEW y \in Int
  PROVE  Min({x, y}) \in {x, y} /\ Min({x, y}) <= x /\ Min({x, y}) <= y
<1>1. \E m \in {x, y} : \A k \in {x, y} : m <= k
  <2>1. CASE x >= y
    BY <2>1
  <2>2. CASE y >= x
    BY <2>2
  <2> QED BY <2>1, <2>2
<1> QED BY <1>1 DEF Min

\* Division of C is off by less than the divisor, on either side of zero.
LEMMA TruncDivError ==
  ASSUME NEW x \in Int, NEW d \in Nat \ {0}
  PROVE  TruncDiv(x, d) \in Int /\ TruncDiv(x, d) * d - x \in (1 - d) .. (d - 1)
<1>1. \A y \in Nat : y \div d \in Int /\ y - (y \div d) * d \in 0 .. (d - 1)
  <2> SUFFICES ASSUME NEW y \in Nat PROVE y \div d \in Int /\ y - (y \div d) * d \in 0 .. (d - 1)
    OBVIOUS
  <2>1. y = d * (y \div d) + (y % d) /\ y % d \in 0 .. (d - 1) /\ y \div d \in Int
    OBVIOUS
  <2> QED BY <2>1
<1>2. CASE x >= 0
  <2>1. x \in Nat /\ TruncDiv(x, d) = x \div d
    BY <1>2 DEF TruncDiv
  <2> QED BY <1>1, <2>1
<1>3. CASE ~(x >= 0)
  <2>1. -x \in Nat /\ TruncDiv(x, d) = -((-x) \div d)
    BY <1>3 DEF TruncDiv
  <2>2. (-x) \div d \in Int /\ (-x) - ((-x) \div d) * d \in 0 .. (d - 1)
    BY <1>1, <2>1
  <2> DEFINE q == (-x) \div d
  <2>3. (-q) * d = -(q * d) /\ q * d \in Int
    BY <2>2
  <2> HIDE DEF q
  <2> QED BY <2>1, <2>2, <2>3 DEF q
<1> QED BY <1>2, <1>3

\* ms_elapsed is off by less than a millisecond, whatever the clock shows at
\* the entry of select.
LEMMA ElapsedBound ==
  ASSUME NEW a \in 0 .. (SecTicks - 1), NEW w \in Nat
  PROVE  /\ ms_elapsed(a, w) \in Nat
         /\ ms_elapsed(a, w) * TicksPerMs - w \in (1 - TicksPerMs) .. (TicksPerMs - 1)
<1> DEFINE T == TicksPerMs
           q == (a + w) \div SecTicks
           r == (a + w) % SecTicks
           d == TruncDiv(r - a, T)
           ms == q * MsPerSec + d
<1>1. T \in Nat \ {0} /\ MsPerSec \in Nat \ {0} /\ SecTicks = T * MsPerSec /\ SecTicks \in Nat \ {0}
  BY TimerAssumption DEF SecTicks
<1>2. a + w = SecTicks * q + r /\ q \in Int /\ r \in Int /\ a \in Int
  <2>1. \A y \in Nat, z \in Nat \ {0} : y = z * (y \div z) + (y % z) /\ y \div z \in Int /\ y % z \in Int
    OBVIOUS
  <2>2. a + w \in Nat /\ a \in Int
    BY <1>1
  <2> QED BY <1>1, <2>1, <2>2
<1>3. d \in Int /\ d * T - (r - a) \in (1 - T) .. (T - 1)
  <2>1. r - a \in Int
    BY <1>2
  <2> HIDE DEF r, T
  <2> QED BY <1>1, <2>1, TruncDivError
<1>4. ms_elapsed(a, w) = ms
  BY DEF ms_elapsed
<1> HIDE DEF q, r, d, T
<1>5. ms * T = SecTicks * q + d * T /\ ms \in Int
  BY <1>1, <1>2, <1>3
<1>6. ms * T - w \in (1 - T) .. (T - 1)
  BY <1>1, <1>2, <1>3, <1>5
<1>7. ms >= 0
  <2> HIDE DEF ms
  <2>1. SUFFICES ASSUME ms <= -1 PROVE FALSE
    BY <1>5
  <2>2. ms * T <= -T
    BY <1>1, <1>5, <2>1
  <2> QED BY <1>1, <1>5, <1>6, <2>2
<1> QED BY <1>4, <1>5, <1>6, <1>7 DEF T

\* The while loop of run_timers: at most MaxFire additions, none to a timer that
\* is not due, and the one before the last was still needed.
LEMMA FireCountBounds ==
  ASSUME NEW r \in Int, NEW iv \in Int
  PROVE  /\ FireCount(r, iv) \in 0 .. MaxFire
         /\ FireCount(r, iv) = 0 => r > 0
         /\ FireCount(r, iv) > 0 => r + (FireCount(r, iv) - 1) * iv <= 0
<1> DEFINE S == {k \in 1 .. MaxFire : r + k * iv > 0} \cup {MaxFire}
<1>1. MaxFire \in Nat \ {0}
  BY TimerAssumption
<1>2. S \subseteq Nat /\ S # {} /\ S \subseteq 1 .. MaxFire
  BY <1>1
<1>3. CASE r > 0
  BY <1>1, <1>3 DEF FireCount
<1>4. CASE ~(r > 0)
  <2>1. FireCount(r, iv) = Min(S)
    BY <1>4 DEF FireCount
  <2> DEFINE m == Min(S)
  <2>2. m \in S /\ \A k \in S : m <= k
    <3> HIDE DEF S
    <3> QED BY <1>2, MinOfNats
  <2> HIDE DEF m
  <2>3. m \in 1 .. MaxFire
    BY <1>2, <2>2
  <2>4. r + (m - 1) * iv <= 0
    <3>1. CASE m = 1
      BY <1>4, <3>1
    <3>2. CASE m # 1
      <4>1. m - 1 \in 1 .. MaxFire /\ m - 1 < m
        BY <1>1, <2>3, <3>2
      <4>2. m - 1 \notin S
        BY <2>2, <2>3, <4>1
      <4>3. ~(r + (m - 1) * iv > 0) /\ (m - 1) * iv \in Int
        BY <4>1, <4>2
      <4> QED BY <4>3
    <3> QED BY <3>1, <3>2
  <2> QED BY <2>1, <2>3, <2>4 DEF m
<1> QED BY <1>3, <1>4

\* (int) of an unsigned int is an integer.
LEMMA ToIntInt == ASSUME NEW u \in Nat PROVE ToInt(u) \in Int
BY TimerAssumption DEF ToInt

-------------------------------------------------------------------------------
(* Phase A of run_timers. *)

Entry == [t : Timer, times : 1 .. MaxFire]

\* What phase A computes for one timer.
LEMMA CallsBounds ==
  ASSUME TypeOK, NEW t \in Timer
  PROVE  /\ Left(t) \in Int /\ ToInt(interval[t]) \in Int /\ interval[t] \in Nat
         /\ Calls(t) \in 0 .. MaxFire /\ Calls(t) \in Nat
         /\ Calls(t) = 0 => Left(t) > 0
         /\ Calls(t) > 0 => Left(t) + (Calls(t) - 1) * ToInt(interval[t]) <= 0
<1>1. interval[t] \in Nat /\ remaining[t] \in Int /\ delta \in Nat
  <2>1. Interval \cup {0} \subseteq Nat
    BY TimerAssumption
  <2>2. interval \in [Timer -> Interval \cup {0}] /\ remaining \in [Timer -> Int] /\ delta \in Nat
    BY DEF TypeOK
  <2> QED BY <2>1, <2>2
<1>2. Left(t) \in Int /\ ToInt(interval[t]) \in Int
  BY <1>1, ToIntInt DEF Left
<1>3. MaxFire \in Nat
  BY TimerAssumption
<1>4. /\ Calls(t) \in 0 .. MaxFire
      /\ Calls(t) = 0 => Left(t) > 0
      /\ Calls(t) > 0 => Left(t) + (Calls(t) - 1) * ToInt(interval[t]) <= 0
  <2> DEFINE r == Left(t)
             iv == ToInt(interval[t])
  <2>1. r \in Int /\ iv \in Int /\ Calls(t) = FireCount(r, iv)
    BY <1>2 DEF Calls
  <2> HIDE DEF r, iv
  <2> QED BY <2>1, FireCountBounds DEF r, iv
<1>5. Calls(t) \in Nat
  BY <1>3, <1>4
<1> QED BY <1>1, <1>2, <1>4, <1>5

\* The walk fills the array with timers and their calls, never past its end.
LEMMA ArrayFits ==
  ASSUME TypeOK
  PROVE  /\ Expired[Len(timer_list)] \in Seq(Entry) /\ Len(Expired[Len(timer_list)]) <= MaxExpired
         /\ \A i \in DOMAIN Expired[Len(timer_list)] : Expired[Len(timer_list)][i].t \in Live
<1> DEFINE n == Len(timer_list)
           V == {e \in Seq(Entry) : Len(e) <= MaxExpired /\ \A i \in DOMAIN e : e[i].t \in Live}
           Add(e, t) == IF Calls(t) > 0 /\ Len(e) < MaxExpired
                        THEN Append(e, [t |-> t, times |-> Calls(t)]) ELSE e
<1>1. n \in Nat /\ \A i \in 1 .. n : timer_list[i] \in Live /\ timer_list[i] \in Timer
  BY DEF TypeOK, Live, ToSet
<1>2. <<>> \in V
  BY TimerAssumption
<1>3. ASSUME NEW e \in V, NEW t \in Timer, t \in Live PROVE Add(e, t) \in V
  <2>1. CASE Calls(t) > 0 /\ Len(e) < MaxExpired
    <3>1. [t |-> t, times |-> Calls(t)] \in Entry
      BY <2>1, CallsBounds DEF Entry
    <3> DEFINE x == [t |-> t, times |-> Calls(t)]
    <3> HIDE DEF x
    <3>2. Append(e, x) \in Seq(Entry) /\ Len(Append(e, x)) = Len(e) + 1 /\ Len(e) \in Nat
      BY <3>1 DEF x
    <3>3. MaxExpired \in Nat
      BY TimerAssumption
    <3>4. \A i \in DOMAIN Append(e, x) : Append(e, x)[i].t \in Live
      <4>1. x.t = t
        BY DEF x
      <4>2. /\ DOMAIN Append(e, x) = 1 .. (Len(e) + 1) /\ DOMAIN e = 1 .. Len(e)
            /\ Append(e, x)[Len(e) + 1] = x /\ \A i \in 1 .. Len(e) : Append(e, x)[i] = e[i]
        BY <3>1, <3>2 DEF x
      <4>3. ASSUME NEW i \in DOMAIN Append(e, x) PROVE i = Len(e) + 1 \/ i \in DOMAIN e
        BY <3>2, <4>2, <4>3
      <4> QED BY <1>3, <4>1, <4>2, <4>3
    <3>5. Append(e, x) \in V
      <4>1. Len(Append(e, x)) <= MaxExpired
        BY <2>1, <3>2, <3>3
      <4> DEFINE a == Append(e, x)
      <4> HIDE DEF a
      <4>2. a \in Seq(Entry) /\ Len(a) <= MaxExpired /\ \A i \in DOMAIN a : a[i].t \in Live
        BY <3>2, <3>4, <4>1 DEF a
      <4>3. a \in V
        BY <4>2, Zenon
      <4> QED BY <4>3 DEF a
    <3>6. Add(e, t) = Append(e, x)
      BY <2>1 DEF x
    <3> HIDE DEF V, Add
    <3> QED BY <3>5, <3>6
  <2> QED BY <2>1
<1> HIDE DEF V, n
<1>4. PICK g \in [0 .. n -> V] : g[0] = <<>> /\ \A i \in 1 .. n : g[i] = Add(g[i - 1], timer_list[i])
  <2> DEFINE step == [i \in 1 .. n |-> [e \in V |-> Add(e, timer_list[i])]]
  <2>1. step \in [1 .. n -> [V -> V]]
    BY <1>1, <1>3
  <2>2. \A i \in 1 .. n : \A e \in V : step[i][e] = Add(e, timer_list[i])
    OBVIOUS
  <2> HIDE DEF step, Add
  <2>3. PICK g : Iterates(g, n, V, <<>>, step)
    BY <1>1, <1>2, <2>1, Recursion
  <2>4. \A i \in 1 .. n : g[i - 1] \in V
    BY <1>1, <2>3 DEF Iterates
  <2> QED BY <2>2, <2>3, <2>4, ZenonT(60) DEF Iterates
<1> DEFINE F(f) == [i \in 0 .. n |-> IF i = 0 THEN <<>> ELSE Add(f[i - 1], timer_list[i])]
<1> HIDE DEF Add
<1>5. g = F(g)
  BY <1>1, <1>4
<1>6. Expired = F(Expired)
  BY <1>5 DEF Expired, n, Add
<1>7. Expired[0] = <<>> /\ \A i \in 1 .. n : Expired[i] = Add(Expired[i - 1], timer_list[i])
  BY <1>1, <1>6
<1> DEFINE T == {i \in 0 .. n : Expired[i] \in V}
<1>8. 0 \in T
  BY <1>1, <1>2, <1>7
<1>9. ASSUME NEW i \in 1 .. n, i - 1 \in T PROVE i \in T
  BY <1>1, <1>3, <1>7, <1>9
<1>10. n \in T
  <2> HIDE DEF T
  <2>1. 0 .. n \subseteq T
    BY <1>1, <1>8, <1>9, Upward
  <2> QED BY <1>1, <2>1
<1> QED BY <1>10 DEF V, n

-------------------------------------------------------------------------------
(* The steps. *)

LEMMA InvInit == Init => Inv
<1> SUFFICES ASSUME Init PROVE Inv
  OBVIOUS
<1>1. {IntMax, MaxExpired, MaxFire, TicksPerMs, MsPerSec} \subseteq Nat \ {0} /\ {MaxWait, MaxSlack} \subseteq Nat
  BY TimerAssumption
<1>2. SecTicks \in Nat \ {0}
  BY <1>1 DEF SecTicks
<1>3. wake \in BOOLEAN /\ has_timer \in BOOLEAN /\ deleted \in [Timer -> BOOLEAN]
  BY DEF Init
<1>4. /\ interval \in [Timer -> Interval \cup {0}] /\ remaining \in [Timer -> Int]
      /\ owed \in [Timer -> Int] /\ slack \in [Timer -> -1..MaxSlack] /\ grace \in [Timer -> -1..1]
  BY <1>1 DEF Init
<1>5. /\ expired \in Seq([t : Timer, times : 1..MaxFire]) /\ Len(expired) <= MaxExpired
      /\ timer_list \in Seq(Timer) /\ Live = {}
  BY <1>1 DEF Init, Live, ToSet
<1>6. timeout \in Nat /\ clock \in 0..(SecTicks - 1) /\ t0 \in 0..(SecTicks - 1) /\ waited \in 0..MaxWait /\ delta \in Nat
  BY <1>1, <1>2 DEF Init
<1>7. TypeOK
  BY <1>3, <1>4, <1>5, <1>6 DEF Init, TypeOK, PC
<1>8. Fresh /\ Calling /\ Account /\ SelectBounded
  BY <1>5 DEF Init, Fresh, Calling, Account, SelectBounded
<1>9. Window /\ OneList /\ Held
  BY <1>5 DEF Init, Window, OneList, Distinct, Held
<1> QED BY <1>7, <1>8, <1>9 DEF Inv

\* What is on the list are timers.
LEMMA LiveTimers == TypeOK => Live \subseteq Timer
BY DEF TypeOK, Live, ToSet

\* Registration puts a timer that nothing was charged to on the list.
LEMMA InvRegister ==
  ASSUME Inv, NEW t \in Timer, NEW iv \in Interval, sevent_timer_register(t, iv)
  PROVE  Inv'
<1>1. /\ t \notin Live \cup death_timer \cup freed
      /\ interval' = [interval EXCEPT ![t] = iv]
      /\ remaining' = [remaining EXCEPT ![t] = ToInt(iv)]
      /\ timer_list' = <<t>> \o timer_list
      /\ wake' = TRUE
      /\ UNCHANGED <<death_timer, freed, deleted, has_timer, timeout, t0, waited, delta,
                     expired, owed, slack, grace, overrun, pc, clock>>
  BY DEF sevent_timer_register, sevent_wakeup, round
<1>2. midround' \in SUBSET Timer
  BY DEF sevent_timer_register, Inv, TypeOK
<1>3. iv \in Nat /\ ToInt(iv) \in Int
  BY TimerAssumption, ToIntInt
<1>4. timer_list' \in Seq(Timer) /\ Live' = Live \cup {t} /\ Distinct(timer_list')
  <2>1. timer_list \in Seq(Timer) /\ <<t>> \in Seq(Timer)
    BY DEF Inv, TypeOK
  <2>2. /\ timer_list' \in Seq(Timer) /\ Len(timer_list') = Len(timer_list) + 1
        /\ timer_list'[1] = t /\ \A i \in 1 .. Len(timer_list) : timer_list'[i + 1] = timer_list[i]
    BY <1>1, <2>1
  <2>3. /\ DOMAIN timer_list' = 1 .. (Len(timer_list) + 1) /\ DOMAIN timer_list = 1 .. Len(timer_list)
        /\ Len(timer_list) \in Nat
    BY <2>1, <2>2, LenProperties
  <2>4. \A i \in DOMAIN timer_list' : timer_list'[i] \in Live \cup {t}
    <3>1. \A i \in DOMAIN timer_list' : i = 1 \/ (i - 1 \in DOMAIN timer_list /\ timer_list'[i] = timer_list[i - 1])
      BY <2>2, <2>3
    <3> QED BY <2>2, <3>1 DEF Live, ToSet
  <2>5. \A i \in DOMAIN timer_list : timer_list[i] \in Live'
    <3>1. \A i \in DOMAIN timer_list : i + 1 \in DOMAIN timer_list' /\ timer_list'[i + 1] = timer_list[i]
      BY <2>2, <2>3
    <3> QED BY <3>1 DEF Live, ToSet
  <2>6. t \in Live'
    <3>1. 1 \in DOMAIN timer_list'
      BY <2>3
    <3> QED BY <2>2, <3>1 DEF Live, ToSet
  <2>7. Distinct(timer_list')
    <3>1. ASSUME NEW i \in DOMAIN timer_list', NEW j \in DOMAIN timer_list', timer_list'[i] = timer_list'[j]
          PROVE  i = j
      <4>1. \A k \in DOMAIN timer_list' :
               k = 1 \/ (k - 1 \in DOMAIN timer_list /\ timer_list'[k] = timer_list[k - 1] /\ timer_list'[k] # t)
        <5>1. \A k \in DOMAIN timer_list : timer_list[k] # t
          BY <1>1 DEF Live, ToSet
        <5> QED BY <2>2, <2>3, <5>1
      <4>2. Distinct(timer_list)
        BY DEF Inv, OneList
      <4>3. CASE i = 1 \/ j = 1
        BY <2>2, <3>1, <4>1, <4>3
      <4>4. CASE i # 1 /\ j # 1
        <5>1. i - 1 = j - 1
          BY <3>1, <4>1, <4>2, <4>4 DEF Distinct
        <5> QED BY <2>3, <5>1
      <4> QED BY <4>3, <4>4
    <3> QED BY <3>1 DEF Distinct
  <2> QED BY <2>2, <2>4, <2>5, <2>6, <2>7 DEF Live, ToSet
<1>5. interval' \in [Timer -> Interval \cup {0}] /\ remaining' \in [Timer -> Int] /\ wake' \in BOOLEAN
  <2>1. interval \in [Timer -> Interval \cup {0}] /\ remaining \in [Timer -> Int]
    BY DEF Inv, TypeOK
  <2> QED BY <1>1, <1>3, <2>1
<1>6. TypeOK'
  BY <1>1, <1>2, <1>4, <1>5 DEF Inv, TypeOK
<1>7. /\ interval'[t] = iv /\ remaining'[t] = ToInt(iv)
      /\ \A u \in Timer : u # t => interval'[u] = interval[u] /\ remaining'[u] = remaining[u]
  BY <1>1 DEF Inv, TypeOK
<1>8. Account'
  <2>1. owed[t] = 0
    BY <1>1 DEF Inv, Fresh
  <2>2. ASSUME NEW u \in Live' \ overrun
        PROVE  owed[u] + remaining'[u] = ToInt(interval'[u]) /\ owed[u] >= 0
    <3>1. CASE u = t
      BY <1>3, <1>7, <2>1, <3>1
    <3>2. CASE u # t
      <4>1. u \in Live /\ u \in Timer
        BY <1>4, <2>2, <3>2, LiveTimers DEF Inv
      <4> QED BY <1>7, <2>2, <3>2, <4>1 DEF Inv, Account
    <3> QED BY <3>1, <3>2
  <2> QED BY <1>1, <2>2 DEF Account, ToInt
<1>9. Fresh' /\ Calling' /\ SelectBounded'
  BY <1>1, <1>4 DEF Inv, Fresh, Calling, SelectBounded
<1>10. Window' /\ OneList' /\ Held'
  BY <1>1, <1>4 DEF Inv, Window, OneList, Held
<1> QED BY <1>6, <1>8, <1>9, <1>10 DEF Inv

\* Unregistration takes a timer off the list and wakes the loop.
LEMMA InvUnregister ==
  ASSUME Inv, NEW t \in Timer, sevent_timer_unregister(t) \/ sevent_timer_unregister_absent(t)
  PROVE  Inv'
<1>1. CASE sevent_timer_unregister(t)
  <2>1. /\ deleted' = [deleted EXCEPT ![t] = TRUE] /\ death_timer' = death_timer \cup {t} /\ wake' = TRUE
        /\ UNCHANGED <<freed, interval, remaining, has_timer, timeout, t0, waited, delta, expired,
                       owed, slack, midround, overrun, pc, clock>>
        /\ grace' = IF pc = "call" /\ Head(expired).t = t THEN [grace EXCEPT ![t] = 1] ELSE grace
    BY <1>1 DEF sevent_timer_unregister, sevent_wakeup, round
  <2>2. timer_list' = RemoveFirst(timer_list, t)
    BY <1>1 DEF sevent_timer_unregister
  <2>3. /\ timer_list' \in Seq(Timer) /\ Live' \subseteq Live /\ Live \subseteq Live' \cup {t}
        /\ Distinct(timer_list') /\ t \notin Live'
    <3>1. timer_list \in Seq(Timer) /\ Distinct(timer_list)
      BY DEF Inv, TypeOK, OneList
    <3> QED BY <2>2, <3>1, RemoveFirstElements DEF Live
  <2>4. deleted' \in [Timer -> BOOLEAN] /\ wake' \in BOOLEAN /\ grace' \in [Timer -> -1..1]
    BY <2>1 DEF Inv, TypeOK
  <2>5. TypeOK'
    BY <2>1, <2>3, <2>4 DEF Inv, TypeOK
  <2>6. Account'
    BY <2>1, <2>3 DEF Inv, Account
  <2>7. Window'
    <3>1. /\ grace \in [Timer -> -1..1] /\ deleted \in [Timer -> BOOLEAN] /\ Window
      BY DEF Inv, TypeOK
    <3> QED BY <2>1, <3>1 DEF Window
  <2>8. OneList'
    BY <2>1, <2>3 DEF Inv, OneList
  <2>9. Held'
    BY <2>1 DEF Inv, Held
  <2> QED BY <2>1, <2>3, <2>5, <2>6, <2>7, <2>8, <2>9 DEF Inv, Fresh, Calling, SelectBounded
<1>2. CASE sevent_timer_unregister_absent(t)
  <2>1. wake' = TRUE /\ UNCHANGED <<timer_list, death_timer, freed, interval, deleted, remaining, has_timer,
                       timeout, t0, waited, delta, expired, owed, slack, grace, midround, overrun, pc, clock>>
    BY <1>2 DEF sevent_timer_unregister_absent, sevent_wakeup, handles, round, history
  <2>2. wake' \in BOOLEAN
    BY <2>1
  <2> QED BY <2>1, <2>2 DEF Inv, TypeOK, Fresh, Calling, Account, SelectBounded, Window, OneList, Held, Live
<1> QED BY <1>1, <1>2

\* The timeout is the least of what the timers have left: the loop cannot sleep
\* past any of them.
LEMMA NextTimerLeast ==
  ASSUME TypeOK, timer_list # <<>>
  PROVE  NextTimer \in Nat /\ \A t \in Live : NextTimer <= Max({remaining[t], 0})
<1> DEFINE S == {Max({remaining[t], 0}) : t \in Live}
<1>1. \A t \in Live : remaining[t] \in Int
  BY LiveTimers DEF TypeOK
<1>2. \A t \in Live : Max({remaining[t], 0}) \in Nat
  <2> SUFFICES ASSUME NEW t \in Live PROVE Max({remaining[t], 0}) \in Nat
    OBVIOUS
  <2>2. remaining[t] \in Int /\ 0 \in Int
    BY <1>1
  <2>1. /\ Max({remaining[t], 0}) \in {remaining[t], 0} /\ Max({remaining[t], 0}) >= 0
    BY <2>2, MaxOfTwo, Zenon
  <2> QED BY <1>1, <2>1
<1>3. Live # {}
  <2>1. timer_list \in Seq(Timer) /\ timer_list # <<>>
    BY DEF TypeOK
  <2>2. 1 \in DOMAIN timer_list
    BY <2>1
  <2> QED BY <2>2 DEF Live, ToSet
<1>4. S \subseteq Nat /\ S # {}
  BY <1>2, <1>3
<1>5. \A t \in Live : Max({remaining[t], 0}) \in S
  OBVIOUS
<1>6. NextTimer = Min(S)
  BY DEF NextTimer
<1> HIDE DEF S
<1>7. Min(S) \in S /\ \A k \in S : Min(S) <= k
  BY <1>4, MinOfNats
<1> QED BY <1>4, <1>5, <1>6, <1>7

\* run_build_fdset samples the list and computes the timeout.
LEMMA InvBuild == ASSUME Inv, run_build_fdset PROVE Inv'
<1>1. /\ pc = "build" /\ freed' = freed \cup death_timer /\ death_timer' = {}
      /\ has_timer' = (timer_list # <<>>)
      /\ timeout' = IF timer_list # <<>> THEN NextTimer ELSE IdleWait
      /\ t0' = clock /\ waited' = 0 /\ delta' = 0
      /\ UNCHANGED <<timer_list, interval, deleted, remaining, expired, owed, slack, grace, midround, overrun, wake, clock>>
  BY DEF run_build_fdset, history
<1>2. pc' \in {"select", "callbacks"}
  BY DEF run_build_fdset
<1>3. timeout' \in Nat /\ \A t \in Live : timeout' <= Max({remaining[t], 0})
  <2>1. CASE timer_list # <<>>
    BY <1>1, <2>1, NextTimerLeast DEF Inv
  <2>2. CASE timer_list = <<>>
    <3>1. Live = {}
      BY <2>2 DEF Live, ToSet
    <3>2. IdleWait \in Nat
      BY TimerAssumption
    <3> QED BY <1>1, <2>2, <3>1, <3>2
  <2> QED BY <2>1, <2>2
<1>4. has_timer' \in BOOLEAN /\ MaxWait \in Nat
  BY <1>1, TimerAssumption
<1>5. waited' \in 0 .. MaxWait /\ delta' \in Nat
  BY <1>1, <1>4
<1>6. TypeOK'
  BY <1>1, <1>2, <1>3, <1>4, <1>5 DEF Inv, TypeOK, PC
<1>7. Live' = Live
  BY <1>1 DEF Live
<1>8. SelectBounded'
  BY <1>1, <1>3, <1>7 DEF SelectBounded
<1>9. Fresh' /\ Calling' /\ Account'
  BY <1>1, <1>2, <1>7 DEF Inv, Fresh, Calling, Account
<1>10. Window' /\ OneList' /\ Held'
  <2>1. expired = <<>>
    BY <1>1 DEF Inv, Held
  <2> QED BY <1>1, <1>2, <1>7, <2>1 DEF Inv, Window, OneList, Held
<1> QED BY <1>6, <1>8, <1>9, <1>10 DEF Inv

\* Gain adds what the bound leaves room for.
LEMMA GainType ==
  ASSUME TypeOK, NEW n \in Nat
  PROVE  Gain(n) \in [Timer -> -1 .. MaxSlack]
<1> SUFFICES ASSUME NEW t \in Timer, slack[t] >= 0
             PROVE  Min({slack[t] + n, MaxSlack}) \in -1 .. MaxSlack
  BY DEF TypeOK, Gain
<1>1. slack[t] \in -1 .. MaxSlack /\ MaxSlack \in Nat
  BY TimerAssumption DEF TypeOK
<1> DEFINE x == slack[t] + n
           m == Min({x, MaxSlack})
<1>2. x \in Nat /\ MaxSlack \in Nat
  BY <1>1
<1>3. m \in {x, MaxSlack} /\ m <= MaxSlack
  <2> HIDE DEF x
  <2> QED BY <1>2, MinOfTwo
<1> HIDE DEF m, x
<1>4. m \in -1 .. MaxSlack
  BY <1>2, <1>3
<1> QED BY <1>4 DEF m, x

\* Time passes.
LEMMA InvTick == ASSUME Inv, Tick PROVE Inv'
<1>1. /\ pc \in {"select", "callbacks"} /\ (pc = "select" => waited < MaxWait)
      /\ clock' = (clock + 1) % SecTicks
      /\ waited' = IF pc = "select" THEN waited + 1 ELSE waited
      /\ slack' = Gain(1)
      /\ UNCHANGED <<timer_list, death_timer, freed, interval, deleted, remaining, has_timer, timeout,
                     t0, delta, expired, owed, grace, midround, overrun, wake, pc>>
  BY DEF Tick, handles
<1>2. SecTicks \in Nat \ {0} /\ MaxWait \in Nat /\ MaxSlack \in Nat
  BY TimerAssumption DEF SecTicks
<1>3. clock' \in 0 .. (SecTicks - 1)
  <2>1. clock + 1 \in Nat
    BY <1>2 DEF Inv, TypeOK
  <2> QED BY <1>1, <1>2, <2>1
<1>4. waited' \in 0 .. MaxWait
  BY <1>1, <1>2 DEF Inv, TypeOK
<1>5. slack' \in [Timer -> -1 .. MaxSlack]
  BY <1>1, GainType DEF Inv
<1>6. TypeOK'
  BY <1>1, <1>3, <1>4, <1>5 DEF Inv, TypeOK
<1> QED BY <1>1, <1>6 DEF Inv, Fresh, Calling, Account, SelectBounded, Window, OneList, Held, Live

\* select returns or fails.
LEMMA InvSelect == ASSUME Inv, Select PROVE Inv'
<1>1. /\ pc = "select" /\ pc' \in {"callbacks", "rest"}
      /\ timeout' = 0 /\ t0' = 0 /\ waited' = 0
      /\ wake' \in {wake, FALSE}
      /\ delta' \in {delta, Max({ms_elapsed(t0, waited), 0}), Max({ms_elapsed(t0, waited), 1})}
      /\ UNCHANGED <<timer_list, death_timer, freed, interval, deleted, remaining, has_timer, expired,
                     owed, grace, midround, overrun, clock>>
  BY DEF Select, select_return, select_ebadf, select_fatal, SelectDone, handles, history
<1>8. slack' \in [Timer -> -1 .. MaxSlack]
  <2>1. TicksPerMs \in Nat /\ Excess \in Nat
    BY TimerAssumption DEF Excess
  <2>2. \/ UNCHANGED slack \/ slack' = Gain(Excess) \/ slack' = Gain(TicksPerMs)
    BY DEF Select, select_return, select_ebadf, select_fatal, history
  <2>3. Gain(Excess) \in [Timer -> -1 .. MaxSlack] /\ Gain(TicksPerMs) \in [Timer -> -1 .. MaxSlack]
    BY <2>1, GainType DEF Inv
  <2> QED BY <2>2, <2>3 DEF Inv, TypeOK
<1>2. t0 \in 0 .. (SecTicks - 1) /\ waited \in Nat /\ delta \in Nat
  BY TimerAssumption DEF Inv, TypeOK
<1>3. delta' \in Nat
  <2>1. ms_elapsed(t0, waited) \in Nat
    BY <1>2, ElapsedBound
  <2> DEFINE ms == ms_elapsed(t0, waited)
  <2> HIDE DEF ms
  <2>2. Max({ms, 0}) \in {ms, 0} /\ Max({ms, 1}) \in {ms, 1}
    <3>1. ms \in Int /\ 0 \in Int /\ 1 \in Int
      BY <2>1 DEF ms
    <3> QED BY <3>1, MaxOfTwo, Zenon
  <2> QED BY <1>1, <1>2, <2>1, <2>2 DEF ms
<1>4. SecTicks \in Nat \ {0} /\ MaxWait \in Nat
  BY TimerAssumption DEF SecTicks
<1>5. timeout' \in Nat /\ t0' \in 0 .. (SecTicks - 1) /\ waited' \in 0 .. MaxWait
  BY <1>1, <1>4
<1>7. wake' \in BOOLEAN
  BY <1>1 DEF Inv, TypeOK
<1>6. TypeOK'
  BY <1>1, <1>3, <1>5, <1>7, <1>8 DEF Inv, TypeOK, PC
<1> QED BY <1>1, <1>6 DEF Inv, Fresh, Calling, Account, SelectBounded, Window, OneList, Held, Live

\* Phase A charges delta to every timer on the list and takes from what is owed
\* what it calls for, which is never more than that.
LEMMA InvCollect == ASSUME Inv, run_timers_collect PROVE Inv'
<1>1. /\ expired' = Expired[Len(timer_list)]
      /\ remaining' = [t \in Timer |-> IF t \in Live THEN After(t) ELSE remaining[t]]
      /\ overrun' = overrun \cup TurnedAway
      /\ owed' = [t \in Timer |-> IF t \in Live THEN Owed(t, Calls(t)) ELSE owed[t]]
      /\ slack' = [t \in Timer |-> IF t \in Collected \ midround THEN Slack(t, Calls(t)) ELSE slack[t]]
      /\ pc' = "fire" /\ delta' = 0
      /\ UNCHANGED <<timer_list, death_timer, freed, interval, deleted,
                     has_timer, timeout, t0, waited, grace, midround, wake, clock>>
  BY DEF run_timers_collect, handles
<1>2. /\ remaining \in [Timer -> Int] /\ owed \in [Timer -> Int] /\ slack \in [Timer -> -1 .. MaxSlack]
      /\ delta \in Nat /\ Live \subseteq Timer /\ overrun \subseteq Timer
  BY LiveTimers DEF Inv, TypeOK
<1>3. ASSUME NEW t \in Timer
      PROVE  After(t) \in Int /\ Owed(t, Calls(t)) \in Int /\ Slack(t, Calls(t)) \in -1 .. MaxSlack
  <2> DEFINE k == Calls(t)
             I == ToInt(interval[t])
             due == k * interval[t] * TicksPerMs
  <2>1. Left(t) \in Int /\ I \in Int /\ k \in Nat /\ interval[t] \in Nat /\ TicksPerMs \in Nat
    BY CallsBounds, TimerAssumption DEF Inv
  <2>2. owed[t] \in Int /\ slack[t] \in -1 .. MaxSlack /\ delta \in Int /\ MaxSlack \in Nat
    BY <1>2, TimerAssumption
  <2> HIDE DEF k, I
  <2>3. k * I \in Int /\ k * interval[t] \in Nat
    BY <2>1
  <2>4. due \in Nat
    BY <2>1, <2>3
  <2>5. After(t) \in Int /\ Owed(t, k) \in Int
    BY <2>1, <2>2, <2>3 DEF After, Owed, k, I
  <2>6. Slack(t, k) = IF slack[t] >= due THEN slack[t] - due ELSE -1
    BY DEF Slack
  <2> HIDE DEF due
  <2>7. Slack(t, k) \in -1 .. MaxSlack
    BY <2>2, <2>4, <2>6
  <2> QED BY <2>5, <2>7 DEF k
<1>4. /\ remaining' \in [Timer -> Int] /\ owed' \in [Timer -> Int] /\ slack' \in [Timer -> -1 .. MaxSlack]
  BY <1>1, <1>2, <1>3
<1>5. /\ expired' \in Seq([t : Timer, times : 1 .. MaxFire]) /\ Len(expired') <= MaxExpired
      /\ \A i \in DOMAIN expired' : expired'[i].t \in Live
  BY <1>1, ArrayFits DEF Inv, Entry
<1>6. overrun' \in SUBSET Timer /\ Live' = Live /\ delta' \in Nat
  BY <1>1, <1>2 DEF TurnedAway, Live
<1>7. TypeOK'
  BY <1>1, <1>4, <1>5, <1>6 DEF Inv, TypeOK, PC
<1>8. Account'
  <2>1. ASSUME NEW t \in Live \ overrun'
        PROVE  owed'[t] + remaining'[t] = ToInt(interval[t]) /\ owed'[t] >= 0
    <3> DEFINE k == Calls(t)
               I == ToInt(interval[t])
               x == k * I
    <3>1. t \in Timer /\ t \notin TurnedAway /\ t \in Live \ overrun /\ t \notin overrun'
      BY <1>1, <1>2, <2>1
    <3>2. /\ Left(t) \in Int /\ I \in Int /\ k \in Nat
          /\ k = 0 => Left(t) > 0
          /\ k > 0 => Left(t) + (k - 1) * I <= 0
      BY <3>1, CallsBounds DEF Inv
    <3>3. owed'[t] = owed[t] + delta - x /\ remaining'[t] = Left(t) + x
      BY <1>1, <3>1 DEF Owed, After
    <3>4. owed[t] + remaining[t] = I /\ owed[t] >= 0 /\ owed[t] \in Int /\ remaining[t] \in Int
      BY <1>2, <3>1 DEF Inv, Account
    <3>5. Left(t) = remaining[t] - delta /\ delta \in Nat
      BY <1>2 DEF Left
    <3> HIDE DEF k, I
    <3>6. x \in Int /\ (k = 0 => x = 0) /\ (k > 0 => Left(t) + x - I <= 0)
      <4>1. (k - 1) * I = x - I /\ x \in Int
        BY <3>2
      <4>2. k = 0 => x = 0
        BY <3>2
      <4> HIDE DEF x
      <4> QED BY <3>2, <4>1, <4>2
    <3> HIDE DEF x
    <3>7. owed'[t] + remaining'[t] = I
      <4>1. x \in Int /\ I \in Int
        BY <3>2, <3>6
      <4>2. owed'[t] + remaining'[t] = (owed[t] + delta - x) + ((remaining[t] - delta) + x)
        BY <3>3, <3>5
      <4> QED BY <3>4, <3>5, <4>1, <4>2
    <3>8. owed'[t] >= 0
      BY <3>2, <3>3, <3>4, <3>5, <3>6
    <3> QED BY <3>7, <3>8 DEF I
  <2> QED BY <1>1, <1>6, <2>1 DEF Account, ToInt
<1>9. Fresh'
  BY <1>1, <1>6 DEF Inv, Fresh
<1>10. Calling' /\ SelectBounded'
  BY <1>1 DEF Calling, SelectBounded
<1>11. Window' /\ OneList' /\ Held'
  BY <1>1, <1>5, <1>6 DEF Inv, Window, OneList, Held
<1> QED BY <1>7, <1>8, <1>9, <1>10, <1>11 DEF Inv

\* Phase B walks the array.
LEMMA InvFire ==
  ASSUME Inv, fire_check \/ fire_skip \/ fire_call \/ fire_return \/ run_timers_end
  PROVE  Inv'
<1>1. /\ pc \in {"fire", "call", "timer_cb"} /\ pc' \in {"fire", "call", "timer_cb", "rest"}
      /\ UNCHANGED <<timer_list, death_timer, freed, interval, deleted, remaining, has_timer, timeout,
                     t0, waited, delta, owed, slack, midround, overrun, wake, clock>>
  BY DEF fire_check, fire_skip, fire_call, fire_return, run_timers_end, handles, round, history
<1>6. Window' /\ grace' \in [Timer -> -1..1]
  <2>1. CASE fire_call
    <3>1. Head(expired).t \in Timer
      <4>1. expired \in Seq(Entry) /\ expired # <<>>
        BY <2>1 DEF Inv, TypeOK, Entry, Calling, fire_call
      <4>2. Head(expired) \in Entry
        BY <4>1
      <4> QED BY <4>2 DEF Entry
    <3> DEFINE t == Head(expired).t
    <3>2. grace' = IF deleted[t] THEN [grace EXCEPT ![t] = IF @ = 1 THEN 0 ELSE -1] ELSE grace
      BY <2>1 DEF fire_call
    <3>3. deleted[t] => grace[t] = 1
      BY <2>1 DEF fire_call, Inv, Window
    <3>4. grace \in [Timer -> -1..1] /\ \A u \in Timer : grace[u] >= 0
      BY DEF Inv, TypeOK, Window
    <3>5. pc' = "timer_cb"
      BY <2>1 DEF fire_call
    <3> HIDE DEF t
    <3>6. t \in Timer
      BY <3>1 DEF t
    <3>7. grace' \in [Timer -> -1..1] /\ \A u \in Timer : grace'[u] >= 0
      <4>1. CASE deleted[t]
        <5>1. grace' = [grace EXCEPT ![t] = 0]
          BY <3>2, <3>3, <3>4, <3>6, <4>1
        <5> QED BY <3>4, <3>6, <5>1
      <4>2. CASE ~deleted[t]
        BY <3>2, <3>4, <4>2
      <4> QED BY <4>1, <4>2
    <3> QED BY <3>5, <3>7 DEF Window
  <2>2. CASE ~fire_call
    BY <1>1, <2>2 DEF Inv, TypeOK, Window, fire_check, fire_skip, fire_return, run_timers_end, handles, history
  <2> QED BY <2>1, <2>2
<1>2. expired \in Seq(Entry) /\ Len(expired) <= MaxExpired /\ MaxExpired \in Nat
  BY TimerAssumption DEF Inv, TypeOK, Entry
<1>3. /\ expired' \in Seq(Entry) /\ Len(expired') <= MaxExpired
      /\ \A i \in DOMAIN expired' : expired'[i].t \notin freed
  <2> DEFINE Free(e) == \A i \in DOMAIN e : e[i].t \notin freed
  <2>6. Free(expired)
    BY DEF Inv, Held
  <2> HIDE DEF Free
  <2> SUFFICES expired' \in Seq(Entry) /\ Len(expired') <= MaxExpired /\ Free(expired')
    BY DEF Free
  <2>1. CASE UNCHANGED expired
    BY <1>2, <2>1, <2>6 DEF Free
  <2>2. CASE expired # <<>> /\ expired' = Tail(expired)
    <3>1. Tail(expired) \in Seq(Entry) /\ Len(Tail(expired)) = Len(expired) - 1 /\ Len(expired) \in Nat
      BY <1>2, <2>2, HeadTailProperties, LenProperties
    <3>2. Free(Tail(expired))
      <4>1. \A i \in DOMAIN Tail(expired) : i + 1 \in DOMAIN expired /\ Tail(expired)[i] = expired[i + 1]
        BY <1>2, <2>2, <3>1
      <4> QED BY <2>6, <4>1 DEF Free
    <3> QED BY <1>2, <2>2, <3>1, <3>2
  <2>3. CASE fire_return /\ Head(expired).times # 1
    <3>1. expired # <<>> /\ expired' = [expired EXCEPT ![1].times = @ - 1]
      BY <2>3 DEF fire_return, Inv, Calling
    <3>2. expired[1] \in Entry /\ Head(expired) = expired[1] /\ 1 \in 1 .. Len(expired)
      BY <1>2, <3>1
    <3> DEFINE e == [expired[1] EXCEPT !.times = @ - 1]
    <3>3. e \in Entry
      <4>1. expired[1].times \in 1 .. MaxFire /\ expired[1].times # 1 /\ MaxFire \in Nat
        BY <2>3, <3>2, TimerAssumption DEF Entry
      <4>2. expired[1].times - 1 \in 1 .. MaxFire
        BY <4>1
      <4> QED BY <3>2, <4>2 DEF Entry
    <3>4. expired' = [expired EXCEPT ![1] = e]
      BY <1>2, <3>1, <3>2
    <3>6. e.t = expired[1].t
      BY <3>2 DEF Entry
    <3> HIDE DEF e
    <3>7. Free(expired')
      <4>1. \A i \in DOMAIN expired' : i \in DOMAIN expired /\ expired'[i] = IF i = 1 THEN e ELSE expired[i]
        BY <1>2, <3>2, <3>4
      <4>2. 1 \in DOMAIN expired
        BY <1>2, <3>2
      <4> QED BY <2>6, <3>6, <4>1, <4>2 DEF Free
    <3>5. expired' \in Seq(Entry) /\ Len(expired') = Len(expired)
      BY <1>2, <3>2, <3>3, <3>4, ExceptSeq
    <3> QED BY <1>2, <3>5, <3>7
  <2>4. CASE fire_return /\ Head(expired).times = 1
    BY <2>2, <2>4 DEF fire_return, Inv, Calling
  <2>5. CASE fire_skip
    BY <2>2, <2>5 DEF fire_skip
  <2> QED BY <2>1, <2>3, <2>4, <2>5 DEF fire_check, fire_call, run_timers_end
<1>4. TypeOK'
  BY <1>1, <1>3, <1>6 DEF Inv, TypeOK, PC, Entry
<1>5. Calling'
  BY DEF Inv, Calling, fire_check, fire_skip, fire_call, fire_return, run_timers_end
<1>7. Held'
  <2>1. pc' = "rest" => expired' = <<>>
    BY DEF fire_check, fire_skip, fire_call, fire_return, run_timers_end
  <2> QED BY <1>1, <1>3, <2>1 DEF Held
<1> QED BY <1>1, <1>4, <1>5, <1>6, <1>7 DEF Inv, Fresh, Account, SelectBounded, OneList, Live

\* The other steps of the round move on without a change.
LEMMA InvRound ==
  ASSUME Inv, round_begin \/ callbacks_end \/ run_timers_skip
  PROVE  Inv'
<1>1. /\ pc' \in {"build", "timers", "rest"}
      /\ UNCHANGED <<timer_list, death_timer, freed, interval, deleted, remaining, has_timer, timeout,
                     t0, waited, delta, expired, owed, slack, grace, midround, overrun, wake, clock>>
  BY DEF round_begin, callbacks_end, run_timers_skip, handles, round, history
<1>2. TypeOK'
  BY <1>1 DEF Inv, TypeOK, PC
<1>3. pc \notin {"fire", "call", "timer_cb"}
  BY DEF round_begin, callbacks_end, run_timers_skip
<1> QED BY <1>1, <1>2, <1>3 DEF Inv, Fresh, Calling, Account, SelectBounded, Window, OneList, Held, Live

-------------------------------------------------------------------------------
(* The theorems. *)

\* The invariant holds in every state, wherever timers are registered and
\* unregistered.
THEOREM InvHolds == Spec => []Inv
<1>1. ASSUME Inv, [Next]_vars PROVE Inv'
  <2>1. CASE UNCHANGED vars
    BY <1>1, <2>1 DEF vars, handles, round, history, Inv, TypeOK, Fresh, Calling, Account, SelectBounded, Window, OneList, Held, Live
  <2>2. CASE Next
    BY <1>1, <2>2, InvRegister, InvUnregister, InvBuild, InvTick, InvSelect, InvCollect, InvFire, InvRound
       DEF Next, Api, LoopStep
  <2> QED BY <1>1, <2>1, <2>2
<1> QED BY <1>1, InvInit, PTL DEF Spec

\* Type correctness: the array of run_timers, its calls per timer and the clock
\* arithmetic stay in their ranges.
THEOREM TypeCorrect == Spec => []TypeOK
BY InvHolds, PTL DEF Inv

\* The timeout that run_build_fdset computes never lets select sleep past a
\* deadline: a timer with less left has woken the loop.
THEOREM SelectBoundedHolds == Spec => []SelectBounded
BY InvHolds, PTL DEF Inv

\* run_timers loses and gains no millisecond: what ms_elapsed charges is right to
\* less than one, and calls and remaining_ms account for all of it.
THEOREM NoDriftHolds == Spec => []NoDrift
<1>1. Inv => NoDrift
  <2> SUFFICES ASSUME Inv PROVE NoDrift
    OBVIOUS
  <2>1. t0 \in 0 .. (SecTicks - 1) /\ waited \in Nat
    BY TimerAssumption DEF Inv, TypeOK
  <2>2. ElapsedError
    BY <2>1, ElapsedBound DEF ElapsedError
  <2> QED BY <2>2 DEF Inv, TypeOK, Account, NoDrift
<1> QED BY <1>1, InvHolds, PTL

\* Unregistration takes hold: but for the one call the loop had decided on there
\* is none after it, and phase B holds no timer that run_free_death released, for
\* any timers and with unregistration at any point of the round.
THEOREM UnregisterTakesHoldHolds == Spec => []UnregisterTakesHold
<1>1. Inv => UnregisterTakesHold
  <2> SUFFICES ASSUME Inv PROVE UnregisterTakesHold
    OBVIOUS
  <2>1. \A e \in ToSet(expired) : e.t \notin freed
    BY DEF Inv, Held, ToSet
  <2> QED BY <2>1 DEF Inv, Window, UnregisterTakesHold
<1> QED BY <1>1, InvHolds, PTL

-----------------------------------------------------------------------------
(***************************************************************************)
(* The arithmetic of the receive buffers of WsRecv, for every capacity,    *)
(* every size of frames and pushes and everything the user does in the     *)
(* callbacks: a push always fits behind what the one before has left, and  *)
(* the fragments of a message fit their buffer.                            *)
(*                                                                         *)
(* The proof follows the calls of the code. An operator of WsRecv takes    *)
(* the connection with the history (a member of State) to another one; its *)
(* lemma says what it keeps: Told for the callbacks, which can only end    *)
(* the connection, Kept for what works on a message and leaves the receive *)
(* buffer alone.                                                           *)
(***************************************************************************)

State == {x \in [c : Conn, app : App] : x.c.destroyed => x.c.state = "CLOSED"}

\* What belongs to the receive buffer and to the frame that is streamed is as it was.
Kept(x, y) ==
  /\ y \in State
  /\ x.c.state = "CLOSED" => y.c.state = "CLOSED"
  /\ y.c.buf = x.c.buf /\ y.c.remaining = x.c.remaining /\ y.c.err = x.c.err
  /\ y.c.fin = x.c.fin /\ y.c.key = x.c.key /\ y.c.mask_off = x.c.mask_off

\* Nor have the fragments and the kind of the message changed.
Told(x, y) ==
  /\ Kept(x, y)
  /\ y.c.frag = x.c.frag /\ y.c.msg.mode = x.c.msg.mode /\ y.c.msg.compressed = x.c.msg.compressed

LEMMA KeptTwice ==
  ASSUME NEW x, NEW y, NEW z, Kept(x, y), Kept(y, z)
  PROVE  Kept(x, z)
BY DEF Kept

LEMMA ToldTwice ==
  ASSUME NEW x, NEW y, NEW z, Told(x, y), Told(y, z)
  PROVE  Told(x, z)
BY KeptTwice DEF Told

LEMMA ToldSelf ==
  ASSUME NEW x \in State
  PROVE  Told(x, x)
BY DEF Told, Kept

\* The fields of a member of State, in a form the provers like.
LEMMA StateFields ==
  ASSUME NEW x \in State
  PROVE  /\ x = [c |-> x.c, app |-> x.app] /\ x.c \in Conn /\ x.app \in App
         /\ x.c.destroyed => x.c.state = "CLOSED"
         /\ x.c.buf \in Seq(Octet) /\ x.c.frag \in Seq(Octet) /\ x.c.z \in Seq(Octet)
         /\ x.c.remaining \in Nat /\ x.c.mask_off \in Nat /\ x.c.err \in {0, 1} /\ x.c.fin \in BOOLEAN
         /\ x.c.key \in {<<>>} \cup [1 .. 4 -> Octet] /\ x.c.msg \in Msg
         /\ x.c.destroyed \in BOOLEAN /\ x.c.state \in {"OPEN", "CLOSED"} /\ x.c.is_client \in BOOLEAN
BY DEF State, Conn

-------------------------------------------------------------------------------
(* The callbacks. *)

LEMMA ActTold ==
  ASSUME NEW x \in State, NEW act \in {"close", "fatal"}
  PROVE  Told(x, Act(x, act))
<1>1. CASE act = "close"
  BY <1>1 DEF Act, Told, Kept, State, Conn, App
<1>2. CASE act = "fatal"
  BY <1>2 DEF Act, Told, Kept, State, Conn, App
<1> QED BY <1>1, <1>2

LEMMA CalledTold ==
  ASSUME NEW x \in State
  PROVE  Told(x, Called(x))
<1> DEFINE y == [x EXCEPT !.app.calls = @ + 1]
<1>1. y \in State /\ y.c = x.c /\ y.app.calls = x.app.calls + 1 /\ x.app.calls \in Nat /\ y.app.plan \in Plans
  BY SMTT(30) DEF State, App
<1>2. Told(x, y)
  BY <1>1 DEF Told, Kept
<1>3. Called(x) = IF y.app.calls = y.app.plan[1] THEN Act(y, y.app.plan[2]) ELSE y
  BY DEF Called
<1> HIDE DEF y
<1>4. CASE y.app.calls = y.app.plan[1]
  <2>1. y.app.plan # <<0, "none">>
    BY <1>1, <1>4
  <2>2. y.app.plan[2] \in {"close", "fatal"}
    BY <1>1, <2>1, RecvAssumption DEF Plans
  <2>3. Told(y, Act(y, y.app.plan[2]))
    BY <1>1, <2>2, ActTold
  <2> QED BY <1>2, <1>3, <1>4, <2>3, ToldTwice
<1> QED BY <1>2, <1>3, <1>4

LEMMA OnMessage ==
  ASSUME NEW x \in State, NEW data \in Seq(Octet), NEW fin \in BOOLEAN, NEW total
  PROVE  Told(x, on_message(x, data, fin, total))
<1> DEFINE right == x.app.mid \/ Right(x.app, data, x.c.msg.bin, x.c.msg.mode, fin, total)
           a == [x.app EXCEPT !.ok = @ /\ right,
                              !.seen = IF fin THEN 0 ELSE @ + Len(data),
                              !.pieces = IF fin THEN 0 ELSE 1,
                              !.expect = IF fin /\ @ # <<>> THEN Tail(@) ELSE @,
                              !.late = @ \/ x.c.destroyed]
           seen == [x EXCEPT !.app = a]
           done == Called(seen)
           last == [done EXCEPT !.app.mid = ~fin /\ done.c.destroyed /\ (@ \/ ~x.c.destroyed)]
<1>1. on_message(x, data, fin, total) = last
  <2> DEFINE s == [x EXCEPT !.app.ok = @ /\ right,
                            !.app.seen = IF fin THEN 0 ELSE @ + Len(data),
                            !.app.pieces = IF fin THEN 0 ELSE 1,
                            !.app.expect = IF fin /\ @ # <<>> THEN Tail(@) ELSE @,
                            !.app.late = @ \/ x.c.destroyed]
  <2>1. s = seen
    BY DEF State, App
  <2>2. on_message(x, data, fin, total)
          = [Called(s) EXCEPT !.app.mid = ~fin /\ Called(s).c.destroyed /\ (@ \/ ~x.c.destroyed)]
    BY DEF on_message
  <2> HIDE DEF s, seen
  <2> QED BY <2>1, <2>2
<1>2. a \in App
  <2>1. (x.app.ok /\ right) \in BOOLEAN
    BY Zenon
  <2> HIDE DEF right
  <2>2. Len(data) \in Nat /\ x.app \in App /\ x.app.expect \in Seq(Expected) /\ x.c.destroyed \in BOOLEAN
    BY StateFields DEF App
  <2>3. x.app.expect # <<>> => Tail(x.app.expect) \in Seq(Expected)
    BY <2>2
  <2> DEFINE ok == x.app.ok /\ right
             seen1 == IF fin THEN 0 ELSE x.app.seen + Len(data)
             pieces1 == IF fin THEN 0 ELSE 1
             expect1 == IF fin /\ x.app.expect # <<>> THEN Tail(x.app.expect) ELSE x.app.expect
             late1 == x.app.late \/ x.c.destroyed
  <2>4. seen1 \in Nat /\ pieces1 \in {0, 1} /\ expect1 \in Seq(Expected) /\ late1 \in BOOLEAN
    BY <2>2, <2>3 DEF App
  <2>5. a = [x.app EXCEPT !.ok = ok, !.seen = seen1, !.pieces = pieces1, !.expect = expect1, !.late = late1]
    BY <2>2 DEF App
  <2> HIDE DEF ok, seen1, pieces1, expect1, late1, a
  <2>6. ok \in BOOLEAN
    BY <2>1 DEF ok
  <2> QED BY <2>2, <2>4, <2>5, <2>6 DEF App
<1> HIDE DEF a
<1>3. seen \in State /\ seen.c = x.c
  BY <1>2 DEF State
<1>4. Told(x, seen)
  BY <1>3 DEF Told, Kept
<1> HIDE DEF seen
<1>5. Told(x, done) /\ done \in State
  BY <1>3, <1>4, CalledTold, ToldTwice DEF Told, Kept
<1> HIDE DEF done
<1>6. last \in State /\ last.c = done.c
  <2> DEFINE mid == ~fin /\ done.c.destroyed /\ (done.app.mid \/ ~x.c.destroyed)
  <2>1. done.app \in App /\ done = [c |-> done.c, app |-> done.app]
    BY <1>5, StateFields
  <2>2. last = [c |-> done.c, app |-> [done.app EXCEPT !.mid = mid]]
    BY <2>1 DEF App
  <2>3. mid \in BOOLEAN
    BY Zenon
  <2> HIDE DEF mid, last
  <2>4. [done.app EXCEPT !.mid = mid] \in App
    BY <2>1, <2>3 DEF App
  <2> QED BY <1>5, <2>2, <2>4 DEF State
<1> HIDE DEF last
<1>7. Told(done, last)
  BY <1>5, <1>6 DEF Told, Kept
<1> QED BY <1>1, <1>5, <1>7, ToldTwice

LEMMA EndedKept ==
  ASSUME NEW x \in State
  PROVE  Told(x, Ended(x)) /\ Ended(x).c.state = "CLOSED"
<1> DEFINE y == [x EXCEPT !.c.state = "CLOSED", !.app.ok = @ /\ ~x.app.over, !.app.over = TRUE]
<1>1. y \in State /\ Told(x, y) /\ y.c.state = "CLOSED"
  BY DEF Told, Kept, State, Conn, App
<1>2. Ended(x) = Called(y)
  BY DEF Ended
<1> HIDE DEF y
<1>3. Told(y, Called(y))
  BY <1>1, CalledTold
<1> QED BY <1>1, <1>2, <1>3, ToldTwice DEF Told, Kept

LEMMA FatalEnds ==
  ASSUME NEW x \in State
  PROVE  /\ Told(x, ws_fatal(x)) /\ ws_fatal(x).c.state = "CLOSED"
         /\ Told(x, ws_enter_closed(x)) /\ ws_enter_closed(x).c.state = "CLOSED"
BY EndedKept, ToldSelf DEF ws_fatal, ws_enter_closed, State

-------------------------------------------------------------------------------
(* Decompression. *)

LEMMA Part ==
  ASSUME NEW S, NEW s \in Seq(S), NEW m \in Int, NEW n \in Int, 1 <= m, n <= Len(s)
  PROVE  SubSeq(s, m, n) \in Seq(S) /\ Len(SubSeq(s, m, n)) = IF n < m THEN 0 ELSE n - m + 1
<1>1. \A i \in m .. n : s[i] \in S
  OBVIOUS
<1>2. SubSeq(s, m, n) \in Seq(S)
  BY <1>1
<1>3. Len(SubSeq(s, m, n)) = IF n < m THEN 0 ELSE n - m + 1
  OBVIOUS
<1> QED BY <1>2, <1>3

LEMMA BatchesTyped ==
  ASSUME NEW data \in Seq(Octet)
  PROVE  /\ Len(Batches(data)) \in Nat
         /\ \A i \in 1 .. Len(Batches(data)) : Batches(data)[i] \in Seq(Octet)
<1> DEFINE n == (Len(data) + Batch - 1) \div Batch
           m(i) == (i - 1) * Batch + 1
           e(i) == IF i * Batch < Len(data) THEN i * Batch ELSE Len(data)
<1>1. Batch \in Nat \ {0} /\ Len(data) \in Nat
  BY RecvAssumption
<1>2. n \in Nat
  <2> DEFINE k == Len(data) + Batch - 1
  <2>1. k \in Nat
    BY <1>1
  <2> HIDE DEF k
  <2>2. k \div Batch \in Nat
    BY <1>1, <2>1
  <2> QED BY <2>2 DEF k
<1>3. Batches(data) = [i \in 1 .. n |-> SubSeq(data, m(i), e(i))]
  BY DEF Batches
<1>4. ASSUME NEW i \in 1 .. n PROVE SubSeq(data, m(i), e(i)) \in Seq(Octet)
  <2>1. i \in Nat /\ i >= 1
    BY <1>2, <1>4
  <2>2. (i - 1) * Batch \in Nat /\ i * Batch \in Nat
    BY <1>1, <2>1
  <2>3. m(i) \in Int /\ 1 <= m(i)
    BY <2>2
  <2>4. e(i) \in Int /\ e(i) <= Len(data)
    BY <1>1, <2>2
  <2> HIDE DEF m, e
  <2> QED BY <2>3, <2>4, Part
<1> HIDE DEF n, m, e
<1>5. Len(Batches(data)) = n
  BY <1>2, <1>3
<1> QED BY <1>2, <1>3, <1>4, <1>5

LEMMA OutBatchesTold ==
  ASSUME NEW x \in State, NEW data \in Seq(Octet)
  PROVE  Told(x, OutBatches(x, data))
<1> DEFINE b == Batches(data)
           n == Len(b)
           V == {y \in State : Told(x, y)}
           Give(y, i) == IF i > 1 /\ y.c.destroyed THEN y ELSE on_message(y, b[i], FALSE, 0)
           F(g) == [i \in 0 .. n |-> IF i = 0 THEN x ELSE Give(g[i - 1], i)]
           f == CHOOSE g : g = F(g)
<1>1. OutBatches(x, data) = f[n]
  BY DEF OutBatches
<1>2. n \in Nat /\ \A i \in 1 .. n : b[i] \in Seq(Octet)
  BY BatchesTyped
<1>3. x \in V
  BY ToldSelf
<1>4. ASSUME NEW y \in V, NEW i \in 1 .. n PROVE Give(y, i) \in V
  <2>1. Told(y, Give(y, i))
    BY <1>2, OnMessage, ToldSelf
  <2> HIDE DEF Give
  <2> QED BY <2>1, ToldTwice DEF Told, Kept
<1> HIDE DEF V, n, b
<1>5. PICK g \in [0 .. n -> V] : g[0] = x /\ \A i \in 1 .. n : g[i] = Give(g[i - 1], i)
  <2> DEFINE step == [i \in 1 .. n |-> [y \in V |-> Give(y, i)]]
  <2>1. step \in [1 .. n -> [V -> V]]
    BY <1>4
  <2>2. \A i \in 1 .. n : \A y \in V : step[i][y] = Give(y, i)
    OBVIOUS
  <2> HIDE DEF step, Give
  <2>3. PICK g : Iterates(g, n, V, x, step)
    BY <1>2, <1>3, <2>1, Recursion
  <2>4. \A i \in 1 .. n : g[i - 1] \in V
    BY <1>2, <2>3 DEF Iterates
  <2> QED BY <2>2, <2>3, <2>4, ZenonT(60) DEF Iterates
<1> HIDE DEF Give
<1>6. g = F(g)
  BY <1>2, <1>5
<1>7. f = F(f)
  BY <1>6
<1> HIDE DEF f
<1>8. f[0] = x /\ \A i \in 1 .. n : f[i] = Give(f[i - 1], i)
  BY <1>2, <1>7
<1> DEFINE T == {i \in 0 .. n : f[i] \in V}
<1>9. 0 \in T
  BY <1>2, <1>3, <1>8
<1>10. ASSUME NEW i \in 1 .. n, i - 1 \in T PROVE i \in T
  BY <1>2, <1>4, <1>8, <1>10
<1>11. n \in T
  <2> HIDE DEF T
  <2>1. 0 .. n \subseteq T
    BY <1>2, <1>9, <1>10, Upward
  <2> QED BY <1>2, <2>1
<1> QED BY <1>1, <1>11 DEF V

\* Bytes that inflate holds back are set aside or taken.
LEMMA HoldTold ==
  ASSUME NEW x \in State, NEW z \in Seq(Octet)
  PROVE  [x EXCEPT !.c.z = z] \in State /\ Told(x, [x EXCEPT !.c.z = z])
BY DEF Told, Kept, State, Conn

LEMMA FinSentTold ==
  ASSUME NEW x \in State, NEW s \in BOOLEAN
  PROVE  [x EXCEPT !.c.msg.fin_sent = s] \in State /\ Told(x, [x EXCEPT !.c.msg.fin_sent = s])
<1> DEFINE m == [x.c.msg EXCEPT !.fin_sent = s]
<1>1. [x EXCEPT !.c.msg.fin_sent = s] = [x EXCEPT !.c.msg = m]
  BY DEF State, Conn, Msg
<1>2. m \in Msg /\ m.mode = x.c.msg.mode /\ m.compressed = x.c.msg.compressed
  BY DEF State, Conn, Msg
<1> HIDE DEF m
<1> QED BY <1>1, <1>2, ZenonT(60) DEF Told, Kept, State, Conn

LEMMA StreamChunk ==
  ASSUME NEW x \in State, NEW data \in Seq(Octet)
  PROVE  Told(x, decompress_stream_chunk(x, data))
<1> DEFINE all == x.c.z \o data
           n == Len(all)
<1>1. x.c.z \in Seq(Octet) /\ all \in Seq(Octet) /\ n \in Nat
  BY StateFields
<1>2. <<>> \in Seq(Octet)
  OBVIOUS
<1>3. data # <<>> => n >= 1
  BY <1>1
<1> HIDE DEF all, n
<1>4. CASE Corrupt(data)
  BY <1>2, <1>4, HoldTold DEF decompress_stream_chunk
<1>5. CASE data = <<>>
  BY <1>2, <1>5, HoldTold, ToldSelf DEF decompress_stream_chunk
<1>6. CASE ~Corrupt(data) /\ data # <<>>
  <2> DEFINE held == SubSeq(all, n, n)
             out == SubSeq(all, 1, n - 1)
  <2>1. held \in Seq(Octet) /\ out \in Seq(Octet)
    BY <1>1, <1>3, <1>6, Part DEF n
  <2> HIDE DEF held, out
  <2> DEFINE y == [x EXCEPT !.c.z = held]
  <2>2. y \in State /\ Told(x, y)
    BY <2>1, HoldTold
  <2>3. decompress_stream_chunk(x, data) = OutBatches(y, out)
    BY <1>6 DEF decompress_stream_chunk, all, n, held, out
  <2> HIDE DEF y
  <2> QED BY <2>1, <2>2, <2>3, OutBatchesTold, ToldTwice
<1> QED BY <1>4, <1>5, <1>6

LEMMA StreamEnd ==
  ASSUME NEW x \in State
  PROVE  Told(x, decompress_stream_end(x))
<1> DEFINE w == [x EXCEPT !.c.z = <<>>]
           y == OutBatches(w, x.c.z)
           z == [y EXCEPT !.c.msg.fin_sent = TRUE]
<1>1. <<>> \in Seq(Octet) /\ x.c.z \in Seq(Octet)
  BY StateFields
<1>2. w \in State /\ Told(x, w)
  BY <1>1, HoldTold
<1>3. decompress_stream_end(x) = y \/ decompress_stream_end(x) = on_message(z, <<>>, TRUE, 0)
  BY DEF decompress_stream_end
<1> HIDE DEF w
<1>4. Told(x, y) /\ y \in State
  BY <1>1, <1>2, OutBatchesTold, ToldTwice DEF Told, Kept
<1> HIDE DEF y
<1>5. Told(x, z) /\ z \in State
  BY <1>4, FinSentTold, ToldTwice
<1> HIDE DEF z
<1>6. Told(x, on_message(z, <<>>, TRUE, 0))
  BY <1>1, <1>5, OnMessage, ToldTwice
<1> QED BY <1>3, <1>4, <1>6

LEMMA DeliverTold ==
  ASSUME NEW x \in State, NEW data \in Seq(Octet), NEW fin \in BOOLEAN, NEW total
  PROVE  Told(x, Deliver(x, data, fin, total))
BY StreamChunk, OnMessage DEF Deliver

\* A compressed message in one frame; an error of inflate is returned.
LEMMA Oneshot ==
  ASSUME NEW x \in State, NEW data \in Seq(Octet)
  PROVE  Told(x, decompress_oneshot(x, data)) \/ decompress_oneshot(x, data) = Fail(x)
<1> DEFINE y == OutBatches(x, data)
<1>1. CASE Corrupt(data)
  BY <1>1 DEF decompress_oneshot
<1>2. CASE ~Corrupt(data)
  <2>1. decompress_oneshot(x, data) = IF y.c.destroyed THEN y ELSE on_message(y, <<>>, TRUE, 0)
    BY <1>2 DEF decompress_oneshot, Then
  <2>2. Told(x, y) /\ y \in State
    BY OutBatchesTold DEF Told, Kept
  <2> HIDE DEF y
  <2>3. <<>> \in Seq(Octet)
    OBVIOUS
  <2>4. Told(y, on_message(y, <<>>, TRUE, 0))
    BY <2>2, <2>3, OnMessage
  <2>5. Told(x, on_message(y, <<>>, TRUE, 0))
    BY <2>2, <2>4, ToldTwice
  <2> QED BY <2>1, <2>2, <2>5
<1> QED BY <1>1, <1>2

-------------------------------------------------------------------------------
(* Messages and their fragments. *)

Fits(x) == Len(x.c.frag) <= Cap

LEMMA SetFrag ==
  ASSUME NEW x \in State, NEW f \in Seq(Octet)
  PROVE  /\ [x EXCEPT !.c.frag = f] \in State /\ Kept(x, [x EXCEPT !.c.frag = f])
         /\ [x EXCEPT !.c.frag = f].c.frag = f /\ [x EXCEPT !.c.frag = f].c.msg = x.c.msg
BY DEF Kept, State, Conn

LEMMA SetMsg ==
  ASSUME NEW x \in State, NEW m \in Msg
  PROVE  /\ [x EXCEPT !.c.msg = m] \in State /\ Kept(x, [x EXCEPT !.c.msg = m])
         /\ [x EXCEPT !.c.msg = m].c.frag = x.c.frag /\ [x EXCEPT !.c.msg = m].c.msg = m
BY DEF Kept, State, Conn

LEMMA SetMsgFrag ==
  ASSUME NEW x \in State, NEW f \in Seq(Octet), NEW m \in Msg
  PROVE  /\ [x EXCEPT !.c.msg = m, !.c.frag = f] \in State
         /\ Kept(x, [x EXCEPT !.c.msg = m, !.c.frag = f])
         /\ [x EXCEPT !.c.msg = m, !.c.frag = f].c.frag = f
BY DEF Kept, State, Conn

LEMMA NoMsgTyped == NoMsg \in Msg
BY DEF NoMsg, Msg

LEMMA EmptyFits == <<>> \in Seq(Octet) /\ Len(<<>>) <= Cap /\ Cap \in Nat
BY RecvAssumption

LEMMA MsgEnd ==
  ASSUME NEW x \in State
  PROVE  Kept(x, msg_end(x)) /\ Fits(msg_end(x))
<1> DEFINE y == IF x.c.msg.mode = "NONE" THEN x
                ELSE IF x.c.msg.compressed THEN decompress_stream_end(x)
                ELSE IF ~x.c.msg.fin_sent THEN on_message(x, <<>>, TRUE, x.c.msg.total)
                ELSE x
           z == [y EXCEPT !.c.msg = NoMsg, !.c.frag = <<>>]
<1>1. msg_end(x) = z
  BY DEF msg_end
<1>2. Told(x, y)
  BY EmptyFits, StreamEnd, OnMessage, ToldSelf
<1> HIDE DEF y
<1>3. Kept(x, y) /\ y \in State
  BY <1>2 DEF Told, Kept
<1>4. Kept(y, z) /\ z.c.frag = <<>>
  BY <1>3, EmptyFits, NoMsgTyped, SetMsgFrag
<1> HIDE DEF z
<1> QED BY <1>1, <1>3, <1>4, EmptyFits, KeptTwice DEF Fits

LEMMA FragAppend ==
  ASSUME NEW x \in State, NEW data \in Seq(Octet), Fits(x), Len(data) <= Cap
  PROVE  Kept(x, frag_append(x, data)) /\ Fits(frag_append(x, data))
<1> DEFINE added(y, old) == [y EXCEPT !.c.frag = old \o data, !.c.msg.total = @ + Len(data)]
           y == Deliver(x, x.c.frag, FALSE, 0)
<1>1. ASSUME NEW w \in State, NEW old \in Seq(Octet), Len(old) + Len(data) <= Cap
      PROVE  Kept(w, added(w, old)) /\ Fits(added(w, old))
  <2> DEFINE f == old \o data
             m == [w.c.msg EXCEPT !.total = @ + Len(data)]
  <2>1. f \in Seq(Octet) /\ Len(f) = Len(old) + Len(data)
    OBVIOUS
  <2>2. m \in Msg
    <3>1. Len(data) \in Nat /\ w.c.msg \in Msg
      BY StateFields
    <3> QED BY <3>1 DEF Msg
  <2>3. added(w, old) = [w EXCEPT !.c.msg = m, !.c.frag = f]
    BY DEF State, Conn, Msg
  <2> HIDE DEF f, m, added
  <2> DEFINE z == [w EXCEPT !.c.msg = m, !.c.frag = f]
  <2>4. Kept(w, z) /\ z.c.frag = f
    BY <2>1, <2>2, SetMsgFrag
  <2>5. added(w, old) = z
    BY <2>3
  <2> HIDE DEF z
  <2> QED BY <1>1, <2>1, <2>4, <2>5 DEF Fits
<1>2. x.c.frag \in Seq(Octet)
  BY StateFields
<1>3. CASE data = <<>>
  BY <1>3, ToldSelf DEF frag_append, Told
<1>4. CASE data # <<>> /\ Len(x.c.frag) + Len(data) <= Cap
  <2>1. frag_append(x, data) = added(x, x.c.frag)
    BY <1>4 DEF frag_append
  <2> HIDE DEF added
  <2> QED BY <1>1, <1>2, <1>4, <2>1
<1>5. CASE data # <<>> /\ ~(Len(x.c.frag) + Len(data) <= Cap)
  <2>1. frag_append(x, data) = IF y.c.destroyed THEN y ELSE added(y, <<>>)
    BY <1>5 DEF frag_append, Then
  <2>2. Told(x, y)
    BY <1>2, DeliverTold
  <2>3. Kept(x, y) /\ y \in State /\ Fits(y)
    BY <2>2 DEF Told, Kept, Fits
  <2>4. <<>> \in Seq(Octet) /\ Len(<<>>) + Len(data) <= Cap
    OBVIOUS
  <2> HIDE DEF y, added
  <2>5. Kept(y, added(y, <<>>)) /\ Fits(added(y, <<>>))
    BY <1>1, <2>3, <2>4
  <2> QED BY <2>1, <2>3, <2>5, KeptTwice
<1> QED BY <1>3, <1>4, <1>5

LEMMA FlushEnd ==
  ASSUME NEW x \in State, Fits(x)
  PROVE  Kept(x, flush_end(x)) /\ Fits(flush_end(x))
<1> DEFINE w == [x EXCEPT !.c.msg.fin_sent = @ \/ ~x.c.msg.compressed]
           y == Deliver(w, x.c.frag, TRUE, x.c.msg.total)
           z == [y EXCEPT !.c.frag = <<>>]
<1>1. x.c.frag \in Seq(Octet) /\ x.c.msg \in Msg
  BY StateFields
<1>2. w \in State /\ Told(x, w)
  <2> DEFINE b == x.c.msg.fin_sent \/ ~x.c.msg.compressed
  <2>1. w = [x EXCEPT !.c.msg.fin_sent = b] /\ b \in BOOLEAN
    BY DEF State, Conn, Msg
  <2> HIDE DEF b
  <2> QED BY <2>1, FinSentTold
<1>3. \/ flush_end(x) = msg_end(x)
      \/ flush_end(x) = ws_enter_closed(x)
      \/ flush_end(x) = IF y.c.destroyed THEN y ELSE msg_end(z)
  BY DEF flush_end, Then
<1> HIDE DEF w
<1>4. Told(x, y) /\ y \in State
  <2>1. Told(w, y)
    BY <1>1, <1>2, DeliverTold
  <2>2. Told(x, y)
    BY <1>2, <2>1, ToldTwice
  <2> QED BY <2>2 DEF Told, Kept
<1> HIDE DEF y
<1>5. Kept(x, y) /\ Fits(y)
  BY <1>4 DEF Told, Fits
<1>6. Kept(x, z) /\ z \in State
  BY <1>4, <1>5, EmptyFits, SetFrag, KeptTwice
<1> HIDE DEF z
<1>7. Kept(x, msg_end(z)) /\ Fits(msg_end(z))
  BY <1>6, MsgEnd, KeptTwice
<1>8. Kept(x, msg_end(x)) /\ Fits(msg_end(x))
  BY MsgEnd
<1>9. Kept(x, ws_enter_closed(x)) /\ Fits(ws_enter_closed(x))
  BY FatalEnds DEF Told, Fits
<1> QED BY <1>3, <1>5, <1>7, <1>8, <1>9

LEMMA FragFlush ==
  ASSUME NEW x \in State, NEW fin \in BOOLEAN, Fits(x)
  PROVE  Kept(x, frag_flush(x, fin)) /\ Fits(frag_flush(x, fin))
<1> DEFINE full == Len(x.c.frag) = Cap /\ (fin \/ x.c.msg.compressed)
           told == [x EXCEPT !.c.msg.fin_sent = @ \/ fin]
           y == Deliver(told, x.c.frag, fin, x.c.msg.total)
           z == [y EXCEPT !.c.frag = <<>>]
           u == IF full THEN z ELSE x
<1>1. frag_flush(x, fin) \in {y, u, flush_end(u)}
  BY DEF frag_flush, Then
<1>2. x.c.frag \in Seq(Octet)
  BY StateFields
<1>3. told \in State /\ Told(x, told)
  <2> DEFINE b == x.c.msg.fin_sent \/ fin
  <2>1. told = [x EXCEPT !.c.msg.fin_sent = b] /\ b \in BOOLEAN
    BY DEF State, Conn, Msg
  <2> HIDE DEF b
  <2> QED BY <2>1, FinSentTold
<1> HIDE DEF told
<1>4. Told(x, y) /\ y \in State
  BY <1>2, <1>3, DeliverTold, ToldTwice DEF Told, Kept
<1> HIDE DEF y
<1>5. Kept(x, y) /\ Fits(y)
  BY <1>4 DEF Told, Fits
<1>6. Kept(y, z) /\ z.c.frag = <<>>
  BY <1>4, EmptyFits, SetFrag
<1> HIDE DEF z
<1>7. Kept(x, z) /\ Fits(z)
  BY <1>5, <1>6, EmptyFits, KeptTwice DEF Fits
<1>8. Kept(x, x)
  BY ToldSelf DEF Told
<1>9. Kept(x, u) /\ Fits(u) /\ u \in State
  BY <1>5, <1>7, <1>8 DEF Kept
<1> HIDE DEF u
<1>10. Kept(x, flush_end(u)) /\ Fits(flush_end(u))
  BY <1>9, FlushEnd, KeptTwice
<1> QED BY <1>1, <1>5, <1>9, <1>10

LEMMA FragFlushTail ==
  ASSUME NEW x \in State, Fits(x)
  PROVE  /\ Kept(x, frag_flush_tail(x)) /\ Fits(frag_flush_tail(x))
         /\ frag_flush_tail(x).c.msg.compressed = x.c.msg.compressed
<1> DEFINE y == Deliver(x, x.c.frag, FALSE, 0)
           z == [y EXCEPT !.c.frag = <<>>]
<1>1. frag_flush_tail(x) = IF x.c.frag = <<>> THEN x ELSE z
  BY DEF frag_flush_tail
<1>2. Told(x, y)
  BY StateFields, DeliverTold
<1> HIDE DEF y
<1>3. y \in State /\ Kept(x, y) /\ y.c.msg.compressed = x.c.msg.compressed
  BY <1>2 DEF Told, Kept
<1>4. Kept(y, z) /\ z.c.frag = <<>> /\ z.c.msg = y.c.msg
  BY <1>3, EmptyFits, SetFrag
<1> HIDE DEF z
<1>5. Kept(x, z) /\ Fits(z) /\ z.c.msg.compressed = x.c.msg.compressed
  BY <1>3, <1>4, EmptyFits, KeptTwice DEF Fits
<1>6. Kept(x, x)
  BY ToldSelf DEF Told
<1> QED BY <1>1, <1>5, <1>6

-------------------------------------------------------------------------------
(* Frames that are streamed. *)

\* Taking a mask off changes no role.
LEMMA MaskTyped ==
  ASSUME NEW data \in Seq(Octet), NEW key \in [1 .. 4 -> Octet], NEW off \in Nat
  PROVE  LET out == ws_frame_apply_mask_offset(data, key, off)
         IN out \in Seq(Octet) /\ Len(out) = Len(data) /\ Corrupt(out) = Corrupt(data)
<1> DEFINE out == ws_frame_apply_mask_offset(data, key, off)
           at(i) == ((off + i - 1) % 4) + 1
<1>1. Len(data) \in Nat /\ DOMAIN data = 1 .. Len(data)
  OBVIOUS
<1>2. out = [i \in 1 .. Len(data) |-> Xor(data[i], key[at(i)])]
  BY <1>1 DEF ws_frame_apply_mask_offset
<1>3. ASSUME NEW i \in 1 .. Len(data) PROVE Xor(data[i], key[at(i)]) \in Octet /\ Xor(data[i], key[at(i)]).c = data[i].c
  <2>1. at(i) \in 1 .. 4
    BY <1>1
  <2> HIDE DEF at
  <2>2. data[i] \in Octet /\ key[at(i)] \in Octet
    BY <1>1, <2>1
  <2>3. key[at(i)].v \in Nat
    BY <2>2 DEF Octet
  <2> QED BY <2>2, <2>3 DEF Xor, Octet
<1> HIDE DEF out, at
<1>4. out \in Seq(Octet) /\ Len(out) = Len(data) /\ DOMAIN out = 1 .. Len(data)
  BY <1>1, <1>2, <1>3
<1>5. Corrupt(out) = Corrupt(data)
  BY <1>1, <1>2, <1>3, <1>4 DEF Corrupt
<1> QED BY <1>4, <1>5 DEF out

LEMMA UnmaskedTyped ==
  ASSUME NEW x \in State, NEW data \in Seq(Octet)
  PROVE  /\ Unmasked(x, data) \in Seq(Octet) /\ Len(Unmasked(x, data)) = Len(data)
         /\ Corrupt(Unmasked(x, data)) = Corrupt(data)
<1>1. CASE x.c.key = <<>>
  BY <1>1 DEF Unmasked
<1>2. CASE x.c.key # <<>>
  <2>1. x.c.key \in [1 .. 4 -> Octet] /\ x.c.mask_off \in Nat
    BY <1>2, StateFields
  <2>2. Unmasked(x, data) = ws_frame_apply_mask_offset(data, x.c.key, x.c.mask_off)
    BY <1>2 DEF Unmasked
  <2> QED BY <2>1, <2>2, MaskTyped
<1> QED BY <1>1, <1>2

\* n bytes of the frame are done with; the message may end, with its callbacks.
LEMMA Consumed ==
  ASSUME NEW x \in State, NEW n \in Nat, n <= Len(x.c.buf), n <= x.c.remaining, Fits(x)
  PROVE  LET y == stream_consumed(x, n)
         IN /\ y \in State /\ Fits(y) /\ y.c.err = x.c.err
            /\ x.c.state = "CLOSED" => y.c.state = "CLOSED"
            /\ y.c.buf = SubSeq(x.c.buf, n + 1, Len(x.c.buf)) /\ y.c.remaining = x.c.remaining - n
            /\ y.c.remaining > 0 => y.c.msg = x.c.msg
<1> DEFINE b == SubSeq(x.c.buf, n + 1, Len(x.c.buf))
           r == x.c.remaining - n
           o == x.c.mask_off + n
           fed == [x EXCEPT !.c.buf = b, !.c.remaining = r, !.c.mask_off = o]
           done == [fed EXCEPT !.c.fin = FALSE, !.c.key = <<>>, !.c.mask_off = 0]
<1>1. x.c.buf \in Seq(Octet) /\ x.c.remaining \in Nat /\ x.c.mask_off \in Nat /\ Len(x.c.buf) \in Nat
  BY StateFields
<1>2. b \in Seq(Octet)
  BY <1>1, Part
<1>3. r \in Nat /\ o \in Nat
  BY <1>1
<1>4. stream_consumed(x, n) = IF fed.c.remaining > 0 THEN fed ELSE IF x.c.fin THEN msg_end(done) ELSE done
  BY DEF stream_consumed, State, Conn
<1> HIDE DEF b, r, o
<1>5. /\ fed \in State /\ fed.c.frag = x.c.frag /\ fed.c.err = x.c.err /\ fed.c.state = x.c.state
      /\ fed.c.buf = b /\ fed.c.remaining = r /\ fed.c.msg = x.c.msg
  BY <1>2, <1>3 DEF State, Conn
<1> HIDE DEF fed
<1>6. /\ done \in State /\ done.c.frag = x.c.frag /\ done.c.err = x.c.err /\ done.c.state = x.c.state
      /\ done.c.buf = b /\ done.c.remaining = r /\ done.c.msg = x.c.msg
  BY <1>5 DEF State, Conn
<1> HIDE DEF done
<1>7. Kept(done, msg_end(done)) /\ Fits(msg_end(done))
  BY <1>6, MsgEnd
<1>8. Fits(fed) /\ Fits(done)
  BY <1>5, <1>6 DEF Fits
<1> DEFINE y == stream_consumed(x, n)
<1>9. CASE r > 0
  <2>1. y = fed
    BY <1>4, <1>5, <1>9
  <2> HIDE DEF y
  <2> QED BY <1>5, <1>8, <2>1 DEF b, r, y
<1>10. CASE ~(r > 0)
  <2>1. y = msg_end(done) \/ y = done
    BY <1>4, <1>5, <1>10
  <2> HIDE DEF y
  <2>2. Kept(done, y) /\ Fits(y)
    BY <1>6, <1>7, <1>8, <2>1, ToldSelf DEF Told
  <2>3. /\ y \in State /\ y.c.err = x.c.err /\ (x.c.state = "CLOSED" => y.c.state = "CLOSED")
        /\ y.c.buf = b /\ y.c.remaining = r
    BY <1>6, <2>2 DEF Kept
  <2> QED BY <1>10, <2>2, <2>3 DEF b, r, y
<1> QED BY <1>9, <1>10

\* What is left when the buffer has been handed over: the connection has ended, or inflate
\* has refused what is still in the buffer, or the buffer is empty or the frame is done.
Rest(x, y) ==
  \/ y.c.state = "CLOSED"
  \/ /\ y.c.msg.compressed /\ Corrupt(y.c.buf) /\ y.c.remaining > 0
  \/ /\ y.c.remaining > 0 /\ y.c.buf = <<>> /\ y.c.msg.mode = x.c.msg.mode
  \/ /\ y.c.remaining = 0 /\ Len(y.c.buf) <= Len(x.c.buf) /\ x.c.remaining <= Len(x.c.buf)

LEMMA Consume ==
  ASSUME NEW x \in State, Fits(x)
  PROVE  LET y == stream_consume(x)
         IN y \in State /\ Fits(y) /\ y.c.err = x.c.err /\ Rest(x, y)
<1> DEFINE n    == IF Len(x.c.buf) < x.c.remaining THEN Len(x.c.buf) ELSE x.c.remaining
           raw  == SubSeq(x.c.buf, 1, n)
           data == Unmasked(x, raw)
           last == n = x.c.remaining /\ x.c.fin
           told == [x EXCEPT !.c.msg.fin_sent = @ \/ last]
           handed == IF n = 0 THEN x
                     ELSE IF x.c.msg.compressed THEN decompress_stream_chunk(x, data)
                     ELSE on_message(told, data, last, IF last THEN x.c.msg.total ELSE 0)
           refused == x.c.msg.compressed /\ Corrupt(data)
           y == stream_consume(x)
           over == n > 0 /\ ~x.c.msg.compressed /\ handed.c.destroyed
<1>1. y = IF over \/ (n > 0 /\ refused) THEN handed ELSE stream_consumed(handed, n)
  BY DEF stream_consume
<1>2. /\ x.c.buf \in Seq(Octet) /\ x.c.remaining \in Nat /\ Len(x.c.buf) \in Nat
      /\ x.c.fin \in BOOLEAN /\ x.c.msg \in Msg
  BY StateFields
<1>3. n \in Nat /\ n <= Len(x.c.buf) /\ n <= x.c.remaining /\ (n < x.c.remaining => n = Len(x.c.buf))
  BY <1>2
<1> HIDE DEF n
<1>4. raw \in Seq(Octet) /\ Len(raw) = n
  BY <1>2, <1>3, Part
<1>5. data \in Seq(Octet) /\ Corrupt(data) = Corrupt(raw)
  BY <1>4, UnmaskedTyped
<1>6. Corrupt(raw) => Corrupt(x.c.buf) /\ n > 0
  <2> SUFFICES ASSUME Corrupt(raw) PROVE Corrupt(x.c.buf) /\ n > 0
    OBVIOUS
  <2>1. PICK i \in DOMAIN raw : raw[i].c \in Refused
    BY DEF Corrupt
  <2>2. DOMAIN raw = 1 .. n
    BY <1>4
  <2>3. i \in 1 .. n /\ raw[i] = x.c.buf[i] /\ i \in DOMAIN x.c.buf
    BY <1>2, <1>3, <2>1, <2>2
  <2> QED BY <1>3, <2>1, <2>3 DEF Corrupt
<1> HIDE DEF data, raw, y
<1>7. told \in State /\ Told(x, told) /\ last \in BOOLEAN
  <2> DEFINE b == x.c.msg.fin_sent \/ last
  <2>1. told = [x EXCEPT !.c.msg.fin_sent = b] /\ b \in BOOLEAN /\ last \in BOOLEAN
    BY <1>2 DEF State, Conn, Msg
  <2> HIDE DEF b
  <2> QED BY <2>1, FinSentTold
<1> HIDE DEF told, last
<1>8. Told(x, handed)
  BY <1>5, <1>7, StreamChunk, OnMessage, ToldTwice, ToldSelf
<1> HIDE DEF handed
<1>9. handed \in State /\ Kept(x, handed) /\ Fits(handed)
  BY <1>8 DEF Told, Kept, Fits
<1>10. CASE over
  <2>1. handed.c.state = "CLOSED"
    BY <1>9, <1>10, StateFields
  <2> QED BY <1>1, <1>9, <1>10, <2>1 DEF Rest, Kept, y
<1>11. CASE ~over /\ n > 0 /\ refused
  <2>1. y = handed
    BY <1>1, <1>11
  <2>2. x.c.remaining > 0 /\ Corrupt(x.c.buf)
    BY <1>2, <1>3, <1>5, <1>6, <1>11
  <2> QED BY <1>8, <1>9, <1>11, <2>1, <2>2 DEF Rest, Told, Kept, y
<1>12. CASE ~over /\ ~(n > 0 /\ refused)
  <2>1. y = stream_consumed(handed, n)
    BY <1>1, <1>12
  <2>2. handed.c.buf = x.c.buf /\ handed.c.remaining = x.c.remaining /\ handed.c.err = x.c.err
    BY <1>9 DEF Kept
  <2>3. /\ y \in State /\ Fits(y) /\ y.c.err = x.c.err
        /\ y.c.buf = SubSeq(x.c.buf, n + 1, Len(x.c.buf)) /\ y.c.remaining = x.c.remaining - n
        /\ y.c.remaining > 0 => y.c.msg = handed.c.msg
    <3> DEFINE w == stream_consumed(handed, n)
    <3>1. n <= Len(handed.c.buf) /\ n <= handed.c.remaining
      BY <1>3, <2>2
    <3>2. /\ w \in State /\ Fits(w) /\ w.c.err = handed.c.err
          /\ w.c.buf = SubSeq(handed.c.buf, n + 1, Len(handed.c.buf)) /\ w.c.remaining = handed.c.remaining - n
          /\ w.c.remaining > 0 => w.c.msg = handed.c.msg
      BY <1>3, <1>9, <3>1, Consumed
    <3> HIDE DEF w
    <3> QED BY <2>1, <2>2, <3>2 DEF w
  <2>4. CASE n < x.c.remaining
    <3>1. y.c.remaining > 0 /\ y.c.buf = <<>>
      BY <1>2, <1>3, <2>3, <2>4
    <3>2. y.c.msg.mode = x.c.msg.mode
      BY <1>8, <2>3, <3>1 DEF Told
    <3> QED BY <2>3, <3>1, <3>2 DEF Rest, y
  <2>5. CASE n = x.c.remaining
    <3>1. y.c.remaining = 0
      BY <1>2, <2>3, <2>5
    <3>2. Len(SubSeq(x.c.buf, n + 1, Len(x.c.buf))) <= Len(x.c.buf)
      BY <1>2, <1>3, Part
    <3> QED BY <1>3, <2>3, <2>5, <3>1, <3>2 DEF Rest, y
  <2> QED BY <1>2, <1>3, <2>4, <2>5
<1> QED BY <1>10, <1>11, <1>12

-------------------------------------------------------------------------------
(* Headers. *)

LEMMA NumberTyped ==
  ASSUME NEW bytes \in Seq(Octet)
  PROVE  Number(bytes) \in Nat
<1> DEFINE n == Len(bytes)
           Add(k, i) == k * 256 + bytes[i].v
           F(g) == [i \in 0 .. n |-> IF i = 0 THEN 0 ELSE Add(g[i - 1], i)]
           f == CHOOSE g : g = F(g)
<1>1. Number(bytes) = f[n]
  BY DEF Number
<1>2. n \in Nat /\ \A i \in 1 .. n : bytes[i].v \in Nat
  <2>1. n \in Nat /\ \A i \in 1 .. n : bytes[i] \in Octet
    OBVIOUS
  <2> QED BY <2>1 DEF Octet
<1>3. ASSUME NEW k \in Nat, NEW i \in 1 .. n PROVE Add(k, i) \in Nat
  BY <1>2
<1> HIDE DEF n, Add
<1>4. PICK g \in [0 .. n -> Nat] : g[0] = 0 /\ \A i \in 1 .. n : g[i] = Add(g[i - 1], i)
  <2> DEFINE step == [i \in 1 .. n |-> [k \in Nat |-> Add(k, i)]]
  <2>1. step \in [1 .. n -> [Nat -> Nat]]
    BY <1>3
  <2>2. \A i \in 1 .. n : \A k \in Nat : step[i][k] = Add(k, i)
    OBVIOUS
  <2> HIDE DEF step
  <2>3. PICK g : Iterates(g, n, Nat, 0, step)
    BY <1>2, <2>1, Recursion
  <2>4. \A i \in 1 .. n : g[i - 1] \in Nat
    BY <1>2, <2>3 DEF Iterates
  <2> QED BY <2>2, <2>3, <2>4 DEF Iterates
<1>5. g = F(g)
  BY <1>2, <1>4
<1>6. f = F(f)
  BY <1>5
<1> HIDE DEF f
<1>7. f[0] = 0 /\ \A i \in 1 .. n : f[i] = Add(f[i - 1], i)
  BY <1>2, <1>6
<1> DEFINE T == {i \in 0 .. n : f[i] \in Nat}
<1>8. 0 \in T
  BY <1>2, <1>7
<1>9. ASSUME NEW i \in 1 .. n, i - 1 \in T PROVE i \in T
  <2>1. f[i - 1] \in Nat /\ i \in 0 .. n
    BY <1>2, <1>9
  <2>2. f[i] \in Nat
    BY <1>3, <1>7, <2>1
  <2> QED BY <2>1, <2>2
<1>10. n \in T
  <2> HIDE DEF T
  <2>1. 0 .. n \subseteq T
    BY <1>2, <1>8, <1>9, Upward
  <2> QED BY <1>2, <2>1
<1> QED BY <1>1, <1>10

\* A header that has been read.
Header(h) ==
  /\ h.n \in 2 .. 14 /\ h.payload_len \in Nat /\ h.opcode \in Nat
  /\ h.fin \in BOOLEAN /\ h.rsv1 \in BOOLEAN /\ h.mask \in BOOLEAN
  /\ IF h.mask THEN h.mask_key \in [1 .. 4 -> Octet] ELSE h.mask_key = <<>>

\* A header is at most 14 bytes long, so that fewer are left when it is not complete.
LEMMA ParseHeader ==
  ASSUME NEW buf \in Seq(Octet)
  PROVE  LET h == ws_frame_parse_header(buf)
         IN /\ h.n \in {-1, 0} \/ (Header(h) /\ h.n <= Len(buf))
            /\ h.n = 0 => Len(buf) <= 13
<1> DEFINE len7 == buf[2].v % 128
           mask == buf[2].v >= MASK_BIT
           ext  == IF len7 < LEN16_CODE THEN 0 ELSE IF len7 = LEN16_CODE THEN 2 ELSE 8
           n    == 2 + ext + (IF mask THEN 4 ELSE 0)
           len  == IF ext = 0 THEN len7 ELSE Number(SubSeq(buf, 3, 2 + ext))
           key  == SubSeq(buf, 3 + ext, n)
           full == [n |-> n,
                    fin |-> buf[1].v >= FIN_BIT, rsv1 |-> (buf[1].v \div 64) % 2 = 1,
                    rsv2 |-> (buf[1].v \div 32) % 2 = 1, rsv3 |-> (buf[1].v \div 16) % 2 = 1,
                    opcode |-> buf[1].v % 16, mask |-> mask, payload_len |-> len, mask_key |-> key]
           h == ws_frame_parse_header(buf)
<1>1. h = IF Len(buf) < 2 THEN [n |-> 0]
          ELSE IF Len(buf) < 2 + ext THEN [n |-> 0]
          ELSE IF ext = 8 /\ buf[3].v >= 128 THEN [n |-> -1]
          ELSE IF Len(buf) < n THEN [n |-> 0] ELSE full
  BY DEF ws_frame_parse_header
<1>2. Len(buf) \in Nat /\ ext \in {0, 2, 8} /\ n \in 2 .. 14 /\ (mask => n = 6 + ext) /\ (~mask => n = 2 + ext)
      /\ mask \in BOOLEAN
  OBVIOUS
<1>3. CASE Len(buf) < 2 \/ Len(buf) < 2 + ext \/ (ext = 8 /\ buf[3].v >= 128) \/ Len(buf) < n
  <2> HIDE DEF ext, n, full, h
  <2>1. h = [n |-> 0] \/ h = [n |-> -1]
    BY <1>1, <1>3
  <2>2. h = [n |-> 0] => Len(buf) < 14
    BY <1>1, <1>2, <1>3
  <2> QED BY <1>2, <2>1, <2>2 DEF h
<1>4. CASE ~(Len(buf) < 2 \/ Len(buf) < 2 + ext \/ (ext = 8 /\ buf[3].v >= 128) \/ Len(buf) < n)
  <2>1. h = full
    BY <1>1, <1>4
  <2>2. buf[1].v \in Nat /\ buf[2].v \in Nat
    <3>1. buf[1] \in Octet /\ buf[2] \in Octet
      BY <1>2, <1>4
    <3> QED BY <3>1 DEF Octet
  <2>3. len7 \in Nat
    BY <2>2
  <2> HIDE DEF len7, mask
  <2>4. len \in Nat
    <3>1. CASE ext = 0
      BY <2>3, <3>1
    <3>2. CASE ext # 0
      <4> HIDE DEF ext
      <4>1. SubSeq(buf, 3, 2 + ext) \in Seq(Octet)
        BY <1>2, <1>4, Part
      <4> QED BY <3>2, <4>1, NumberTyped
    <3> QED BY <3>1, <3>2
  <2> HIDE DEF ext, len
  <2>5. key \in Seq(Octet) /\ Len(key) = IF mask THEN 4 ELSE 0
    <3> HIDE DEF n
    <3>1. 3 + ext \in Int /\ n \in Int /\ 1 <= 3 + ext /\ n <= Len(buf)
      BY <1>2, <1>4
    <3>2. key \in Seq(Octet) /\ Len(key) = IF n < 3 + ext THEN 0 ELSE n - (3 + ext) + 1
      BY <3>1, Part
    <3> QED BY <1>2, <3>2
  <2> HIDE DEF key, n
  <2>6. IF mask THEN key \in [1 .. 4 -> Octet] ELSE key = <<>>
    <3>1. key \in [1 .. Len(key) -> Octet]
      BY <2>5, LenProperties
    <3>2. CASE mask
      BY <2>5, <3>1, <3>2
    <3>3. CASE ~mask
      BY <2>5, <3>3
    <3> QED BY <3>2, <3>3
  <2>7. buf[1].v % 16 \in Nat
    BY <2>2
  <2>8. Header(full)
    BY <1>2, <2>4, <2>6, <2>7 DEF Header
  <2>9. full.n = n
    OBVIOUS
  <2> HIDE DEF full, h
  <2> QED BY <1>2, <1>4, <2>1, <2>8, <2>9 DEF h
<1> QED BY <1>3, <1>4

-------------------------------------------------------------------------------
(* Whole frames. *)

\* A frame has been handled: the buffer is as it was, and the fragments fit.
Handled(x, y) ==
  /\ y \in State /\ Fits(y)
  /\ y.c.buf = x.c.buf /\ y.c.remaining = x.c.remaining

LEMMA KeptHandled ==
  ASSUME NEW x, NEW y, Kept(x, y), Fits(y)
  PROVE  Handled(x, y)
BY DEF Kept, Handled

LEMMA ToldHandled ==
  ASSUME NEW x, NEW y, Told(x, y), Fits(x)
  PROVE  Handled(x, y)
BY DEF Told, Kept, Handled, Fits

LEMMA HandledTwice ==
  ASSUME NEW x, NEW y, NEW z, Handled(x, y), Handled(y, z)
  PROVE  Handled(x, z)
BY DEF Handled

LEMMA Failed ==
  ASSUME NEW x \in State, Fits(x)
  PROVE  /\ Handled(x, Fail(x)) /\ Fail(x).c.err = 1
         /\ Handled(x, Fail([x EXCEPT !.app.excuse = TRUE]))
BY DEF Fail, Handled, Fits, State, Conn, App

LEMMA Begun ==
  ASSUME NEW x \in State, NEW h, Header(h), h.rsv1 => Deflate, NEW mode \in {"FRAG", "STREAM"}, Fits(x)
  PROVE  Begin(x, h, mode) \in State /\ Kept(x, Begin(x, h, mode)) /\ Fits(Begin(x, h, mode))
<1> DEFINE m == [mode |-> mode, bin |-> h.opcode = BINARY, compressed |-> h.rsv1, total |-> 0, fin_sent |-> FALSE]
<1>1. m \in Msg
  BY DEF Msg, Header
<1>2. Begin(x, h, mode) = [x EXCEPT !.c.msg = m]
  BY DEF Begin
<1> HIDE DEF m
<1> QED BY <1>1, <1>2, SetMsg DEF Fits

\* The kind of a message in one frame is noted.
LEMMA Bin ==
  ASSUME NEW x \in State, NEW b \in BOOLEAN
  PROVE  [x EXCEPT !.c.msg.bin = b] \in State /\ Told(x, [x EXCEPT !.c.msg.bin = b])
<1> DEFINE m == [x.c.msg EXCEPT !.bin = b]
<1>1. [x EXCEPT !.c.msg.bin = b] = [x EXCEPT !.c.msg = m]
  BY DEF State, Conn, Msg
<1>2. m \in Msg /\ m.mode = x.c.msg.mode /\ m.compressed = x.c.msg.compressed
  BY DEF State, Conn, Msg
<1> HIDE DEF m
<1> QED BY <1>1, <1>2, ZenonT(60) DEF Told, Kept, State, Conn

LEMMA HandleTextBinary ==
  ASSUME NEW x \in State, NEW h, Header(h), h.rsv1 => Deflate, NEW data \in Seq(Octet), Len(data) <= Cap, Fits(x)
  PROVE  Handled(x, handle_text_binary(x, h, data))
<1> DEFINE first == Begin(x, h, "FRAG")
           more == frag_append(first, data)
           w == [x EXCEPT !.c.msg.bin = h.opcode = BINARY]
           y == on_message(w, data, TRUE, Len(data))
           z == [y EXCEPT !.c.msg = NoMsg]
<1>1. handle_text_binary(x, h, data) \in {Fail(x), frag_flush(more, FALSE), ws_enter_closed(x), z}
  BY DEF handle_text_binary
<1>2. Handled(x, Fail(x))
  BY Failed
<1>3. Handled(x, frag_flush(more, FALSE))
  <2>1. first \in State /\ Kept(x, first) /\ Fits(first)
    BY Begun
  <2> HIDE DEF first
  <2>2. Kept(first, more) /\ Fits(more)
    BY <2>1, FragAppend
  <2>3. more \in State
    BY <2>2 DEF Kept
  <2> HIDE DEF more
  <2>4. Kept(more, frag_flush(more, FALSE)) /\ Fits(frag_flush(more, FALSE))
    BY <2>2, <2>3, FragFlush
  <2> QED BY <2>1, <2>2, <2>4, KeptHandled, HandledTwice
<1>4. Handled(x, ws_enter_closed(x))
  BY FatalEnds, ToldHandled
<1>5. Handled(x, z)
  <2>1. w \in State /\ Told(x, w)
    <3> DEFINE b == h.opcode = BINARY
    <3>1. b \in BOOLEAN
      OBVIOUS
    <3> HIDE DEF b
    <3>2. [x EXCEPT !.c.msg.bin = b] \in State /\ Told(x, [x EXCEPT !.c.msg.bin = b])
      BY <3>1, Bin
    <3> QED BY <3>2 DEF b
  <2> HIDE DEF w
  <2>2. Told(w, y)
    BY <2>1, OnMessage
  <2>3. Told(x, y)
    BY <2>1, <2>2, ToldTwice
  <2> HIDE DEF y
  <2>4. y \in State /\ Fits(y)
    BY <2>3 DEF Told, Kept, Fits
  <2>5. Kept(y, z) /\ Fits(z)
    BY <2>4, NoMsgTyped, SetMsg DEF Fits
  <2> QED BY <2>3, <2>5, ToldHandled, KeptHandled, HandledTwice
<1> QED BY <1>1, <1>2, <1>3, <1>4, <1>5

LEMMA HandleCont ==
  ASSUME NEW x \in State, NEW h, Header(h), NEW data \in Seq(Octet), Len(data) <= Cap, Fits(x)
  PROVE  Handled(x, handle_cont(x, h, data))
<1> DEFINE y == frag_append(x, data)
<1>1. handle_cont(x, h, data) \in {Fail(x), frag_flush(y, h.fin)}
  BY DEF handle_cont
<1>2. Kept(x, y) /\ Fits(y)
  BY FragAppend
<1>3. y \in State
  BY <1>2 DEF Kept
<1> HIDE DEF y
<1>4. h.fin \in BOOLEAN
  BY DEF Header
<1>5. Kept(y, frag_flush(y, h.fin)) /\ Fits(frag_flush(y, h.fin))
  BY <1>2, <1>3, <1>4, FragFlush
<1>6. Handled(x, y) /\ Handled(y, frag_flush(y, h.fin))
  BY <1>2, <1>5, KeptHandled
<1>7. Handled(x, frag_flush(y, h.fin))
  BY <1>6, HandledTwice
<1>8. Handled(x, Fail(x))
  BY Failed
<1> QED BY <1>1, <1>6, <1>7, <1>8

\* A compressed message in one frame.
LEMMA HandleOneshot ==
  ASSUME NEW x \in State, NEW h, NEW data \in Seq(Octet), Fits(x)
  PROVE  LET w == [x EXCEPT !.c.msg.bin = h.opcode = BINARY]
         IN Handled(x, [decompress_oneshot(w, data) EXCEPT !.c.msg = NoMsg])
<1> DEFINE b == h.opcode = BINARY
           w == [x EXCEPT !.c.msg.bin = b]
           y == decompress_oneshot(w, data)
           z == [y EXCEPT !.c.msg = NoMsg]
<1>1. b \in BOOLEAN
  OBVIOUS
<1> HIDE DEF b
<1>2. w \in State /\ Told(x, w)
  BY <1>1, Bin
<1> HIDE DEF w
<1>3. Handled(x, w) /\ Fits(w)
  BY <1>2, ToldHandled DEF Handled
<1>4. Told(w, y) \/ y = Fail(w)
  BY <1>2, Oneshot
<1>5. Handled(w, y)
  BY <1>2, <1>3, <1>4, ToldHandled, Failed
<1> HIDE DEF y
<1>6. y \in State /\ Fits(y)
  BY <1>5 DEF Handled
<1>7. Kept(y, z) /\ Fits(z)
  BY <1>6, NoMsgTyped, SetMsg DEF Fits
<1>8. Handled(y, z)
  BY <1>7, KeptHandled
<1> HIDE DEF z
<1>9. Handled(x, z)
  BY <1>3, <1>5, <1>8, HandledTwice
<1> QED BY <1>9 DEF z, y, w, b

LEMMA HandleFrame ==
  ASSUME NEW x \in State, NEW h, Header(h), h.rsv1 => Deflate, NEW data \in Seq(Octet), Len(data) <= Cap,
         Fits(x), NEW sent \in BOOLEAN
  PROVE  Handled(x, frame_handle(x, h, data, sent))
<1> DEFINE w == [x EXCEPT !.c.msg.bin = h.opcode = BINARY]
           one == [decompress_oneshot(w, data) EXCEPT !.c.msg = NoMsg]
           failed == [x EXCEPT !.app.excuse = TRUE]
           wrong == IsControl(h.opcode) /\ (h.payload_len > 125 \/ ~h.fin)
<1>1. Handled(x, Fail(x)) /\ Handled(x, Fail(failed))
  BY Failed
<1>2. Handled(x, x)
  BY ToldSelf, ToldHandled
<1>3. Handled(x, one)
  BY HandleOneshot
<1>4. Handled(x, ws_enter_closed(x))
  BY FatalEnds, ToldHandled
<1>5. Handled(x, handle_text_binary(x, h, data))
  BY HandleTextBinary
<1>6. Handled(x, handle_cont(x, h, data))
  BY HandleCont
<1>7. Handled(x, handle_close(x, data))
  BY <1>1, <1>4 DEF handle_close
<1>8. Handled(x, handle_ping(x, sent))
  BY <1>1, <1>2 DEF handle_ping
<1>9. Handled(x, handle_pong(x))
  BY CalledTold, ToldHandled DEF handle_pong
<1> DEFINE kind == CASE h.opcode = CLOSE            -> handle_close(x, data)
                     [] h.opcode \in {TEXT, BINARY} -> handle_text_binary(x, h, data)
                     [] h.opcode = CONT             -> handle_cont(x, h, data)
                     [] h.opcode = PING             -> handle_ping(x, sent)
                     [] h.opcode = PONG             -> handle_pong(x)
                     [] OTHER                       -> Fail(x)
<1>10. Handled(x, kind)
  <2> HIDE DEF Handled
  <2> QED BY <1>1, <1>5, <1>6, <1>7, <1>8, <1>9 DEF CLOSE, TEXT, BINARY, CONT, PING, PONG
<1>11. frame_handle(x, h, data, sent) = CASE h.rsv1 /\ h.fin -> IF x.c.msg.mode # "NONE" THEN Fail(x) ELSE one
                                          [] ~(h.rsv1 /\ h.fin) /\ wrong -> Fail(x)
                                          [] ~(h.rsv1 /\ h.fin) /\ ~wrong -> kind
  BY DEF frame_handle
<1> HIDE DEF kind, one, wrong
<1>12. frame_handle(x, h, data, sent) \in {Fail(x), one, kind}
  BY <1>11
<1> QED BY <1>1, <1>3, <1>10, <1>12

LEMMA WholeFrame ==
  ASSUME NEW x \in State, NEW h, Header(h), NEW sent \in BOOLEAN, Fits(x),
         h.n + h.payload_len <= Len(x.c.buf), Len(x.c.buf) <= Cap
  PROVE  LET y == frame_whole(x, h, sent)
         IN y \in State /\ Fits(y) /\ y.c.remaining = x.c.remaining /\ Len(y.c.buf) <= Len(x.c.buf)
<1> DEFINE size == h.n + h.payload_len
           raw  == SubSeq(x.c.buf, h.n + 1, size)
           data == IF h.mask THEN ws_frame_apply_mask(raw, h.mask_key) ELSE raw
           w == frame_handle(x, h, data, sent)
           b == SubSeq(w.c.buf, size + 1, Len(w.c.buf))
           y == frame_whole(x, h, sent)
<1>1. x.c.buf \in Seq(Octet) /\ Len(x.c.buf) \in Nat /\ h.n \in Nat /\ h.payload_len \in Nat /\ Cap \in Nat
  <2>1. x.c.buf \in Seq(Octet) /\ Cap \in Nat
    BY StateFields, EmptyFits
  <2> QED BY <2>1, SMTT(30) DEF Header
<1>2. size \in Nat /\ size <= Len(x.c.buf) /\ h.n <= size
  BY <1>1
<1> HIDE DEF size
<1>3. raw \in Seq(Octet) /\ Len(raw) <= Cap
  BY <1>1, <1>2, Part
<1>4. data \in Seq(Octet) /\ Len(data) <= Cap
  <2> HIDE DEF raw
  <2>1. CASE h.mask
    <3>1. h.mask_key \in [1 .. 4 -> Octet]
      BY <2>1 DEF Header
    <3>2. data = ws_frame_apply_mask_offset(raw, h.mask_key, 0)
      BY <2>1 DEF ws_frame_apply_mask
    <3> QED BY <1>3, <3>1, <3>2, MaskTyped
  <2>2. CASE ~h.mask
    BY <1>3, <2>2
  <2> QED BY <2>1, <2>2
<1> HIDE DEF data
<1>5. CASE ~FrameAllowed(h)
  <2>1. y = Fail(x)
    BY <1>5 DEF frame_whole
  <2> HIDE DEF y
  <2>2. Handled(x, y)
    BY <2>1, Failed
  <2> QED BY <1>1, <2>2 DEF Handled, y
<1>6. CASE FrameAllowed(h)
  <2>1. y = frame_done(w, size)
    BY <1>6 DEF frame_whole, data, raw, size
  <2>2. h.rsv1 => Deflate
    BY <1>6 DEF FrameAllowed
  <2>3. Handled(x, w)
    BY <1>4, <2>2, HandleFrame
  <2> HIDE DEF w, y
  <2>4. w \in State /\ Fits(w) /\ w.c.buf = x.c.buf /\ w.c.remaining = x.c.remaining
    BY <2>3 DEF Handled
  <2>5. b \in Seq(Octet) /\ Len(b) <= Len(x.c.buf)
    BY <1>1, <1>2, <2>4, Part
  <2>6. y = w \/ y = [w EXCEPT !.c.buf = b]
    BY <2>1, <2>4 DEF frame_done, State, Conn
  <2> HIDE DEF b
  <2>7. CASE y = w
    BY <1>1, <2>4, <2>7 DEF y
  <2>8. CASE y = [w EXCEPT !.c.buf = b]
    <3>1. y \in State /\ y.c.frag = w.c.frag /\ y.c.remaining = w.c.remaining /\ y.c.buf = b
      BY <2>4, <2>5, <2>8 DEF State, Conn
    <3> QED BY <2>4, <2>5, <3>1 DEF Fits, y
  <2> QED BY <2>6, <2>7, <2>8
<1> QED BY <1>5, <1>6

\* A frame that is streamed from now on takes the whole buffer with it.
LEMMA StreamBegin ==
  ASSUME NEW x \in State, NEW h, Header(h), Fits(x), x.c.err = 0, h.n <= Len(x.c.buf),
         Len(x.c.buf) < h.n + h.payload_len
  PROVE  LET y == stream_begin(x, h)
         IN /\ y \in State /\ Fits(y)
            /\ \/ y.c.err = 1
               \/ y.c.err = 0 /\ y.c.state = "CLOSED"
               \/ y.c.err = 0 /\ y.c.msg.compressed /\ Corrupt(y.c.buf) /\ y.c.remaining > 0
               \/ y.c.err = 0 /\ y.c.remaining > 0 /\ y.c.buf = <<>> /\ y.c.msg.mode = "STREAM"
<1> DEFINE u == IF x.c.msg.mode = "FRAG" THEN frag_flush_tail(x)
                ELSE IF x.c.msg.mode = "NONE" THEN Begin(x, h, "STREAM") ELSE x
           w == [u EXCEPT !.c = Streaming(u.c, h)]
           y == stream_begin(x, h)
<1>1. /\ x.c.buf \in Seq(Octet) /\ Len(x.c.buf) \in Nat /\ h.n \in Nat /\ h.payload_len \in Nat
      /\ h.fin \in BOOLEAN /\ h.mask_key \in {<<>>} \cup [1 .. 4 -> Octet]
  BY StateFields DEF Header
<1>2. CASE ~StreamAllowed(x, h)
  <2>1. y = Fail(x)
    BY <1>2 DEF stream_begin
  <2> HIDE DEF y
  <2>2. Handled(x, y) /\ y.c.err = 1
    BY <2>1, Failed
  <2> QED BY <2>2 DEF Handled, y
<1>3. CASE StreamAllowed(x, h)
  <2>1. y = IF u.c.destroyed THEN u ELSE stream_consume(w)
    BY <1>3 DEF stream_begin, Then
  <2>2. h.rsv1 => Deflate
    BY <1>3 DEF StreamAllowed
  <2>3. Kept(x, u) /\ Fits(u)
    <3>1. Kept(x, x)
      BY ToldSelf DEF Told
    <3>2. Kept(x, Begin(x, h, "STREAM")) /\ Fits(Begin(x, h, "STREAM"))
      BY <2>2, Begun
    <3> QED BY <3>1, <3>2, FragFlushTail
  <2> HIDE DEF u, y
  <2>4. u \in State /\ u.c.buf = x.c.buf /\ u.c.err = 0
    BY <2>3 DEF Kept
  <2>5. CASE u.c.destroyed
    <3>1. u.c.state = "CLOSED"
      BY <2>4, <2>5, StateFields
    <3> QED BY <2>1, <2>3, <2>4, <2>5, <3>1 DEF y
  <2>6. CASE ~u.c.destroyed
    <3> DEFINE t == u.c.msg.total + h.payload_len
               m == [u.c.msg EXCEPT !.mode = "STREAM", !.total = t]
               b == SubSeq(u.c.buf, h.n + 1, Len(u.c.buf))
               d == Streaming(u.c, h)
    <3>1. u.c \in Conn /\ u.app \in App /\ u.c.msg \in Msg /\ u = [c |-> u.c, app |-> u.app]
      BY <2>4, StateFields
    <3>2. m \in Msg /\ m.mode = "STREAM"
      <4>1. t \in Nat
        BY <1>1, <3>1 DEF Msg
      <4> HIDE DEF t
      <4> QED BY <3>1, <4>1 DEF Msg
    <3>3. b \in Seq(Octet) /\ Len(b) < h.payload_len
      BY <1>1, <2>4, Part, SMTT(30)
    <3>4. d = [u.c EXCEPT !.msg = m, !.remaining = h.payload_len, !.fin = h.fin, !.key = h.mask_key,
                          !.mask_off = 0, !.buf = b]
      BY DEF Streaming
    <3> HIDE DEF m, b, d
    <3>5. /\ d \in Conn /\ d.frag = u.c.frag /\ d.err = u.c.err /\ d.buf = b /\ d.remaining = h.payload_len
          /\ d.msg = m /\ d.destroyed = u.c.destroyed
      BY <1>1, <3>1, <3>2, <3>3, <3>4 DEF Conn
    <3>6. w = [c |-> d, app |-> u.app]
      BY <3>1 DEF d
    <3> HIDE DEF w
    <3>7. w \in State /\ w.c = d /\ Fits(w)
      BY <2>3, <2>6, <3>1, <3>5, <3>6 DEF State, Fits
    <3> DEFINE z == stream_consume(w)
    <3>8. z \in State /\ Fits(z) /\ z.c.err = d.err /\ Rest(w, z)
      BY <3>7, Consume
    <3>9. y = z
      BY <2>1, <2>6
    <3> HIDE DEF z
    <3>10. ~(w.c.remaining <= Len(w.c.buf)) /\ w.c.msg.mode = "STREAM"
      BY <1>1, <3>2, <3>3, <3>5, <3>7
    <3>11. \/ z.c.state = "CLOSED"
           \/ z.c.msg.compressed /\ Corrupt(z.c.buf) /\ z.c.remaining > 0
           \/ z.c.remaining > 0 /\ z.c.buf = <<>> /\ z.c.msg.mode = "STREAM"
      BY <3>8, <3>10 DEF Rest
    <3>12. z.c.err = 0
      BY <2>4, <3>5, <3>8
    <3> QED BY <3>8, <3>9, <3>11, <3>12 DEF y
  <2> QED BY <2>5, <2>6
<1> QED BY <1>2, <1>3

-------------------------------------------------------------------------------
(* The steps. *)

\* Inflate has refused nothing of a frame that is being streamed.  (What it refuses stays in
\* the receive buffer, and the next push comes behind it.)
StreamIntact ==
  ~busy /\ c.state # "CLOSED" /\ c.remaining > 0 /\ c.msg.compressed => ~Corrupt(c.buf)

\* A header fits half the buffer (recv_cap is at least SEVENT_WS_RECV_MIN, 1024).
HeaderFits == Cap \div 2 >= 13

\* While frames are processed none is being streamed.  Between pushes a frame is being streamed
\* and the buffer is empty, or the buffer holds the beginning of a frame that is not streamed.
RecvInv ==
  /\ RecvTypeOK
  /\ c.destroyed => c.state = "CLOSED"
  /\ c.err = 0 /\ Len(c.frag) <= Cap
  /\ busy => c.remaining = 0 /\ (c.state # "CLOSED" => Len(c.buf) <= Cap)
  /\ c.state # "CLOSED" /\ c.remaining > 0 => c.msg.mode = "STREAM"
  /\ ~busy /\ c.state # "CLOSED" => IF c.remaining > 0 THEN c.buf = <<>> ELSE Len(c.buf) <= Cap \div 2

LEMMA RecvInvInit == RecvInit => RecvInv
<1> SUFFICES ASSUME RecvInit PROVE RecvInv
  OBVIOUS
<1>1. <<>> \in Seq(Octet) /\ <<>> \in Seq(Expected) /\ Len(<<>>) = 0 /\ Cap \in Nat /\ Cap \div 2 \in Nat
  BY RecvAssumption
<1>2. PICK client \in BOOLEAN :
        c = [is_client |-> client, state |-> "OPEN", destroyed |-> FALSE, buf |-> <<>>, msg |-> NoMsg,
             frag |-> <<>>, remaining |-> 0, fin |-> FALSE, key |-> <<>>, mask_off |-> 0, z |-> <<>>, err |-> 0]
  BY RecvAssumption DEF RecvInit
<1>3. c \in Conn
  BY <1>1, <1>2, NoMsgTyped DEF Conn
<1>4. app \in App
  BY <1>1 DEF RecvInit, App, Plans
<1>5. peer \in Peer
  BY DEF RecvInit, Peer
<1>6. RecvTypeOK
  BY <1>1, <1>3, <1>4, <1>5 DEF RecvInit, RecvTypeOK
<1> QED BY <1>1, <1>2, <1>6 DEF RecvInv, RecvInit

\* The connection at the beginning and at the end of a step.
LEMMA WithState ==
  ASSUME RecvInv, NEW plan \in Plans
  PROVE  With(plan) \in State /\ With(plan).c = c /\ Fits(With(plan))
BY DEF RecvInv, RecvTypeOK, With, State, App, Fits

LEMMA BecomesState ==
  ASSUME NEW x \in State, Becomes(x)
  PROVE  c' = x.c /\ app' \in App /\ c' \in Conn
<1>1. c' = x.c /\ app' = [x.app EXCEPT !.calls = 0, !.plan = <<0, "none">>]
  BY DEF Becomes
<1>2. <<0, "none">> \in Plans /\ x.app \in App
  BY DEF Plans, State
<1> QED BY <1>1, <1>2 DEF State, App

\* What the end of a step has to be.
Settled(x, b) ==
  /\ x \in State /\ Fits(x) /\ x.c.err = 0
  /\ b => x.c.remaining = 0 /\ (x.c.state # "CLOSED" => Len(x.c.buf) <= Cap)
  /\ x.c.state # "CLOSED" /\ x.c.remaining > 0 => x.c.msg.mode = "STREAM"
  /\ ~b /\ x.c.state # "CLOSED" => IF x.c.remaining > 0 THEN x.c.buf = <<>> ELSE Len(x.c.buf) <= Cap \div 2

LEMMA SettledInv ==
  ASSUME NEW x, NEW b \in BOOLEAN, Settled(x, b), Becomes(x), busy' = b,
         peer' \in Peer, pipe' \in Seq(Octet)
  PROVE  RecvInv'
<1>1. c' = x.c /\ app' \in App /\ c' \in Conn
  BY BecomesState DEF Settled
<1>2. c'.destroyed => c'.state = "CLOSED"
  BY <1>1 DEF Settled, State
<1> QED BY <1>1, <1>2 DEF Settled, RecvInv, RecvTypeOK, Fits

LEMMA OnDataStep ==
  ASSUME RecvInv, c' \in Conn => StreamIntact', ws_stream_on_data
  PROVE  RecvInv'
<1>1. /\ ~busy /\ ~c.destroyed /\ c.state # "CLOSED" /\ peer' \in Peer
      /\ pipe \in Seq(Octet) /\ Len(pipe) \in Nat /\ c.buf \in Seq(Octet) /\ c.remaining \in Nat /\ c \in Conn
      /\ c.err = 0 /\ Len(c.frag) <= Cap /\ Cap \in Nat
  BY RecvAssumption DEF RecvInv, RecvTypeOK, ws_stream_on_data, Conn
<1> DEFINE x(plan) == With(plan)
           b(n) == c.buf \o SubSeq(pipe, 1, n)
           y(n, plan) == [x(plan) EXCEPT !.c.buf = b(n)]
<1>2. PICK n \in Chunks, plan \in Plans :
        /\ n <= Len(pipe)
        /\ pipe' = SubSeq(pipe, n + 1, Len(pipe))
        /\ IF Len(y(n, plan).c.buf) > Cap THEN Becomes(ws_fatal(x(plan))) /\ UNCHANGED busy
           ELSE /\ Becomes(IF c.msg.mode = "STREAM" /\ c.remaining > 0 THEN stream_consume(y(n, plan)) ELSE y(n, plan))
                /\ busy' = (c'.remaining = 0)
  BY DEF ws_stream_on_data, With
<1>3. n \in Nat
  BY RecvAssumption
<1>4. pipe' \in Seq(Octet) /\ SubSeq(pipe, 1, n) \in Seq(Octet)
  BY <1>1, <1>2, <1>3, Part
<1> DEFINE w == y(n, plan)
<1>5. x(plan) \in State /\ x(plan).c = c /\ Fits(x(plan))
  BY WithState
<1>6. b(n) \in Seq(Octet)
  BY <1>1, <1>4
<1> HIDE DEF x, b
<1>7. /\ w \in State /\ w.c.buf = b(n) /\ w.c.remaining = c.remaining /\ w.c.msg = c.msg /\ w.c.err = 0
      /\ w.c.frag = c.frag
  BY <1>1, <1>5, <1>6, ZenonT(60) DEF State, Conn
<1>8. Fits(w)
  BY <1>1, <1>7 DEF Fits
<1> HIDE DEF y
<1>9. CASE Len(w.c.buf) > Cap
  <2> DEFINE e == ws_fatal(x(plan))
  <2>1. Becomes(e) /\ busy' = FALSE
    BY <1>1, <1>2, <1>9
  <2>2. Told(x(plan), e) /\ e.c.state = "CLOSED"
    BY <1>5, FatalEnds
  <2> HIDE DEF e
  <2>3. Settled(e, FALSE)
    BY <1>1, <1>5, <2>2 DEF Settled, Told, Kept, Fits
  <2> QED BY <1>1, <1>4, <2>1, <2>3, SettledInv
<1>10. CASE ~(Len(w.c.buf) > Cap)
  <2>1. busy' = (c'.remaining = 0)
    BY <1>2, <1>10
  <2>2. Len(w.c.buf) \in Nat /\ Len(w.c.buf) <= Cap
    BY <1>1, <1>6, <1>7, <1>10
  <2>3. CASE c.remaining > 0
    <3> DEFINE z == stream_consume(w)
    <3>1. c.msg.mode = "STREAM"
      BY <1>1, <2>3 DEF RecvInv
    <3>2. Becomes(z)
      BY <1>2, <1>10, <2>3, <3>1
    <3>3. z \in State /\ Fits(z) /\ z.c.err = 0 /\ Rest(w, z)
      BY <1>7, <1>8, Consume
    <3> HIDE DEF z
    <3>4. c' = z.c /\ StreamIntact'
      BY <3>2, <3>3, BecomesState
    <3> DEFINE e == (z.c.remaining = 0)
    <3>5. z.c.remaining \in Nat /\ busy' = e
      BY <2>1, <3>3, <3>4, StateFields
    <3>6. ~(z.c.state # "CLOSED" /\ z.c.msg.compressed /\ Corrupt(z.c.buf) /\ z.c.remaining > 0)
      <4>2. z.c.remaining > 0 => e = FALSE
        BY <3>5
      <4> HIDE DEF e
      <4>1. z.c.remaining > 0 => busy' = FALSE
        BY <3>5, <4>2
      <4> QED BY <3>4, <4>1 DEF StreamIntact
    <3>7. z.c.state # "CLOSED" => \/ z.c.remaining > 0 /\ z.c.buf = <<>> /\ z.c.msg.mode = "STREAM"
                                  \/ z.c.remaining = 0 /\ Len(z.c.buf) <= Cap
      <4>1. z.c.buf \in Seq(Octet)
        BY <3>3, StateFields
      <4>2. Len(z.c.buf) \in Nat
        BY <4>1
      <4> QED BY <1>1, <1>7, <2>2, <3>1, <3>3, <3>6, <4>2 DEF Rest
    <3>8. Settled(z, e)
      BY <3>3, <3>5, <3>7 DEF Settled
    <3> QED BY <1>1, <1>4, <3>2, <3>5, <3>8, SettledInv
  <2>4. CASE ~(c.remaining > 0)
    <3>1. Becomes(w) /\ w.c.remaining = 0
      BY <1>1, <1>2, <1>7, <1>10, <2>4
    <3>2. busy' = TRUE
      BY <1>7, <2>1, <3>1, BecomesState
    <3> HIDE DEF w
    <3>3. Settled(w, TRUE)
      BY <1>7, <1>8, <2>2, <3>1 DEF Settled
    <3> QED BY <1>1, <1>4, <3>1, <3>2, <3>3, SettledInv
  <2> QED BY <2>3, <2>4
<1> QED BY <1>9, <1>10

\* An error ends the connection.
LEMMA ErrorSettled ==
  ASSUME NEW y \in State, Fits(y), NEW b \in BOOLEAN, y.c.err = 1, ~b
  PROVE  Settled(ws_fatal([y EXCEPT !.c.err = 0]), b)
<1> DEFINE w == [y EXCEPT !.c.err = 0]
<1>1. w \in State /\ w.c.err = 0 /\ w.c.frag = y.c.frag
  BY DEF State, Conn
<1> HIDE DEF w
<1>2. Told(w, ws_fatal(w)) /\ ws_fatal(w).c.state = "CLOSED"
  BY <1>1, FatalEnds
<1>3. Settled(ws_fatal(w), b)
  BY <1>1, <1>2 DEF Settled, Told, Kept, Fits
<1> QED BY <1>3 DEF w

LEMMA ProcessStep ==
  ASSUME RecvInv, c' \in Conn => StreamIntact', HeaderFits, process_frames
  PROVE  RecvInv'
<1> DEFINE h == ws_frame_parse_header(c.buf)
           whole == h.n > 0 /\ Len(c.buf) >= h.n + h.payload_len
           stop == \/ c.buf = <<>> \/ c.state = "CLOSED" \/ c.destroyed \/ h.n = 0
                   \/ (h.n > 0 /\ ~whole /\ ~Streamed(h))
           y(plan, sent) == IF h.n < 0 THEN Fail(With(plan))
                            ELSE IF whole THEN frame_whole(With(plan), h, sent) ELSE stream_begin(With(plan), h)
           e(x) == IF x.c.err = 0 THEN x ELSE ws_fatal([x EXCEPT !.c.err = 0])
<1>1. /\ busy /\ peer' \in Peer /\ pipe' \in Seq(Octet) /\ c \in Conn /\ c.buf \in Seq(Octet) /\ Len(c.buf) \in Nat
      /\ c.remaining = 0 /\ (c.state # "CLOSED" => Len(c.buf) <= Cap) /\ c.err = 0 /\ Len(c.frag) <= Cap
      /\ Cap \in Nat /\ Cap \div 2 \in Nat /\ Cap \div 2 >= 13 /\ (c.destroyed => c.state = "CLOSED")
  BY RecvAssumption DEF RecvInv, RecvTypeOK, process_frames, Conn, HeaderFits
<1>2. /\ h.n \in {-1, 0} \/ (Header(h) /\ h.n <= Len(c.buf))
      /\ h.n = 0 => Len(c.buf) <= 13
  BY <1>1, ParseHeader
<1>3. IF stop THEN busy' = FALSE /\ UNCHANGED <<c, app>>
      ELSE \E plan \in Plans, sent \in BOOLEAN :
             /\ Becomes(e(y(plan, sent)))
             /\ busy' = (whole /\ y(plan, sent).c.err = 0)
  BY DEF process_frames
<1> HIDE DEF h
<1>4. whole \in BOOLEAN /\ (h.n \notin {-1, 0} => h.n \in 2 .. 14 /\ h.payload_len \in Nat)
  BY <1>2 DEF Header
<1>5. CASE stop
  <2>1. c.state # "CLOSED" => Len(c.buf) <= Cap \div 2
    <3>1. CASE c.buf = <<>>
      BY <1>1, <3>1
    <3>2. CASE h.n = 0
      BY <1>1, <1>2, <3>2
    <3>3. CASE h.n > 0 /\ ~whole /\ ~Streamed(h)
      <4> DEFINE n == h.n
                 p == h.payload_len
                 l == Len(c.buf)
                 half == Cap \div 2
      <4>1. n \in 2 .. 14 /\ p \in Nat /\ l \in Nat /\ half \in Nat
        BY <1>1, <1>2, <1>4, <3>3
      <4>2. ~(l >= n + p) /\ ~(n + p > half)
        BY <3>3, Zenon DEF Streamed
      <4> HIDE DEF n, p, l, half
      <4>3. l <= half
        BY <4>1, <4>2
      <4> QED BY <4>3 DEF l, half
    <3> QED BY <1>1, <1>5, <3>1, <3>2, <3>3
  <2>2. busy' = FALSE /\ c' = c /\ app' = app
    BY <1>3, <1>5
  <2>3. RecvTypeOK'
    BY <1>1, <2>2 DEF RecvInv, RecvTypeOK
  <2> HIDE DEF stop
  <2> QED BY <1>1, <2>1, <2>2, <2>3 DEF RecvInv
<1>6. CASE ~stop
  <2>1. PICK plan \in Plans, sent \in BOOLEAN :
          Becomes(e(y(plan, sent))) /\ busy' = (whole /\ y(plan, sent).c.err = 0)
    BY <1>3, <1>6
  <2> DEFINE x == With(plan)
             z == y(plan, sent)
  <2>2. x \in State /\ x.c = c /\ Fits(x)
    BY WithState
  <2>3. c.state # "CLOSED" /\ Len(c.buf) <= Cap /\ h.n # 0
    BY <1>1, <1>6
  <2>7. z.c.err = 1 => e(z) = ws_fatal([z EXCEPT !.c.err = 0]) /\ (whole /\ z.c.err = 0) = FALSE
    <3> HIDE DEF z, whole
    <3> QED OBVIOUS
  <2> HIDE DEF x, e
  <2>4. CASE h.n < 0
    <3>1. z = Fail(x)
      BY <2>4 DEF x
    <3>2. z \in State /\ Fits(z) /\ z.c.err = 1
      BY <2>2, <3>1, Failed DEF Handled
    <3> HIDE DEF z
    <3>3. Becomes(ws_fatal([z EXCEPT !.c.err = 0])) /\ busy' = FALSE
      BY <2>1, <2>7, <3>2 DEF z
    <3>4. Settled(ws_fatal([z EXCEPT !.c.err = 0]), FALSE)
      BY <3>2, ErrorSettled
    <3> QED BY <1>1, <3>3, <3>4, SettledInv
  <2>5. CASE ~(h.n < 0) /\ whole
    <3>1. z = frame_whole(x, h, sent)
      BY <2>5 DEF x
    <3>2. Header(h) /\ h.n + h.payload_len <= Len(x.c.buf) /\ Len(x.c.buf) <= Cap
      BY <1>1, <1>2, <1>4, <2>2, <2>3, <2>5
    <3>3. z \in State /\ Fits(z) /\ z.c.remaining = x.c.remaining /\ Len(z.c.buf) <= Len(x.c.buf)
      BY <2>2, <3>1, <3>2, WholeFrame
    <3> HIDE DEF z, whole
    <3>4. z.c.remaining = 0 /\ Len(z.c.buf) <= Cap /\ z.c.err \in {0, 1}
      <4>1. z.c.buf \in Seq(Octet) /\ z.c.err \in {0, 1}
        BY <3>3, StateFields
      <4>2. Len(z.c.buf) \in Nat
        BY <4>1
      <4> QED BY <1>1, <2>2, <3>2, <3>3, <4>1, <4>2
    <3>5. CASE z.c.err = 0
      <4>1. Becomes(z) /\ busy' = TRUE
        BY <2>1, <2>5, <3>5 DEF e, z
      <4>2. Settled(z, TRUE)
        BY <3>3, <3>4, <3>5 DEF Settled
      <4> QED BY <1>1, <4>1, <4>2, SettledInv
    <3>6. CASE z.c.err = 1
      <4>1. Becomes(ws_fatal([z EXCEPT !.c.err = 0])) /\ busy' = FALSE
        BY <2>1, <2>7, <3>6 DEF z
      <4>2. Settled(ws_fatal([z EXCEPT !.c.err = 0]), FALSE)
        BY <3>3, <3>6, ErrorSettled
      <4> QED BY <1>1, <4>1, <4>2, SettledInv
    <3> QED BY <3>4, <3>5, <3>6
  <2>6. CASE ~(h.n < 0) /\ ~whole
    <3>1. z = stream_begin(x, h)
      BY <2>6 DEF x
    <3>2. Header(h) /\ h.n <= Len(x.c.buf) /\ Len(x.c.buf) < h.n + h.payload_len
      <4>1. h.n \in 2 .. 14 /\ h.payload_len \in Nat /\ Header(h) /\ h.n <= Len(c.buf)
        BY <1>2, <1>4, <2>3, <2>6
      <4> DEFINE n == h.n
                 p == h.payload_len
                 l == Len(c.buf)
      <4>2. h.n > 0
        BY <4>1
      <4>3. ~(l >= n + p)
        BY <2>6, <4>2, Zenon
      <4>4. n \in 2 .. 14 /\ p \in Nat /\ l \in Nat
        BY <1>1, <4>1
      <4> HIDE DEF n, p, l
      <4>5. l < n + p
        BY <4>3, <4>4
      <4> QED BY <2>2, <4>1, <4>5 DEF n, p, l
    <3>3. /\ z \in State /\ Fits(z)
          /\ \/ z.c.err = 1
             \/ z.c.err = 0 /\ z.c.state = "CLOSED"
             \/ z.c.err = 0 /\ z.c.msg.compressed /\ Corrupt(z.c.buf) /\ z.c.remaining > 0
             \/ z.c.err = 0 /\ z.c.remaining > 0 /\ z.c.buf = <<>> /\ z.c.msg.mode = "STREAM"
      BY <1>1, <2>2, <3>1, <3>2, StreamBegin
    <3>4. busy' = FALSE
      BY <2>1, <2>6
    <3> HIDE DEF z, whole
    <3>5. CASE z.c.err = 1
      <4>1. Becomes(ws_fatal([z EXCEPT !.c.err = 0]))
        BY <2>1, <3>5 DEF e, z
      <4>2. Settled(ws_fatal([z EXCEPT !.c.err = 0]), FALSE)
        BY <3>3, <3>5, ErrorSettled
      <4> QED BY <1>1, <3>4, <4>1, <4>2, SettledInv
    <3>6. CASE z.c.err = 0
      <4>1. Becomes(z)
        BY <2>1, <3>6 DEF e, z
      <4>2. c' = z.c /\ StreamIntact'
        BY <3>3, <4>1, BecomesState
      <4>3. ~(z.c.state # "CLOSED" /\ z.c.msg.compressed /\ Corrupt(z.c.buf) /\ z.c.remaining > 0)
        BY <3>4, <4>2 DEF StreamIntact
      <4>4. z.c.remaining \in Nat
        BY <3>3, StateFields
      <4>5. Settled(z, FALSE)
        BY <3>3, <3>6, <4>3, <4>4 DEF Settled
      <4> QED BY <1>1, <3>4, <4>1, <4>5, SettledInv
    <3> QED BY <3>3, <3>5, <3>6
  <2> QED BY <2>4, <2>5, <2>6
<1> QED BY <1>5, <1>6

-------------------------------------------------------------------------------
(* The peer: whatever it sends is bytes. *)

LEMMA BigEndianTyped ==
  ASSUME NEW len \in Nat, NEW n \in Nat
  PROVE  BigEndian(len, n) \in [1 .. n -> Nat]
<1> DEFINE Half(k) == k \div 256
           F(g) == [i \in 0 .. n |-> IF i = 0 THEN len ELSE Half(g[i - 1])]
           f == CHOOSE g : g = F(g)
<1>1. BigEndian(len, n) = [i \in 1 .. n |-> f[n - i] % 256]
  BY DEF BigEndian
<1>2. ASSUME NEW k \in Nat PROVE Half(k) \in Nat
  OBVIOUS
<1> HIDE DEF Half
<1>3. PICK g \in [0 .. n -> Nat] : g[0] = len /\ \A i \in 1 .. n : g[i] = Half(g[i - 1])
  <2> DEFINE step == [i \in 1 .. n |-> [k \in Nat |-> Half(k)]]
  <2>1. step \in [1 .. n -> [Nat -> Nat]]
    BY <1>2
  <2>2. \A i \in 1 .. n : \A k \in Nat : step[i][k] = Half(k)
    OBVIOUS
  <2> HIDE DEF step
  <2>3. PICK g : Iterates(g, n, Nat, len, step)
    BY <2>1, Recursion
  <2>4. \A i \in 1 .. n : g[i - 1] \in Nat
    BY <2>3 DEF Iterates
  <2> QED BY <2>2, <2>3, <2>4 DEF Iterates
<1>4. g = F(g)
  BY <1>3
<1>5. f = F(f)
  BY <1>4
<1> HIDE DEF f
<1>6. f[0] = len /\ \A i \in 1 .. n : f[i] = Half(f[i - 1])
  BY <1>5
<1> DEFINE T == {i \in 0 .. n : f[i] \in Nat}
<1>7. 0 \in T
  BY <1>6
<1>8. ASSUME NEW i \in 1 .. n, i - 1 \in T PROVE i \in T
  <2>1. f[i - 1] \in Nat /\ i \in 0 .. n
    BY <1>8
  <2>2. f[i] \in Nat
    BY <1>2, <1>6, <2>1
  <2> QED BY <2>1, <2>2
<1>9. \A i \in 0 .. n : f[i] \in Nat
  <2> HIDE DEF T
  <2>1. 0 .. n \subseteq T
    BY <1>7, <1>8, Upward
  <2> QED BY <2>1 DEF T
<1>10. ASSUME NEW i \in 1 .. n PROVE f[n - i] % 256 \in Nat
  <2>1. n - i \in 0 .. n
    OBVIOUS
  <2>2. f[n - i] \in Nat
    BY <1>9, <2>1
  <2> QED BY <2>2
<1> QED BY <1>1, <1>10

LEMMA FunctionIsSeq ==
  ASSUME NEW S, NEW n \in Nat, NEW f \in [1 .. n -> S]
  PROVE  f \in Seq(S)
<1>1. f = [i \in 1 .. n |-> f[i]] /\ \A i \in 1 .. n : f[i] \in S
  OBVIOUS
<1> DEFINE g == [i \in 1 .. n |-> f[i]]
<1>2. g \in Seq(S)
  BY <1>1
<1> QED BY <1>1, <1>2

LEMMA ByteTyped ==
  ASSUME NEW v \in Nat, NEW role \in Roles \cup {"one", "trail"}
  PROVE  Byte(v, role) \in Octet
BY DEF Byte, Octet

LEMMA BuildHeader ==
  ASSUME NEW fin \in BOOLEAN, NEW rsv1 \in BOOLEAN, NEW opcode \in Nat, NEW key \in Seq(Octet), NEW len \in Nat
  PROVE  LET h == ws_frame_build_header(fin, rsv1, opcode, key, len)
         IN h \in Seq(Octet) /\ Len(h) >= 1
<1> DEFINE mask == Bit(key # <<>>, MASK_BIT)
           one == Bit(fin, FIN_BIT) + Bit(rsv1, RSV1_BIT) + opcode
           two == BigEndian(len, 2)
           eight == BigEndian(len, 8)
           rest == IF len < LEN16_CODE THEN <<mask + len>>
                   ELSE IF len <= 65535 THEN <<mask + LEN16_CODE>> \o two
                   ELSE <<mask + LEN64_CODE>> \o eight
           head == <<one>> \o rest
           bytes == [i \in DOMAIN head |-> Byte(head[i], "one")]
<1>1. ws_frame_build_header(fin, rsv1, opcode, key, len) = bytes \o key
  BY DEF ws_frame_build_header
<1>2. mask \in Nat /\ one \in Nat
  BY DEF Bit, MASK_BIT, FIN_BIT, RSV1_BIT
<1>3. two \in Seq(Nat) /\ eight \in Seq(Nat)
  <2>1. two \in [1 .. 2 -> Nat] /\ eight \in [1 .. 8 -> Nat]
    BY BigEndianTyped
  <2> HIDE DEF two, eight
  <2> QED BY <2>1, FunctionIsSeq
<1> HIDE DEF mask, one, two, eight
<1>4. rest \in Seq(Nat)
  <2>1. <<mask + len>> \in Seq(Nat) /\ <<mask + LEN16_CODE>> \in Seq(Nat) /\ <<mask + LEN64_CODE>> \in Seq(Nat)
    BY <1>2 DEF LEN16_CODE, LEN64_CODE
  <2>2. <<mask + LEN16_CODE>> \o two \in Seq(Nat) /\ <<mask + LEN64_CODE>> \o eight \in Seq(Nat)
    BY <1>3, <2>1, ConcatProperties
  <2> QED BY <2>1, <2>2
<1> HIDE DEF rest
<1>5. head \in Seq(Nat) /\ Len(head) = 1 + Len(rest) /\ Len(rest) \in Nat /\ <<one>> \in Seq(Nat)
  BY <1>2, <1>4
<1> HIDE DEF head
<1>6. bytes \in Seq(Octet) /\ Len(bytes) = Len(head)
  <2>1. DOMAIN head = 1 .. Len(head) /\ Len(head) \in Nat /\ \A i \in 1 .. Len(head) : head[i] \in Nat
    BY <1>5
  <2>2. \A i \in 1 .. Len(head) : Byte(head[i], "one") \in Octet
    BY <2>1, ByteTyped
  <2> QED BY <2>1, <2>2
<1> HIDE DEF bytes
<1>7. bytes \o key \in Seq(Octet) /\ Len(bytes \o key) = Len(bytes) + Len(key) /\ Len(key) \in Nat
  BY <1>6
<1> QED BY <1>1, <1>5, <1>6, <1>7

LEMMA SendStep ==
  ASSUME RecvInv, NEW fin \in BOOLEAN, NEW rsv1 \in BOOLEAN, NEW rsv2 \in BOOLEAN, NEW opcode \in Nat,
         NEW masked \in BOOLEAN, NEW payload \in Seq(Octet),
         SendFrame(fin, rsv1, rsv2, opcode, masked, payload), app' \in App, peer' \in Peer
  PROVE  RecvInv'
<1> DEFINE key == IF masked THEN Key ELSE <<>>
           header == ws_frame_build_header(fin, rsv1, opcode, key, Len(payload))
           marked == [header EXCEPT ![1].v = @ + (IF rsv2 THEN 32 ELSE 0)]
           body == IF masked THEN ws_frame_apply_mask(payload, Key) ELSE payload
<1>1. pipe' = pipe \o marked \o body /\ c' = c /\ busy' = busy
  BY DEF SendFrame
<1>2. Key \in [1 .. 4 -> Octet] /\ Key \in Seq(Octet) /\ <<>> \in Seq(Octet)
  <2>1. Key \in [1 .. 4 -> Octet]
    BY ByteTyped DEF Key
  <2> QED BY <2>1, FunctionIsSeq, SMTT(30)
<1>3. header \in Seq(Octet) /\ Len(header) >= 1
  <2>1. key \in Seq(Octet) /\ Len(payload) \in Nat
    BY <1>2
  <2> HIDE DEF key
  <2> QED BY <2>1, BuildHeader
<1> HIDE DEF header
<1>4. marked \in Seq(Octet)
  <2> DEFINE b == header[1]
             e == [b EXCEPT !.v = @ + (IF rsv2 THEN 32 ELSE 0)]
  <2>1. b \in Octet
    BY <1>3
  <2>2. e \in Octet
    <3> DEFINE v == b.v + (IF rsv2 THEN 32 ELSE 0)
    <3>1. v \in Nat /\ e = [b EXCEPT !.v = v]
      BY <2>1 DEF Octet
    <3> HIDE DEF v, e, b
    <3> QED BY <2>1, <3>1 DEF Octet
  <2>3. marked = [header EXCEPT ![1] = e]
    OBVIOUS
  <2> HIDE DEF e, marked
  <2> QED BY <1>3, <2>2, <2>3
<1>5. body \in Seq(Octet)
  <2>1. ws_frame_apply_mask(payload, Key) \in Seq(Octet)
    BY <1>2, MaskTyped DEF ws_frame_apply_mask
  <2> QED BY <2>1
<1> HIDE DEF marked, body
<1>6. pipe' \in Seq(Octet)
  <2>1. pipe \in Seq(Octet)
    BY DEF RecvInv, RecvTypeOK
  <2>2. pipe \o marked \in Seq(Octet)
    BY <1>4, <2>1, ConcatProperties
  <2>3. (pipe \o marked) \o body \in Seq(Octet)
    BY <1>5, <2>2, ConcatProperties
  <2> QED BY <1>1, <2>3
<1>7. RecvTypeOK'
  BY <1>1, <1>6 DEF RecvInv, RecvTypeOK
<1> QED BY <1>1, <1>7 DEF RecvInv

LEMMA PeerDataStep ==
  ASSUME RecvInv, peer_data
  PROVE  RecvInv'
<1>1. app \in App /\ peer \in Peer /\ c \in Conn /\ app.expect \in Seq(Expected) /\ IsClient \in BOOLEAN
  BY DEF RecvInv, RecvTypeOK, App, Conn, IsClient
<1> DEFINE old(opcode, rsv1) == IF opcode = CONT THEN Last(app.expect)
                                ELSE [n |-> 0, bin |-> opcode = BINARY, compressed |-> rsv1, fin |-> FALSE]
           new(opcode, rsv1, size, fin) == [old(opcode, rsv1) EXCEPT !.n = @ + size, !.fin = fin]
           data(opcode, rsv1, size, role) ==
             [i \in 1 .. size |-> Byte(old(opcode, rsv1).n + i, RoleOf(role, size, i))]
           told(opcode) == IF opcode = CONT THEN Front(app.expect) ELSE app.expect
<1>2. PICK fin \in BOOLEAN, rsv1 \in BOOLEAN, opcode \in {CONT, TEXT, BINARY}, role \in Roles :
      \E size \in IF Compressed(rsv1, opcode) THEN ZSizes ELSE Sizes :
        /\ Lawful(fin, rsv1, FALSE, opcode, ~IsClient)
        /\ fin \/ peer.frames + 1 < MaxFrag
        /\ Mixed \/ ~(peer.large = 2 /\ MayStream(size))
        /\ RoleAllowed(role, fin, rsv1, opcode, size)
        /\ peer.split => role \in {"one", "lead"} /\ (fin => size > 0)
        /\ /\ app' = [app EXCEPT !.expect = Append(told(opcode), new(opcode, rsv1, size, fin)),
                                 !.excuse = @ \/ role = "bad" \/ role \in Refused]
           /\ SendFrame(fin, rsv1, FALSE, opcode, ~IsClient, data(opcode, rsv1, size, role))
           /\ peer' = [peer EXCEPT !.frames = IF fin THEN 0 ELSE @ + 1,
                                   !.large = IF fin THEN 0 ELSE LargeThen(size),
                                   !.split = IF size > 0 THEN role = "lead" ELSE @,
                                   !.apart = @ \/ Apart(old(opcode, rsv1).n, size)]
  BY Zenon DEF peer_data
<1>3. PICK size \in IF Compressed(rsv1, opcode) THEN ZSizes ELSE Sizes :
        /\ Lawful(fin, rsv1, FALSE, opcode, ~IsClient)
        /\ app' = [app EXCEPT !.expect = Append(told(opcode), new(opcode, rsv1, size, fin)),
                              !.excuse = @ \/ role = "bad" \/ role \in Refused]
        /\ SendFrame(fin, rsv1, FALSE, opcode, ~IsClient, data(opcode, rsv1, size, role))
        /\ peer' = [peer EXCEPT !.frames = IF fin THEN 0 ELSE @ + 1,
                                !.large = IF fin THEN 0 ELSE LargeThen(size),
                                !.split = IF size > 0 THEN role = "lead" ELSE @,
                                !.apart = @ \/ Apart(old(opcode, rsv1).n, size)]
  BY <1>2
<1>4. size \in Nat /\ opcode \in Nat
  BY RecvAssumption DEF CONT, TEXT, BINARY
<1>5. opcode = CONT => app.expect # <<>>
  BY <1>3 DEF Lawful, IsControl, Open, CONT
<1> DEFINE o == old(opcode, rsv1)
           w == new(opcode, rsv1, size, fin)
           d == data(opcode, rsv1, size, role)
           t == told(opcode)
<1>6. o \in Expected /\ t \in Seq(Expected)
  <2>1. CASE opcode = CONT
    <3>1. Len(app.expect) \in Nat /\ Len(app.expect) > 0 /\ Len(app.expect) \in 1 .. Len(app.expect)
      BY <1>1, <1>5, <2>1
    <3>2. Last(app.expect) \in Expected
      BY <1>1, <3>1 DEF Last
    <3>3. Front(app.expect) \in Seq(Expected)
      BY <1>1, <3>1, Part DEF Front
    <3> QED BY <2>1, <3>2, <3>3
  <2>2. CASE opcode # CONT
    <3> DEFINE e == [n |-> 0, bin |-> opcode = BINARY, compressed |-> rsv1, fin |-> FALSE]
    <3>1. e \in Expected
      BY DEF Expected
    <3>2. o = e /\ t = app.expect
      BY <2>2
    <3> HIDE DEF e
    <3> QED BY <1>1, <3>1, <3>2
  <2> QED BY <2>1, <2>2
<1> HIDE DEF old, told
<1>7. w \in Expected
  <2>1. o.n + size \in Nat
    BY <1>4, <1>6 DEF Expected
  <2> QED BY <1>6, <2>1 DEF Expected
<1>8. d \in Seq(Octet)
  <2>1. \A i \in 1 .. size : Byte(o.n + i, RoleOf(role, size, i)) \in Octet
    <3> TAKE i \in 1 .. size
    <3>1. o.n + i \in Nat /\ RoleOf(role, size, i) \in Roles \cup {"one", "trail"}
      BY <1>4, <1>6 DEF Expected, RoleOf
    <3> QED BY <3>1, ByteTyped
  <2>2. d \in [1 .. size -> Octet]
    BY <2>1
  <2> HIDE DEF d
  <2> QED BY <1>4, <2>2, FunctionIsSeq
<1> HIDE DEF new, data
<1>9. app' \in App
  <2> DEFINE e == Append(t, w)
             b == app.excuse \/ role = "bad" \/ role \in Refused
  <2>1. e \in Seq(Expected) /\ b \in BOOLEAN
    BY <1>6, <1>7
  <2>2. app' = [app EXCEPT !.expect = e, !.excuse = b]
    BY <1>3
  <2> HIDE DEF e, b
  <2> QED BY <1>1, <2>1, <2>2 DEF App
<1>10. peer' \in Peer
  <2> DEFINE l == LargeThen(size)
  <2>1. l \in 0 .. 2
    BY <1>1 DEF LargeThen, Peer
  <2> HIDE DEF l
  <2> DEFINE f == IF fin THEN 0 ELSE peer.frames + 1
             g == IF fin THEN 0 ELSE l
             s == IF size > 0 THEN role = "lead" ELSE peer.split
             a == peer.apart \/ Apart(o.n, size)
  <2>2. peer' = [peer EXCEPT !.frames = f, !.large = g, !.split = s, !.apart = a]
    BY <1>3 DEF l
  <2>3. f \in Nat /\ g \in 0 .. 2
    BY <1>1, <2>1 DEF Peer
  <2>5. s \in BOOLEAN
    <3>1. peer.split \in BOOLEAN /\ (role = "lead") \in BOOLEAN
      BY <1>1 DEF Peer
    <3> QED BY <3>1, Zenon
  <2>4. a \in BOOLEAN
    BY Zenon
  <2> HIDE DEF f, g, s, a
  <2> QED BY <1>1, <2>2, <2>3, <2>4, <2>5 DEF Peer
<1>11. SendFrame(fin, rsv1, FALSE, opcode, ~IsClient, d)
  BY <1>3
<1> HIDE DEF d
<1> DEFINE m == ~IsClient
<1>12. m \in BOOLEAN
  OBVIOUS
<1> HIDE DEF m
<1>13. SendFrame(fin, rsv1, FALSE, opcode, m, d)
  BY <1>11 DEF m
<1> QED BY <1>4, <1>8, <1>9, <1>10, <1>12, <1>13, SendStep

LEMMA PeerOtherStep ==
  ASSUME RecvInv, peer_control \/ peer_close \/ peer_unlawful
  PROVE  RecvInv'
<1>1. app \in App /\ peer \in Peer /\ [app EXCEPT !.excuse = TRUE] \in App
      /\ [peer EXCEPT !.closed = TRUE] \in Peer /\ [peer EXCEPT !.quiet = TRUE] \in Peer
  BY DEF RecvInv, RecvTypeOK, App, Peer
<1> DEFINE m == ~IsClient
<1>2. m \in BOOLEAN /\ {CONT, TEXT, 3, CLOSE, PING, PONG} \subseteq Nat
  BY DEF CONT, TEXT, CLOSE, PING, PONG
<1>3. \A v \in Nat : Byte(v, "one") \in Octet
  BY ByteTyped
<1>4. CASE peer_control
  <2> DEFINE b == Byte(0, "one")
  <2>1. PICK opcode \in {PING, PONG} : SendFrame(TRUE, FALSE, FALSE, opcode, m, <<b>>)
    BY <1>4 DEF peer_control
  <2>2. app' = app /\ peer' = peer
    BY <1>4 DEF peer_control
  <2>3. b \in Octet
    BY <1>3
  <2> HIDE DEF m, b
  <2>4. <<b>> \in Seq(Octet) /\ opcode \in Nat
    BY <1>2, <2>3
  <2> QED BY <1>1, <1>2, <2>1, <2>2, <2>4, SendStep
<1>5. CASE peer_close
  <2> DEFINE P == {<<>>} \cup {<<Byte(code \div 256, "one"), Byte(code % 256, "one")>> : code \in {1000, 1006}}
  <2>1. PICK payload \in P : SendFrame(TRUE, FALSE, FALSE, CLOSE, m, payload)
    BY <1>5, ZenonT(60) DEF peer_close
  <2>2. app' \in App /\ peer' \in Peer
    BY <1>1, <1>5 DEF peer_close
  <2>3. payload \in Seq(Octet)
    <3>1. CASE payload = <<>>
      BY <3>1
    <3>2. CASE payload # <<>>
      <4>1. PICK code \in {1000, 1006} : payload = <<Byte(code \div 256, "one"), Byte(code % 256, "one")>>
        BY <3>2
      <4>2. code \div 256 \in Nat /\ code % 256 \in Nat
        OBVIOUS
      <4>3. Byte(code \div 256, "one") \in Octet /\ Byte(code % 256, "one") \in Octet
        BY <1>3, <4>2
      <4> QED BY <4>1, <4>3
    <3> QED BY <3>1, <3>2
  <2> HIDE DEF m, P
  <2> QED BY <1>2, <2>1, <2>2, <2>3, SendStep
<1>6. CASE peer_unlawful
  <2> DEFINE zeros(size) == [i \in 1 .. size |-> Byte(0, "one")]
  <2>1. PICK fin, rsv1, rsv2, masked \in BOOLEAN, opcode \in {CONT, TEXT, 3, CLOSE}, size \in Sizes \ {0} :
          /\ ~Lawful(fin, rsv1, rsv2, opcode, masked)
          /\ (~rsv2 /\ masked # IsClient) \/ Lawful(fin, rsv1, FALSE, opcode, ~IsClient)
          /\ rsv1 /\ Deflate => opcode # 3 \/ 3 \in Reserved
          /\ SendFrame(fin, rsv1, rsv2, opcode, masked, zeros(size))
    BY <1>6, Zenon DEF peer_unlawful
  <2>2. app' \in App /\ peer' \in Peer
    BY <1>1, <1>6 DEF peer_unlawful
  <2>3. zeros(size) \in Seq(Octet)
    <3>1. size \in Nat
      BY RecvAssumption
    <3>2. zeros(size) \in [1 .. size -> Octet]
      BY <1>3
    <3> HIDE DEF zeros
    <3> QED BY <3>1, <3>2, FunctionIsSeq
  <2> HIDE DEF zeros
  <2> QED BY <1>2, <2>1, <2>2, <2>3, SendStep
<1> QED BY <1>4, <1>5, <1>6

LEMMA InvNext ==
  ASSUME HeaderFits, RecvInv, c' \in Conn => StreamIntact', [RecvNext]_recv_vars
  PROVE  RecvInv'
<1>1. CASE RecvNext
  BY <1>1, OnDataStep, ProcessStep, PeerDataStep, PeerOtherStep DEF RecvNext
<1>2. CASE UNCHANGED recv_vars
  BY <1>2 DEF recv_vars, RecvInv, RecvTypeOK
<1> QED BY <1>1, <1>2

LEMMA InvFits == RecvInv => BufferFits
<1> SUFFICES ASSUME RecvInv PROVE BufferFits
  OBVIOUS
<1> DEFINE half == Cap \div 2
<1>1. Cap \in Nat /\ half \in Nat /\ half + half <= Cap
  BY RecvAssumption
<1>2. Len(c.frag) <= Cap /\ Len(<<>>) = 0 /\ c.buf \in Seq(Octet)
  BY DEF RecvInv, RecvTypeOK, Conn
<1>3. Len(c.buf) \in Nat
  BY <1>2
<1>4. ~busy /\ c.state # "CLOSED" => Len(c.buf) <= half
  <2> HIDE DEF half
  <2> QED BY <1>1, <1>2 DEF RecvInv, half
<1> HIDE DEF half
<1>5. ~busy /\ c.state # "CLOSED" => Len(c.buf) + half <= Cap
  BY <1>1, <1>3, <1>4
<1> QED BY <1>2, <1>5 DEF BufferFits, half

\* Without compression, or from a peer whose data inflate does not refuse, there is nothing
\* that stays in the buffer.
LEMMA NothingRefused ==
  ASSUME c \in Conn, ~Deflate \/ Roles \cap Refused = {}
  PROVE  StreamIntact
<1>1. c.buf \in Seq(Octet) /\ c.msg \in Msg
  BY DEF Conn
<1>2. c.msg.compressed => Deflate
  BY <1>1 DEF Msg
<1>3. Roles \cap Refused = {} => ~Corrupt(c.buf)
  <2>1. \A i \in DOMAIN c.buf : c.buf[i] \in Octet
    BY <1>1
  <2> QED BY <2>1 DEF Corrupt, Octet, Refused
<1> QED BY <1>2, <1>3 DEF StreamIntact

-------------------------------------------------------------------------------
(* The theorems. *)

\* A push of the transport fits behind what the one before has left in recv_buf, and the
\* fragments of a message fit frag_buf: whatever the capacity, the sizes of frames and pushes,
\* masks, the peer's mistakes and what the user does in the callbacks.  (ws_stream_on_data,
\* process_frames, stream_consume, frag_append.)  The hypothesis is needed: what inflate
\* refuses of a frame that is streamed stays in the buffer.
THEOREM ReceiveBufferFits ==
  ASSUME HeaderFits
  PROVE  RecvSpec /\ []StreamIntact => []BufferFits
<1>1. RecvInit => RecvInv
  BY RecvInvInit
<1>2. RecvInv /\ StreamIntact' /\ [RecvNext]_recv_vars => RecvInv'
  BY InvNext
<1>3. RecvInv => BufferFits
  BY InvFits
<1> QED BY <1>1, <1>2, <1>3, PTL DEF RecvSpec

\* Without the hypothesis on behaviours: compression is off, or nothing is refused.
THEOREM ReceiveBufferFitsAlways ==
  ASSUME HeaderFits, ~Deflate \/ Roles \cap Refused = {}
  PROVE  RecvSpec => []BufferFits
<1>1. RecvInit => RecvInv
  BY RecvInvInit
<1>2. c \in Conn => StreamIntact
  BY NothingRefused
<1>3. RecvInv /\ (c \in Conn => StreamIntact)' /\ [RecvNext]_recv_vars => RecvInv'
  BY InvNext
<1>4. RecvInv => BufferFits
  BY InvFits
<1> QED BY <1>1, <1>2, <1>3, <1>4, PTL DEF RecvSpec
=============================================================================
