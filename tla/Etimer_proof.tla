---------------------------- MODULE Etimer_proof ----------------------------
(***************************************************************************)
(* For any timers, processes, intervals and range of the clock: timers do  *)
(* not expire early, none is missed, and exits leave none of theirs.       *)
(*                                                                         *)
(* All rests on one relation between the clock that wraps and the true     *)
(* time (Started): start + interval and clock + left are the same time, or *)
(* just one lap of the clock apart.  The second idea is what               *)
(* next_expiration stands for: while no timer has been taken away, it is   *)
(* the time of a timer that is on the list, and none that is not due yet   *)
(* comes before that one (NextIsEarliest); thereafter it is only early     *)
(* enough (NextIsEarly).  The third is where a timer that is due may be    *)
(* while no poll is pending: ahead of etimer_process in the list           *)
(* (PollAsked).                                                            *)
(***************************************************************************)
EXTENDS Etimer, DataInduction, SequenceTheorems, FiniteSetTheorems

Overdue(t) == left[t] <= 0
TimerOnce == \A i, j \in DOMAIN timerlist : timerlist[i] = timerlist[j] => i = j
\* A pending timer has an owner, which runs unless the timer was set in its exit.
Owners ==
  \A t \in ToSet(timerlist) :
    owner[t] \in Proc /\ (owner[t] \in alive \/ t \in rearmed)
CallerRuns == cpu.k = "add" => cpu.p \in alive \cup exiting

Started(t) ==
  /\ interval[t] \in Interval /\ left[t] <= interval[t]
  /\ start[t] + interval[t] - (clock + left[t]) \in {0, ClockMod}
Clocked ==
  /\ \A t \in Timer : left[t] >= -MaxLag => Started(t)
  /\ \A t \in Timer : interval[t] # 0 => interval[t] \in Interval
  /\ \A t \in Running : left[t] >= -MaxLag

Earliest(n) ==
  timerlist # << >> =>
  \E u \in ToSet(timerlist) :
    /\ clock + left[u] - n \in {-ClockMod, 0, ClockMod}
    /\ \A t \in ToSet(timerlist) : ~Overdue(t) => left[u] <= left[t]
NextIsEarliest ==
  /\ cpu.k \in {"idle", "scan"} /\ lap = "fresh" => Earliest(next_expiration)
  /\ cpu.k = "store" => Earliest(cpu.value)

\* update_time has been called by etimer_stop, and no poll is pending.
Stopping == cpu.k \in {"read", "store"} /\ ~cpu.again /\ ~needspoll
NextIsEarly ==
  cpu.k \in {"idle", "scan"} \/ Stopping =>
  \A t \in ToSet(timerlist) : ~Overdue(t) =>
    /\ lap = "this" => next_expiration <= clock + left[t]
    /\ lap = "next" => next_expiration + ClockMod <= clock + left[t]
PollAsked ==
  /\ cpu.k = "add" => needspoll
  /\ Stopping /\ lap = "fresh" => timerlist = << >>
  /\ lap # "over" /\ (cpu.k = "idle" \/ Stopping) => ~Overlooked
  /\ lap # "over" /\ cpu.k = "scan" /\ ~needspoll =>
       \A j \in DOMAIN timerlist : j < cpu.i /\ Overdue(timerlist[j]) =>
         \E k \in DOMAIN timerlist : k >= cpu.i /\ Overdue(timerlist[k])

IInv ==
  TypeOK /\ TimerOnce /\ Owners /\ CallerRuns /\ Clocked
  /\ NextIsEarliest /\ NextIsEarly /\ PollAsked

-----------------------------------------------------------------------------
(* The clock. *)

\* a % m for an a that is at most a lap too small or too large.
LEMMA ModRange ==
  ASSUME NEW m \in Nat \ {0}, NEW a \in (-m)..(2 * m - 1)
  PROVE  a % m = IF a < 0 THEN a + m ELSE IF a < m THEN a ELSE a - m
OBVIOUS

LEMMA Sizes ==
  /\ ClockMod \in Nat \ {0} /\ MaxLag \in Nat /\ NumEvents \in Nat \ {0}
  /\ \A i \in Interval : i \in 0..(ClockMod - 1) /\ i + MaxLag + 1 < ClockMod
BY ClockAssumption, IntervalAssumption, EventsAssumption

\* timer_expired and the distances of update_time, by the true time.
LEMMA TrueTime ==
  ASSUME TypeOK, Clocked, NEW t \in Timer, left[t] >= -MaxLag
  PROVE  /\ left[t] \in (-MaxLag)..(ClockMod - MaxLag - 2)
         /\ TimerExpired(t) <=> Overdue(t)
         /\ Distance(t) = IF Overdue(t) /\ left[t] # 0 THEN left[t] + ClockMod ELSE left[t]
         /\ Distance(t) \in 0..(ClockMod - 1)
<1>1. /\ clock \in 0..(ClockMod - 1) /\ start[t] \in 0..(ClockMod - 1)
      /\ interval[t] \in 0..(ClockMod - 1) /\ left[t] \in Int
      /\ interval[t] + MaxLag + 1 < ClockMod /\ left[t] <= interval[t]
      /\ start[t] + interval[t] - (clock + left[t]) \in {0, ClockMod}
  BY Sizes DEF TypeOK, Clocked, Started
<1>2. left[t] \in (-MaxLag)..(ClockMod - MaxLag - 2)
  BY <1>1, Sizes
<1>3. (clock - start[t] + 1) % ClockMod = interval[t] - left[t] + 1
  <2> DEFINE a == clock - start[t] + 1
  <2>1. a \in (-ClockMod)..(2 * ClockMod - 1)
    BY <1>1, Sizes
  <2>2. a = interval[t] - left[t] + 1 \/ a = interval[t] - left[t] + 1 - ClockMod
    BY <1>1, Sizes
  <2>3. interval[t] - left[t] + 1 \in 1..(ClockMod - 1)
    BY <1>1, Sizes
  <2> HIDE DEF a
  <2>4. a % ClockMod = IF a < 0 THEN a + ClockMod ELSE IF a < ClockMod THEN a ELSE a - ClockMod
    BY <2>1, ModRange, Sizes
  <2>5. a % ClockMod = interval[t] - left[t] + 1
    BY <1>1, <2>2, <2>3, <2>4, Sizes
  <2> QED
    BY <2>5 DEF a
<1>4. TimerExpired(t) <=> Overdue(t)
  BY <1>1, <1>3 DEF TimerExpired, Overdue
<1>5. Distance(t) = IF left[t] < 0 THEN left[t] + ClockMod ELSE left[t]
  <2> DEFINE a == start[t] + interval[t] - clock
  <2>1. a \in (-ClockMod)..(2 * ClockMod - 1)
    BY <1>1, Sizes
  <2>2. a = left[t] \/ a = left[t] + ClockMod
    BY <1>1, Sizes
  <2> HIDE DEF a
  <2>3. a % ClockMod = IF a < 0 THEN a + ClockMod ELSE IF a < ClockMod THEN a ELSE a - ClockMod
    BY <2>1, ModRange, Sizes
  <2> DEFINE b == a % ClockMod
  <2>4. b = IF a < 0 THEN a + ClockMod ELSE IF a < ClockMod THEN a ELSE a - ClockMod
    BY <2>3
  <2> HIDE DEF b
  <2>5. b = IF left[t] < 0 THEN left[t] + ClockMod ELSE left[t]
    <3>1. ClockMod \in Nat /\ left[t] \in Int /\ left[t] < ClockMod /\ left[t] + ClockMod > 0
      BY <1>1, <1>2, Sizes
    <3> QED
      BY <2>2, <2>4, <3>1
  <2> QED
    BY <2>5 DEF a, b, Distance
<1> QED
  BY <1>1, <1>2, <1>4, <1>5, Sizes DEF Overdue

-----------------------------------------------------------------------------
(* The list. *)

LEMMA ListFacts ==
  ASSUME TypeOK, TimerOnce
  PROVE  /\ timerlist \in Seq(Timer) /\ Len(timerlist) \in Nat
         /\ DOMAIN timerlist = 1..Len(timerlist)
         /\ ToSet(timerlist) \subseteq Timer
         /\ timerlist = << >> <=> ToSet(timerlist) = {}
         /\ Cardinality(ToSet(timerlist)) = Len(timerlist)
         /\ Len(timerlist) <= Cardinality(Timer) /\ Cardinality(Timer) \in Nat
<1>1. /\ timerlist \in Seq(Timer) /\ Len(timerlist) \in Nat
      /\ DOMAIN timerlist = 1..Len(timerlist)
  BY DEF TypeOK
<1>2. \A i \in 1..Len(timerlist) : timerlist[i] \in Timer
  BY <1>1
<1>3. ToSet(timerlist) \subseteq Timer
  BY <1>1, <1>2 DEF ToSet
<1>4. timerlist = << >> <=> ToSet(timerlist) = {}
  <2>1. CASE timerlist = << >>
    BY <2>1 DEF ToSet
  <2>2. CASE timerlist # << >>
    <3>1. 1 \in 1..Len(timerlist)
      BY <1>1, <2>2, EmptySeq
    <3> QED
      BY <1>1, <2>2, <3>1 DEF ToSet
  <2> QED
    BY <2>1, <2>2
<1>5. Cardinality(ToSet(timerlist)) = Len(timerlist)
  <2> DEFINE n == Len(timerlist)
             f == [i \in 1..n |-> timerlist[i]]
  <2>1. f \in Bijection(1..n, ToSet(timerlist))
    BY <1>1 DEF TimerOnce, ToSet, Bijection, Injection, Surjection, IsInjective
  <2>2. ExistsBijection(1..n, ToSet(timerlist))
    BY <2>1 DEF ExistsBijection
  <2>3. IsFiniteSet(1..n) /\ Cardinality(1..n) = n
    BY <1>1, FS_Interval
  <2> HIDE DEF n, f
  <2> QED
    BY <2>2, <2>3, FS_Bijection DEF n
<1>6. Len(timerlist) <= Cardinality(Timer) /\ Cardinality(Timer) \in Nat
  BY <1>3, <1>5, TimerAssumption, FS_Subset, FS_CardinalityType
<1> QED
  BY <1>1, <1>3, <1>4, <1>5, <1>6

\* What is unlinked is gone, the rest is there, and nothing is there twice.
LEMMA WithoutList ==
  ASSUME TypeOK, TimerOnce, NEW P
  PROVE  LET w == Without(P)
         IN  /\ w \in Seq(Timer)
             /\ ToSet(w) = ToSet(timerlist) \ P
             /\ \A i, j \in DOMAIN w : w[i] = w[j] => i = j
<1> DEFINE n == Len(timerlist)
           V == Seq(Timer)
           G == [i \in 1..n |-> [w \in V |->
                   IF timerlist[i] \in P THEN w ELSE Append(w, timerlist[i])]]
<1>1. n \in Nat /\ \A i \in 1..n : timerlist[i] \in Timer
  BY ListFacts, ElementOfSeq
<1>2. << >> \in V
  OBVIOUS
<1>3. G \in [1..n -> [V -> V]]
  BY <1>1
<1> HIDE DEF n, V, G
<1>4. PICK f \in [0..n -> V] : Steps(f, n, << >>, G)
  BY <1>1, <1>2, <1>3, Recursion
<1> DEFINE rest == CHOOSE rest : rest = [i \in 0..n |->
              IF i = 0 THEN << >>
              ELSE IF timerlist[i] \in P THEN rest[i - 1]
              ELSE Append(rest[i - 1], timerlist[i])]
<1>5. f = [i \in 0..n |->
              IF i = 0 THEN << >>
              ELSE IF timerlist[i] \in P THEN f[i - 1]
              ELSE Append(f[i - 1], timerlist[i])]
  <2>1. \A i \in 1..n : i \in 0..n /\ i # 0 /\ i - 1 \in 0..n /\ f[i - 1] \in V
    BY <1>1
  <2>2. \A i \in 1..n : f[i] = IF timerlist[i] \in P THEN f[i - 1]
                               ELSE Append(f[i - 1], timerlist[i])
    BY <1>1, <1>4, <2>1 DEF G, Steps
  <2>3. \A i \in 0..n : i = 0 \/ i \in 1..n
    BY <1>1
  <2>4. \A i \in 0..n : f[i] =
             IF i = 0 THEN << >>
             ELSE IF timerlist[i] \in P THEN f[i - 1]
             ELSE Append(f[i - 1], timerlist[i])
    BY <1>4, <2>2, <2>3 DEF Steps
  <2> QED
    BY <2>4
<1>6. rest = [i \in 0..n |->
              IF i = 0 THEN << >>
              ELSE IF timerlist[i] \in P THEN rest[i - 1]
              ELSE Append(rest[i - 1], timerlist[i])]
  BY <1>5
<1>7. Without(P) = rest[n]
  BY DEF Without, n
<1> HIDE DEF rest
<1> DEFINE Right(i, w) ==
      /\ w \in Seq(Timer)
      /\ \A t : (\E j \in DOMAIN w : w[j] = t)
                  <=> t \notin P /\ \E j \in 1..i : timerlist[j] = t
      /\ \A j, k \in DOMAIN w : w[j] = w[k] => j = k
<1>8. Right(0, rest[0])
  BY <1>1, <1>6
<1>9. \A i \in 0..(n - 1) : Right(i, rest[i]) => Right(i + 1, rest[i + 1])
  <2> SUFFICES ASSUME NEW i \in 0..(n - 1), Right(i, rest[i])
               PROVE  Right(i + 1, rest[i + 1])
    OBVIOUS
  <2> DEFINE w == rest[i]
             t0 == timerlist[i + 1]
  <2>1. /\ i + 1 \in 1..n /\ i + 1 \in 0..n /\ i + 1 # 0 /\ (i + 1) - 1 = i
        /\ t0 \in Timer
        /\ \A j \in 1..(i + 1) : j \in 1..i \/ j = i + 1
        /\ \A j \in 1..i : j \in 1..(i + 1) /\ j \in 1..n /\ j # i + 1
    BY <1>1
  <2>2. rest[i + 1] = IF t0 \in P THEN w ELSE Append(w, t0)
    BY <1>6, <2>1
  <2>3. \A j \in 1..i : timerlist[j] # t0
    BY <2>1, ListFacts DEF TimerOnce, n
  <2>4. CASE t0 \in P
    <3>1. \A t : (\E j \in 1..(i + 1) : timerlist[j] = t) <=>
                   (\E j \in 1..i : timerlist[j] = t) \/ t = t0
      BY <2>1
    <3> QED
      BY <2>2, <2>4, <3>1
  <2>5. CASE t0 \notin P
    <3>1. \A t : (\E j \in 1..(i + 1) : timerlist[j] = t) <=>
                   (\E j \in 1..i : timerlist[j] = t) \/ t = t0
      BY <2>1
    <3>2. rest[i + 1] = Append(w, t0) /\ w \in Seq(Timer)
      BY <2>2, <2>5
    <3> DEFINE v == rest[i + 1]
               m == Len(w)
    <3>3. /\ v \in Seq(Timer) /\ m \in Nat /\ DOMAIN w = 1..m /\ DOMAIN v = 1..(m + 1)
          /\ \A j \in 1..m : v[j] = w[j]
          /\ v[m + 1] = t0
      BY <2>1, <3>2, AppendProperties
    <3>4. \A t : (\E j \in DOMAIN v : v[j] = t) <=> (\E j \in DOMAIN w : w[j] = t) \/ t = t0
      <4>1. \A j \in 1..(m + 1) : j \in 1..m \/ j = m + 1
        BY <3>3
      <4>2. m + 1 \in 1..(m + 1) /\ \A j \in 1..m : j \in 1..(m + 1)
        BY <3>3
      <4> HIDE DEF v, m
      <4> QED
        BY <3>3, <4>1, <4>2
    <3>5. \A j \in DOMAIN w : w[j] # t0
      BY <2>3
    <3>6. \A j, k \in DOMAIN v : v[j] = v[k] => j = k
      <4>1. \A j \in 1..(m + 1) : j \in 1..m \/ j = m + 1
        BY <3>3
      <4> HIDE DEF v, m
      <4> QED
        BY <3>3, <3>5, <4>1
    <3>7. \A t : (\E j \in DOMAIN v : v[j] = t)
                  <=> t \notin P /\ \E j \in 1..(i + 1) : timerlist[j] = t
      BY <2>5, <3>1, <3>4
    <3> QED
      BY <3>3, <3>6, <3>7
  <2> QED
    BY <2>4, <2>5
<1>10. Right(n, rest[n])
  <2> DEFINE S == {i \in 0..n : Right(i, rest[i])}
  <2>1. 0 \in S
    <3>1. 0 \in 0..n
      BY <1>1
    <3> HIDE DEF Right
    <3> QED
      BY <1>8, <3>1
  <2>2. \A i \in 0..(n - 1) : i \in S => i + 1 \in S
    <3>1. \A i \in 0..(n - 1) : i + 1 \in 0..n
      BY <1>1
    <3> HIDE DEF Right
    <3> QED
      BY <1>9, <3>1
  <2> HIDE DEF S, Right
  <2>3. \A i \in 0..n : i \in S
    BY <1>1, <2>1, <2>2, IntervalInduction
  <2>4. n \in 0..n
    BY <1>1
  <2> QED
    BY <2>3, <2>4 DEF S
<1>11. ToSet(rest[n]) = ToSet(timerlist) \ P
  <2>1. DOMAIN timerlist = 1..n
    BY ListFacts DEF n
  <2>2. \A t : t \in ToSet(rest[n]) <=> \E j \in DOMAIN rest[n] : rest[n][j] = t
    BY DEF ToSet
  <2>3. \A t : t \in ToSet(timerlist) <=> \E j \in 1..n : timerlist[j] = t
    BY <2>1 DEF ToSet
  <2>4. \A t : t \in ToSet(rest[n]) <=> t \in ToSet(timerlist) /\ t \notin P
    BY <1>10, <2>2, <2>3
  <2> QED
    BY <2>4
<1> QED
  BY <1>7, <1>10, <1>11

-----------------------------------------------------------------------------
(* The calls. *)

LEMMA CallCases ==
  ASSUME cpu \in Call
  PROVE  \/ cpu = Idle /\ cpu.k = "idle"
         \/ cpu.k = "add" /\ cpu.t \in Timer /\ cpu.p \in Proc
         \/ cpu.k = "read" /\ cpu.again \in BOOLEAN
         \/ cpu.k = "store" /\ cpu.value \in 0..(ClockMod - 1) /\ cpu.again \in BOOLEAN
         \/ cpu.k = "scan" /\ cpu.i \in 1..(Cardinality(Timer) + 1)
BY DEF Call, Idle, Add, Read, Store, Scan

LEMMA CallTypes ==
  /\ Idle \in Call /\ Idle.k = "idle"
  /\ \A t \in Timer, p \in Proc : /\ Add(t, p) \in Call /\ Add(t, p).k = "add"
                                  /\ Add(t, p).t = t /\ Add(t, p).p = p
  /\ \A b \in BOOLEAN : Read(b) \in Call /\ Read(b).k = "read" /\ Read(b).again = b
  /\ \A v \in 0..(ClockMod - 1), b \in BOOLEAN :
       /\ Store(v, b) \in Call /\ Store(v, b).k = "store"
       /\ Store(v, b).value = v /\ Store(v, b).again = b
  /\ \A i \in 1..(Cardinality(Timer) + 1) :
       Scan(i) \in Call /\ Scan(i).k = "scan" /\ Scan(i).i = i
<1>1. Idle \in Call /\ Idle.k = "idle"
  BY DEF Call, Idle
<1>2. ASSUME NEW t \in Timer, NEW p \in Proc
      PROVE  Add(t, p) \in Call /\ Add(t, p).k = "add" /\ Add(t, p).t = t /\ Add(t, p).p = p
  BY DEF Call, Add
<1>3. ASSUME NEW b \in BOOLEAN
      PROVE  Read(b) \in Call /\ Read(b).k = "read" /\ Read(b).again = b
  BY DEF Call, Read
<1>4. ASSUME NEW v \in 0..(ClockMod - 1), NEW b \in BOOLEAN
      PROVE  /\ Store(v, b) \in Call /\ Store(v, b).k = "store"
             /\ Store(v, b).value = v /\ Store(v, b).again = b
  BY DEF Call, Store
<1>5. ASSUME NEW i \in 1..(Cardinality(Timer) + 1)
      PROVE  Scan(i) \in Call /\ Scan(i).k = "scan" /\ Scan(i).i = i
  BY DEF Call, Scan
<1> QED
  BY <1>1, <1>2, <1>3, <1>4, <1>5

LEMMA RunningTimers ==
  ASSUME TypeOK, TimerOnce
  PROVE  /\ Running \subseteq Timer /\ ToSet(timerlist) \subseteq Running
         /\ cpu.k # "add" => Running = ToSet(timerlist)
         /\ cpu.k = "add" => Running = ToSet(timerlist) \cup {cpu.t}
BY ListFacts, CallCases DEF TypeOK, Running

-----------------------------------------------------------------------------
(* Initially, and in the calls of the processes. *)

LEMMA InitIInv == Init => IInv
<1> SUFFICES ASSUME Init PROVE IInv
  OBVIOUS
<1>1. /\ timerlist = << >> /\ DOMAIN timerlist = {} /\ ToSet(timerlist) = {}
      /\ timerlist \in Seq(Timer)
  BY DEF Init, ToSet
<1>2. 0 \in 0..(ClockMod - 1) /\ -MaxLag - 1 \in Int /\ -MaxLag - 1 < -MaxLag
  BY Sizes
<1>3. cpu = Idle /\ cpu.k = "idle" /\ cpu \in Call /\ lap = "fresh"
  BY CallTypes DEF Init
<1>4. queue \in Seq(Event) /\ Len(queue) <= NumEvents
  BY Sizes DEF Init
<1>5. /\ clock \in 0..(ClockMod - 1)
      /\ start \in [Timer -> 0..(ClockMod - 1)] /\ interval \in [Timer -> 0..(ClockMod - 1)]
      /\ owner \in [Timer -> Proc \cup {NULL}] /\ left \in [Timer -> Int]
      /\ next_expiration \in 0..(ClockMod - 1) /\ needspoll \in BOOLEAN
      /\ alive \subseteq Proc /\ exiting \subseteq Proc /\ rearmed \subseteq Timer
  BY <1>2 DEF Init
<1>6. TypeOK
  BY <1>1, <1>3, <1>4, <1>5 DEF TypeOK
<1>7. TimerOnce /\ Owners /\ CallerRuns
  BY <1>1, <1>3 DEF TimerOnce, Owners, CallerRuns
<1>8. Clocked
  <2>1. \A t \in Timer : left[t] = -MaxLag - 1 /\ ~(left[t] >= -MaxLag) /\ interval[t] = 0
    BY Sizes DEF Init
  <2>2. Running = {}
    BY <1>1, <1>3 DEF Running
  <2> QED
    BY <2>1, <2>2 DEF Clocked
<1>9. NextIsEarliest /\ NextIsEarly
  BY <1>1, <1>3 DEF NextIsEarliest, NextIsEarly, Earliest
<1>10. PollAsked
  BY <1>1, <1>3 DEF PollAsked, Overlooked, Stopping
<1> QED
  BY <1>6, <1>7, <1>8, <1>9, <1>10 DEF IInv

\* A timer gets a new start, and a poll is asked for.
LEMMA BeginKeeps ==
  ASSUME IInv, NEW p \in alive \cup exiting, NEW t \in Timer, NEW from \in 0..(ClockMod - 1),
         NEW length \in Interval, NEW ticks \in Int, Begin(p, t, from, length, ticks),
         -MaxLag <= ticks, ticks <= length,
         from + length - (clock + ticks) \in {0, ClockMod}
  PROVE  IInv'
<1>1. /\ start' = [start EXCEPT ![t] = from]
      /\ interval' = [interval EXCEPT ![t] = length]
      /\ left' = [left EXCEPT ![t] = ticks]
      /\ needspoll' = TRUE /\ cpu' = Add(t, p)
      /\ UNCHANGED <<clock, timerlist, owner, next_expiration, queue, lap>>
      /\ UNCHANGED <<alive, exiting, rearmed>>
  BY DEF Begin, procVars
<1>2. /\ cpu' \in Call /\ cpu'.k = "add" /\ cpu'.t = t /\ cpu'.p = p
  BY <1>1, CallTypes DEF IInv, TypeOK
<1>3. TypeOK'
  BY <1>1, <1>2, Sizes DEF IInv, TypeOK
<1>4. TimerOnce' /\ Owners' /\ CallerRuns'
  BY <1>1, <1>2 DEF IInv, TimerOnce, Owners, CallerRuns
<1>5. Clocked'
  <2>1. /\ start \in [Timer -> 0..(ClockMod - 1)] /\ interval \in [Timer -> 0..(ClockMod - 1)]
        /\ left \in [Timer -> Int]
    BY DEF IInv, TypeOK
  <2>2. Running' \subseteq ToSet(timerlist) \cup {t}
    BY <1>1, <1>2, <1>3, <1>4 DEF Running
  <2>3. \A x \in Timer : left'[x] >= -MaxLag => Started(x)'
    BY <1>1, <2>1 DEF IInv, Clocked, Started
  <2>4. \A x \in Timer : interval'[x] # 0 => interval'[x] \in Interval
    BY <1>1, <2>1 DEF IInv, Clocked
  <2>5. \A x \in Running' : left'[x] >= -MaxLag
    BY <1>1, <2>1, <2>2, RunningTimers, ListFacts DEF IInv, Clocked
  <2> QED
    BY <2>3, <2>4, <2>5 DEF Clocked
<1>6. NextIsEarliest' /\ NextIsEarly' /\ PollAsked'
  BY <1>1, <1>2 DEF NextIsEarliest, NextIsEarly, PollAsked, Stopping
<1> QED
  BY <1>3, <1>4, <1>5, <1>6 DEF IInv

LEMMA SetKeeps ==
  ASSUME IInv, NEW p \in Proc, NEW t \in Timer,
         \/ \E length \in Interval : EtimerSet(p, t, length)
         \/ EtimerRestart(p, t) \/ EtimerReset(p, t)
  PROVE  IInv'
<1>1. /\ clock \in 0..(ClockMod - 1) /\ start[t] \in 0..(ClockMod - 1)
      /\ interval[t] \in 0..(ClockMod - 1) /\ left[t] \in Int
      /\ interval[t] # 0 => interval[t] \in Interval
      /\ left[t] >= -MaxLag => Started(t)
  BY DEF IInv, TypeOK, Clocked
<1>2. ASSUME NEW length \in Interval, p \in alive \cup exiting, Begin(p, t, clock, length, length)
      PROVE  IInv'
  <2>1. length \in Int /\ -MaxLag <= length /\ length <= length /\ clock + length - (clock + length) = 0
    BY <1>1, Sizes
  <2> QED
    BY <1>1, <1>2, <2>1, BeginKeeps
<1>3. CASE \E length \in Interval : EtimerSet(p, t, length)
  BY <1>2, <1>3 DEF EtimerSet, MayCall
<1>4. CASE EtimerRestart(p, t)
  BY <1>1, <1>2, <1>4 DEF EtimerRestart, MayCall
<1>5. CASE EtimerReset(p, t)
  <2>1. /\ p \in alive \cup exiting /\ left[t] \in (-MaxLag)..0
        /\ Begin(p, t, (start[t] + interval[t]) % ClockMod, interval[t], left[t] + interval[t])
    BY <1>5 DEF EtimerReset, MayCall
  <2>2. /\ interval[t] \in Interval /\ interval[t] + MaxLag + 1 < ClockMod
        /\ start[t] + interval[t] - (clock + left[t]) \in {0, ClockMod}
    BY <1>1, <2>1, Sizes DEF Started
  <2> DEFINE a == start[t] + interval[t]
             from == a % ClockMod
  <2>3. /\ a \in (-ClockMod)..(2 * ClockMod - 1) /\ ~(a < 0)
        /\ a - (clock + left[t]) \in {0, ClockMod}
    BY <1>1, <2>2, Sizes
  <2> HIDE DEF a
  <2>4. from = IF a < ClockMod THEN a ELSE a - ClockMod
    BY <2>3, ModRange, Sizes
  <2> HIDE DEF from
  <2>5. /\ from \in 0..(ClockMod - 1)
        /\ from + interval[t] - (clock + (left[t] + interval[t])) \in {0, ClockMod}
    <3>1. from = a \/ from = a - ClockMod
      BY <2>4
    <3>2. from \in 0..(ClockMod - 1)
      BY <2>3, <2>4, Sizes
    <3>3. /\ a \in Int /\ ClockMod \in Int /\ interval[t] \in Int
          /\ clock \in 0..(ClockMod - 1) /\ left[t] \in (-MaxLag)..0
          /\ MaxLag \in Nat /\ MaxLag < ClockMod
      BY <1>1, <2>1, <2>2, <2>3, Sizes
    <3>4. from - (clock + left[t]) \in {0, ClockMod, -ClockMod}
      BY <2>3, <3>1, <3>3
    <3>5. from - (clock + left[t]) # -ClockMod
      BY <3>2, <3>3
    <3> QED
      BY <3>2, <3>3, <3>4, <3>5
  <2>6. left[t] + interval[t] \in Int /\ -MaxLag <= left[t] + interval[t] /\ left[t] + interval[t] <= interval[t]
    BY <1>1, <2>1, Sizes
  <2> QED
    BY <2>1, <2>2, <2>5, <2>6, BeginKeeps DEF from, a
<1> QED
  BY <1>3, <1>4, <1>5

-----------------------------------------------------------------------------
(* update_time. *)

LEMMA AddTimerKeeps == IInv /\ AddTimer => IInv'
<1> SUFFICES ASSUME IInv, AddTimer PROVE IInv'
  OBVIOUS
<1> DEFINE t == cpu.t
           on == owner[t] # NULL /\ Listed(t)
<1>1. /\ cpu.k = "add" /\ t \in Timer /\ cpu.p \in alive \cup exiting /\ cpu.p \in Proc
      /\ TypeOK /\ TimerOnce /\ needspoll = TRUE
      /\ owner \in [Timer -> Proc \cup {NULL}] /\ rearmed \subseteq Timer
  BY CallCases DEF AddTimer, IInv, TypeOK, CallerRuns, PollAsked
<1>2. /\ IF on THEN UNCHANGED <<owner, timerlist, rearmed>>
              ELSE /\ owner' = [owner EXCEPT ![t] = cpu.p]
                   /\ timerlist' = <<t>> \o timerlist
                   /\ rearmed' = IF cpu.p \in exiting THEN rearmed \cup {t} ELSE rearmed \ {t}
      /\ cpu' = Read(FALSE)
      /\ UNCHANGED <<clock, start, interval, left, next_expiration, needspoll, queue, lap>>
      /\ UNCHANGED <<alive, exiting>>
  BY DEF AddTimer, PutOnList
<1>3. cpu' \in Call /\ cpu'.k = "read" /\ cpu'.again = FALSE
  BY <1>2, CallTypes
<1>4. ~on => ~Listed(t)
  BY <1>1, NullAssumption DEF IInv, Owners, Listed
<1> HIDE DEF t, on
<1>5. /\ timerlist' \in Seq(Timer) /\ TimerOnce'
      /\ ToSet(timerlist') = ToSet(timerlist) \cup {t}
      /\ owner' \in [Timer -> Proc \cup {NULL}] /\ rearmed' \subseteq Timer
      /\ Owners'
  <2>1. CASE on
    BY <1>1, <1>2, <2>1 DEF IInv, TypeOK, TimerOnce, Owners, Listed, on
  <2>2. CASE ~on
    <3> DEFINE m == Len(timerlist)
               w == timerlist'
    <3>1. /\ timerlist \in Seq(Timer) /\ m \in Nat /\ DOMAIN timerlist = 1..m
          /\ <<t>> \in Seq(Timer) /\ Len(<<t>>) = 1 /\ <<t>>[1] = t
          /\ w = <<t>> \o timerlist
      BY <1>1, <1>2, <2>2, ListFacts
    <3>2. /\ w \in Seq(Timer) /\ DOMAIN w = 1..(m + 1) /\ w[1] = t
          /\ \A i \in 1..m : w[i + 1] = timerlist[i]
      BY <3>1, ConcatProperties
    <3> HIDE DEF w
    <3>3. \A i \in 1..(m + 1) : i = 1 \/ (i - 1 \in 1..m /\ w[i] = timerlist[i - 1])
      <4> SUFFICES ASSUME NEW i \in 1..(m + 1), i # 1
                   PROVE  i - 1 \in 1..m /\ w[i] = timerlist[i - 1]
        OBVIOUS
      <4>1. i - 1 \in 1..m /\ (i - 1) + 1 = i
        BY <3>1
      <4> QED
        BY <3>2, <4>1
    <3>4. 1 \in 1..(m + 1) /\ \A i \in 1..m : i + 1 \in 1..(m + 1)
      BY <3>1
    <3>5. \A i \in 1..m : timerlist[i] # t
      BY <1>4, <2>2, <3>1 DEF Listed, ToSet
    <3> HIDE DEF m
    <3>6. \A i, j \in 1..(m + 1) : w[i] = w[j] => i = j
      <4> SUFFICES ASSUME NEW i \in 1..(m + 1), NEW j \in 1..(m + 1), w[i] = w[j]
                   PROVE  i = j
        OBVIOUS
      <4>1. CASE i = 1 \/ j = 1
        BY <3>2, <3>3, <3>5, <4>1
      <4>2. CASE i # 1 /\ j # 1
        <5>1. /\ i - 1 \in DOMAIN timerlist /\ j - 1 \in DOMAIN timerlist
              /\ timerlist[i - 1] = timerlist[j - 1]
          BY <3>1, <3>3, <4>2
        <5>2. i - 1 = j - 1
          BY <1>1, <5>1 DEF TimerOnce
        <5> QED
          BY <3>1, <5>2
      <4> QED
        BY <4>1, <4>2
    <3>7. ToSet(w) = ToSet(timerlist) \cup {t}
      <4>1. \A x : x \in ToSet(w) <=> \E i \in 1..(m + 1) : w[i] = x
        BY <3>2 DEF ToSet
      <4>2. \A x : x \in ToSet(timerlist) <=> \E i \in 1..m : timerlist[i] = x
        BY <3>1 DEF ToSet
      <4>3. \A x : (\E i \in 1..(m + 1) : w[i] = x) <=> x = t \/ \E i \in 1..m : timerlist[i] = x
        BY <3>2, <3>3, <3>4
      <4> QED
        BY <4>1, <4>2, <4>3
    <3>8. owner' = [owner EXCEPT ![t] = cpu.p]
      BY <1>2, <2>2
    <3>9. owner' \in [Timer -> Proc \cup {NULL}]
      BY <1>1, <3>8
    <3>10. rearmed' \subseteq Timer
      BY <1>1, <1>2, <2>2
    <3>11. ASSUME NEW x \in ToSet(timerlist) \cup {t}
           PROVE  owner'[x] \in Proc /\ (owner'[x] \in alive \/ x \in rearmed')
      <4>1. CASE x = t
        BY <1>1, <1>2, <2>2, <3>8, <4>1
      <4>2. CASE x # t
        BY <1>1, <1>2, <2>2, <3>8, <4>2, ListFacts DEF IInv, Owners
      <4> QED
        BY <4>1, <4>2
    <3>12. Owners'
      BY <1>2, <3>7, <3>11 DEF w, Owners
    <3> QED
      BY <3>2, <3>6, <3>7, <3>9, <3>10, <3>12 DEF w, TimerOnce
  <2> QED
    BY <2>1, <2>2
<1>6. TypeOK'
  BY <1>1, <1>2, <1>3, <1>5 DEF TypeOK
<1>7. Owners' /\ CallerRuns'
  BY <1>3, <1>5 DEF CallerRuns
<1>8. Clocked'
  <2>1. Running' = ToSet(timerlist') /\ Running = ToSet(timerlist) \cup {t}
    BY <1>1, <1>3, RunningTimers DEF t, Running
  <2> QED
    BY <1>2, <1>5, <2>1 DEF IInv, Clocked, Started
<1>9. NextIsEarliest' /\ NextIsEarly' /\ PollAsked'
  BY <1>1, <1>2, <1>3 DEF NextIsEarliest, NextIsEarly, PollAsked, Stopping
<1> QED
  BY <1>5, <1>6, <1>7, <1>8, <1>9 DEF IInv

\* A step that leaves the list, the clock and what is known of the timers alone.
LEMMA RestKeeps ==
  ASSUME IInv, UNCHANGED <<clock, timerlist, timerVars, procVars>>,
         cpu' \in Call, cpu'.k # "add",
         next_expiration' \in 0..(ClockMod - 1), needspoll' \in BOOLEAN,
         lap' \in {"fresh", "this", "next", "over"},
         queue' \in Seq(Event), Len(queue') <= NumEvents,
         NextIsEarliest', NextIsEarly', PollAsked'
  PROVE  IInv'
<1>1. UNCHANGED <<start, interval, owner, left, alive, exiting, rearmed>>
  BY DEF timerVars, procVars
<1>2. TypeOK'
  BY <1>1 DEF IInv, TypeOK
<1>3. TimerOnce' /\ Owners' /\ CallerRuns'
  BY <1>1 DEF IInv, TimerOnce, Owners, CallerRuns
<1>4. Clocked'
  <2>1. Running' \subseteq Running
    BY DEF Running
  <2> QED
    BY <1>1, <2>1 DEF IInv, Clocked, Started
<1> QED
  BY <1>2, <1>3, <1>4 DEF IInv

\* The nearest timer is the earliest of those that are not overdue.
LEMMA NearestIsEarliest ==
  ASSUME IInv, timerlist # << >>
  PROVE  Nearest \in 0..(ClockMod - 1) /\ Earliest(Nearest)
<1> DEFINE L == ToSet(timerlist)
           D == {Distance(t) : t \in L}
           u == CHOOSE t \in L : \A other \in L : Distance(t) <= Distance(other)
<1>1. L # {} /\ L \subseteq Timer /\ \A t \in L : left[t] >= -MaxLag
  BY ListFacts, RunningTimers DEF IInv, Clocked
<1>2. \A t \in L : /\ left[t] \in (-MaxLag)..(ClockMod - MaxLag - 2)
                   /\ Distance(t) = IF Overdue(t) /\ left[t] # 0 THEN left[t] + ClockMod ELSE left[t]
                   /\ Distance(t) \in 0..(ClockMod - 1)
  BY <1>1, TrueTime DEF IInv
<1>3. \E t \in L : \A other \in L : Distance(t) <= Distance(other)
  <2>1. D \in SUBSET Nat /\ D # {}
    BY <1>1, <1>2
  <2> HIDE DEF D
  <2>2. PICK d \in D : \A e \in D : d <= e
    BY <2>1, NatMin
  <2> QED
    BY <2>2 DEF D
<1>4. u \in L /\ \A other \in L : Distance(u) <= Distance(other)
  BY <1>3
<1>5. Nearest = (clock + Distance(u)) % ClockMod
  BY DEF Nearest
<1> HIDE DEF L, u, D
<1> DEFINE a == clock + Distance(u)
<1>6. clock \in 0..(ClockMod - 1)
  BY DEF IInv, TypeOK
<1>7. a \in 0..(2 * ClockMod - 1) /\ a \in (-ClockMod)..(2 * ClockMod - 1)
  BY <1>2, <1>4, <1>6, Sizes
<1>8. a = clock + left[u] \/ a = clock + left[u] + ClockMod
  BY <1>2, <1>4, <1>6, Sizes
<1> HIDE DEF a
<1>9. Nearest = IF a < ClockMod THEN a ELSE a - ClockMod
  <2>1. a % ClockMod = IF a < 0 THEN a + ClockMod ELSE IF a < ClockMod THEN a ELSE a - ClockMod
    BY <1>7, ModRange, Sizes
  <2>2. Nearest = a % ClockMod
    BY <1>5 DEF a
  <2>3. ~(a < 0)
    BY <1>7
  <2> QED
    BY <2>1, <2>2, <2>3
<1>10. Nearest \in 0..(ClockMod - 1)
  BY <1>7, <1>9, Sizes
<1>11. clock + left[u] - Nearest \in {-ClockMod, 0, ClockMod}
  <2>1. /\ left[u] \in Int /\ clock \in Int /\ ClockMod \in Int
        /\ Nearest = a \/ Nearest = a - ClockMod
    BY <1>2, <1>4, <1>6, <1>9, Sizes
  <2>2. a \in Int /\ (a < ClockMod => Nearest = a) /\ (~(a < ClockMod) => Nearest = a - ClockMod)
    BY <1>7, <1>9
  <2>3. CASE a = clock + left[u]
    BY <2>1, <2>3
  <2>4. CASE a = clock + left[u] + ClockMod
    <3>1. clock + left[u] - a = -ClockMod
      BY <2>1, <2>4
    <3> QED
      BY <2>1, <2>4, <3>1
  <2> QED
    BY <1>8, <2>3, <2>4
<1>12. \A t \in L : ~Overdue(t) => left[u] <= left[t]
  <2> SUFFICES ASSUME NEW t \in L, ~Overdue(t) PROVE left[u] <= left[t]
    OBVIOUS
  <2>1. Distance(u) <= left[t]
    BY <1>2, <1>4
  <2>2. left[u] <= Distance(u)
    BY <1>2, <1>4, Sizes
  <2> QED
    BY <1>2, <1>4, <2>1, <2>2
<1> QED
  BY <1>4, <1>10, <1>11, <1>12 DEF Earliest, L

LEMMA UpdateReadKeeps == IInv /\ UpdateRead => IInv'
<1> SUFFICES ASSUME IInv, UpdateRead PROVE IInv'
  OBVIOUS
<1> DEFINE value == IF timerlist = << >> THEN 0 ELSE Nearest
<1>1. /\ cpu.k = "read" /\ cpu' = Store(value, cpu.again)
      /\ UNCHANGED <<clock, timerlist, timerVars, next_expiration, needspoll, queue, procVars, lap>>
  BY DEF UpdateRead
<1>2. value \in 0..(ClockMod - 1) /\ Earliest(value)
  <2>1. CASE timerlist = << >>
    BY <2>1, Sizes DEF Earliest
  <2>2. CASE timerlist # << >>
    BY <2>2, NearestIsEarliest
  <2> QED
    BY <2>1, <2>2
<1> HIDE DEF value
<1>3. /\ cpu.again \in BOOLEAN /\ cpu' \in Call /\ cpu'.k = "store"
      /\ cpu'.value = value /\ cpu'.again = cpu.again
  BY <1>1, <1>2, CallCases, CallTypes DEF IInv, TypeOK
<1>4. UNCHANGED <<start, interval, owner, left>>
  BY <1>1 DEF timerVars
<1>5. NextIsEarliest'
  BY <1>1, <1>2, <1>3, <1>4 DEF NextIsEarliest, Earliest, Overdue
<1>6. NextIsEarly'
  BY <1>1, <1>3, <1>4 DEF IInv, NextIsEarly, Stopping, Overdue
<1>7. PollAsked'
  BY <1>1, <1>3, <1>4 DEF IInv, PollAsked, Stopping, Overlooked
<1> QED
  BY <1>1, <1>3, <1>5, <1>6, <1>7, RestKeeps DEF IInv, TypeOK

LEMMA UpdateStoreKeeps == IInv /\ UpdateStore => IInv'
<1> SUFFICES ASSUME IInv, UpdateStore PROVE IInv'
  OBVIOUS
<1>1. /\ cpu.k = "store" /\ next_expiration' = cpu.value
      /\ cpu' = IF cpu.again THEN Scan(1) ELSE Idle
      /\ lap' = IF lap = "over" /\ ~cpu.again /\ Overlooked THEN lap ELSE "fresh"
      /\ UNCHANGED <<clock, timerlist, timerVars, needspoll, queue, procVars>>
  BY DEF UpdateStore
<1>2. cpu.again \in BOOLEAN /\ cpu.value \in 0..(ClockMod - 1)
  BY <1>1, CallCases DEF IInv, TypeOK
<1>3. UNCHANGED <<start, interval, owner, left>>
  BY <1>1 DEF timerVars
<1>4. /\ cpu' \in Call /\ cpu'.k = IF cpu.again THEN "scan" ELSE "idle"
      /\ cpu.again => cpu'.i = 1
  <2>1. 1 \in 1..(Cardinality(Timer) + 1)
    BY TimerAssumption, FS_CardinalityType
  <2> QED
    BY <1>1, <1>2, <2>1, CallTypes
<1>5. NextIsEarliest'
  BY <1>1, <1>3, <1>4 DEF IInv, NextIsEarliest, Earliest, Overdue
<1>6. NextIsEarly'
  BY <1>1, <1>4 DEF NextIsEarly, Stopping
<1>7. PollAsked'
  <2>1. CASE cpu.again
    <3>1. \A j \in DOMAIN timerlist : ~(j < 1)
      BY ListFacts DEF IInv
    <3> QED
      BY <1>1, <1>4, <2>1, <3>1 DEF PollAsked, Stopping
  <2>2. CASE ~cpu.again
    <3>1. lap' # "over" => ~Overlooked
      BY <1>1, <2>2 DEF IInv, PollAsked, Stopping, Overlooked
    <3>2. Overlooked' <=> Overlooked
      BY <1>1, <1>3 DEF Overlooked
    <3> QED
      BY <1>1, <1>4, <2>2, <3>1, <3>2 DEF PollAsked, Stopping
  <2> QED
    BY <2>1, <2>2
<1>8. lap' \in {"fresh", "this", "next", "over"}
  BY <1>1
<1> QED
  BY <1>1, <1>2, <1>4, <1>5, <1>6, <1>7, <1>8, RestKeeps DEF IInv, TypeOK

-----------------------------------------------------------------------------
(* Timers are taken away. *)

\* Of the timers that are left, none comes before next_expiration in its lap.
LEMMA LapLeftRight ==
  ASSUME IInv, cpu.k = "idle", NEW l, ToSet(l) \subseteq ToSet(timerlist),
         NEW t \in ToSet(l), ~Overdue(t)
  PROVE  /\ LapLeft(l) = "this" => next_expiration <= clock + left[t]
         /\ LapLeft(l) = "next" => next_expiration + ClockMod <= clock + left[t]
<1>1. /\ \A x \in ToSet(timerlist) : left[x] \in (-MaxLag)..(ClockMod - MaxLag - 2)
      /\ clock \in 0..(ClockMod - 1) /\ next_expiration \in 0..(ClockMod - 1)
  BY ListFacts, RunningTimers, TrueTime DEF IInv, Clocked, TypeOK
<1>2. CASE lap # "fresh"
  BY <1>2 DEF LapLeft, IInv, NextIsEarly
<1>3. CASE lap = "fresh"
  <2>1. PICK u \in ToSet(timerlist) :
          /\ clock + left[u] - next_expiration \in {-ClockMod, 0, ClockMod}
          /\ left[u] <= left[t]
    BY <1>3, ListFacts DEF IInv, NextIsEarliest, Earliest
  <2>2. ASSUME NEW x \in ToSet(timerlist), NEW n \in {next_expiration, next_expiration + ClockMod},
               clock + left[x] = n
        PROVE  n <= clock + left[t]
    <3>1. left[u] - left[x] \in {-2 * ClockMod, -ClockMod, 0, ClockMod}
      BY <1>1, <2>1, <2>2, Sizes
    <3>2. left[u] = left[x]
      BY <1>1, <3>1, Sizes
    <3> QED
      BY <1>1, <2>1, <2>2, <3>2, Sizes
  <2>3. LapLeft(l) = "this" => \E x \in ToSet(timerlist) : clock + left[x] = next_expiration
    BY <1>3 DEF LapLeft
  <2>4. LapLeft(l) = "next" => \E x \in ToSet(timerlist) : clock + left[x] = next_expiration + ClockMod
    BY <1>3 DEF LapLeft
  <2> QED
    BY <2>2, <2>3, <2>4
<1> QED
  BY <1>2, <1>3

LEMMA LapLeftCases ==
  ASSUME NEW l
  PROVE  /\ lap \in {"fresh", "this", "next", "over"} =>
              LapLeft(l) \in {"fresh", "this", "next", "over"}
         /\ LapLeft(l) = "fresh" => l = << >>
         /\ lap = "over" => LapLeft(l) = "over" \/ l = << >>
BY DEF LapLeft

LEMMA EtimerStopKeeps ==
  ASSUME IInv, NEW p \in Proc, NEW t \in Timer, EtimerStop(p, t)
  PROVE  IInv'
<1>1. /\ cpu = Idle /\ cpu.k = "idle"
      /\ timerlist' = Without({t}) /\ owner' = [owner EXCEPT ![t] = NULL]
      /\ cpu' = IF Listed(t) THEN Read(FALSE) ELSE Idle
      /\ left' = [left EXCEPT ![t] = -MaxLag - 1]
      /\ lap' = IF Listed(t) THEN LapLeft(timerlist') ELSE lap
      /\ rearmed' = rearmed \ {t}
      /\ UNCHANGED <<clock, start, interval, next_expiration, needspoll, queue, alive, exiting>>
  BY CallTypes DEF EtimerStop, MayCall
<1>2. /\ timerlist' \in Seq(Timer) /\ TimerOnce'
      /\ ToSet(timerlist') = ToSet(timerlist) \ {t}
  BY <1>1, WithoutList DEF IInv, TimerOnce
<1>3. /\ cpu' \in Call /\ cpu'.k = IF Listed(t) THEN "read" ELSE "idle"
      /\ Listed(t) => cpu'.again = FALSE
  BY <1>1, CallTypes
<1>4. /\ ToSet(timerlist) \subseteq Timer /\ left \in [Timer -> Int]
      /\ \A x \in Timer : x # t => left'[x] = left[x]
      /\ \A x \in ToSet(timerlist') : left'[x] = left[x] /\ owner'[x] = owner[x]
      /\ left'[t] = -MaxLag - 1
  BY <1>1, <1>2, ListFacts DEF IInv, TypeOK
<1>5. TypeOK'
  <2>1. lap' \in {"fresh", "this", "next", "over"}
    BY <1>1, LapLeftCases DEF IInv, TypeOK
  <2>2. left' \in [Timer -> Int]
    BY <1>1, <1>4, Sizes
  <2> QED
    BY <1>1, <1>2, <1>3, <2>1, <2>2 DEF IInv, TypeOK
<1>6. Owners' /\ CallerRuns'
  <2>1. Owners'
    <3>1. ASSUME NEW x \in ToSet(timerlist')
          PROVE  owner'[x] \in Proc /\ (owner'[x] \in alive' \/ x \in rearmed')
      <4>1. x \in ToSet(timerlist) /\ x # t /\ owner'[x] = owner[x]
        BY <1>2, <1>4, <3>1
      <4>2. owner[x] \in Proc /\ (owner[x] \in alive \/ x \in rearmed)
        BY <4>1 DEF IInv, Owners
      <4> QED
        BY <1>1, <4>1, <4>2
    <3> QED
      BY <3>1 DEF Owners
  <2>2. cpu'.k # "add"
    BY <1>3
  <2> QED
    BY <2>1, <2>2 DEF CallerRuns
<1>7. Clocked'
  <2>1. Running' \subseteq Running \ {t}
    BY <1>2, <1>3, RunningTimers DEF Running
  <2>2. ~(left'[t] >= -MaxLag)
    BY <1>4, Sizes
  <2>3. \A x \in Timer : left'[x] >= -MaxLag => Started(x)'
    BY <1>1, <1>4, <2>2 DEF IInv, Clocked, Started
  <2>4. \A x \in Running' : left'[x] >= -MaxLag
    BY <1>4, <2>1, RunningTimers DEF IInv, Clocked
  <2> QED
    BY <1>1, <2>3, <2>4 DEF IInv, Clocked
<1>8. NextIsEarliest'
  <2>1. CASE Listed(t)
    BY <1>3, <2>1 DEF NextIsEarliest
  <2>2. CASE ~Listed(t)
    <3>1. ToSet(timerlist') = ToSet(timerlist)
      BY <1>2, <2>2 DEF Listed
    <3>2. timerlist = << >> => timerlist' = << >>
      <4>1. timerlist' # << >> => ToSet(timerlist') # {}
        <5> DEFINE w == timerlist'
        <5>1. w \in Seq(Timer)
          BY <1>2
        <5> HIDE DEF w
        <5>2. w # << >> => w[1] \in ToSet(w)
          <6>1. w # << >> => 1 \in DOMAIN w
            BY <5>1, EmptySeq
          <6> QED
            BY <6>1 DEF ToSet
        <5> QED
          BY <5>2 DEF w
      <4> QED
        BY <3>1, <4>1, ListFacts DEF IInv
    <3>3. cpu'.k = "idle" /\ lap' = lap /\ next_expiration' = next_expiration /\ clock' = clock
      BY <1>1, <1>3, <2>2
    <3>4. Earliest(next_expiration) => Earliest(next_expiration)'
      BY <1>4, <3>1, <3>2, <3>3 DEF Earliest, Overdue
    <3> QED
      BY <1>1, <3>3, <3>4 DEF IInv, NextIsEarliest
  <2> QED
    BY <2>1, <2>2
<1>9. NextIsEarly'
  <2> SUFFICES ASSUME NEW x \in ToSet(timerlist'), ~Overdue(x)'
               PROVE  /\ lap' = "this" => next_expiration <= clock + left[x]
                      /\ lap' = "next" => next_expiration + ClockMod <= clock + left[x]
    BY <1>1, <1>4 DEF NextIsEarly
  <2>1. ~Overdue(x) /\ x \in ToSet(timerlist)
    BY <1>2, <1>4 DEF Overdue
  <2>2. CASE Listed(t)
    BY <1>1, <1>2, <2>1, <2>2, LapLeftRight
  <2>3. CASE ~Listed(t)
    BY <1>1, <2>1, <2>3 DEF IInv, NextIsEarly
  <2> QED
    BY <2>2, <2>3
<1>10. PollAsked'
  <2>1. lap' # "over" => lap # "over" \/ timerlist' = << >>
    BY <1>1, LapLeftCases
  <2>2. lap' # "over" => ~Overlooked'
    <3>1. CASE timerlist' = << >>
      BY <3>1 DEF Overlooked, ToSet
    <3>2. CASE lap # "over"
      <4>1. ~Overlooked
        BY <1>1, <3>2 DEF IInv, PollAsked
      <4> QED
        BY <1>1, <1>2, <1>4, <4>1 DEF Overlooked
    <3> QED
      BY <2>1, <3>1, <3>2
  <2>3. Listed(t) /\ lap' = "fresh" => timerlist' = << >>
    BY <1>1, LapLeftCases
  <2> QED
    BY <1>3, <2>2, <2>3 DEF PollAsked, Stopping
<1> QED
  BY <1>2, <1>5, <1>6, <1>7, <1>8, <1>9, <1>10 DEF IInv

LEMMA ProcessExitKeeps ==
  ASSUME IInv, NEW p \in Proc, ProcessExit(p)
  PROVE  IInv'
<1> DEFINE P == {t \in Timer : owner[t] = p}
<1>1. /\ cpu = Idle /\ cpu.k = "idle"
      /\ alive' = alive \ {p} /\ exiting' = exiting \cup {p}
      /\ rearmed' = {t \in rearmed : owner[t] # p}
      /\ timerlist' = Without(P)
      /\ left' = [t \in Timer |-> IF owner[t] = p THEN -MaxLag - 1 ELSE left[t]]
      /\ lap' = IF timerlist' = timerlist THEN lap ELSE LapLeft(timerlist')
      /\ UNCHANGED <<clock, start, interval, owner, next_expiration, needspoll, queue, cpu>>
  BY CallTypes DEF ProcessExit, MayCall
<1>2. /\ timerlist' \in Seq(Timer) /\ TimerOnce'
      /\ ToSet(timerlist') = ToSet(timerlist) \ P
  BY <1>1, WithoutList DEF IInv, TimerOnce
<1>3. /\ ToSet(timerlist) \subseteq Timer /\ left \in [Timer -> Int]
      /\ \A x \in ToSet(timerlist') : left'[x] = left[x] /\ owner[x] # p
      /\ \A x \in Timer : left'[x] = left[x] \/ left'[x] = -MaxLag - 1
  BY <1>1, <1>2, ListFacts DEF IInv, TypeOK
<1> HIDE DEF P
<1>4. TypeOK'
  <2>1. lap' \in {"fresh", "this", "next", "over"}
    BY <1>1, LapLeftCases DEF IInv, TypeOK
  <2>2. left' \in [Timer -> Int]
    BY <1>1, <1>3, Sizes
  <2> QED
    BY <1>1, <1>2, <2>1, <2>2 DEF IInv, TypeOK
<1>5. Owners' /\ CallerRuns'
  BY <1>1, <1>2, <1>3 DEF IInv, Owners, CallerRuns
<1>6. Clocked'
  <2>1. Running' = ToSet(timerlist') /\ Running = ToSet(timerlist)
    BY <1>1, RunningTimers DEF IInv, Running
  <2>2. \A x \in Timer : left'[x] >= -MaxLag => Started(x)'
    <3> SUFFICES ASSUME NEW x \in Timer, left'[x] >= -MaxLag PROVE Started(x)'
      OBVIOUS
    <3>1. left'[x] = left[x]
      BY <1>3, Sizes
    <3> QED
      BY <1>1, <3>1 DEF IInv, Clocked, Started
  <2>3. \A x \in Running' : left'[x] >= -MaxLag
    BY <1>2, <1>3, <2>1 DEF IInv, Clocked
  <2> QED
    BY <1>1, <2>2, <2>3 DEF IInv, Clocked
<1>7. timerlist' = << >> => ToSet(timerlist') = {}
  BY DEF ToSet
<1>8. NextIsEarliest'
  <2>1. CASE timerlist' = << >>
    BY <1>1, <2>1 DEF NextIsEarliest, Earliest
  <2>2. CASE timerlist' # << >> /\ lap' = "fresh"
    <3>1. timerlist' = timerlist /\ lap = "fresh"
      BY <1>1, <2>2, LapLeftCases
    <3> QED
      BY <1>1, <1>3, <3>1 DEF IInv, NextIsEarliest, Earliest, Overdue
  <2>3. CASE lap' # "fresh"
    BY <1>1, <2>3 DEF NextIsEarliest
  <2> QED
    BY <2>1, <2>2, <2>3
<1>9. NextIsEarly'
  <2> SUFFICES ASSUME NEW x \in ToSet(timerlist'), ~Overdue(x)'
               PROVE  /\ lap' = "this" => next_expiration <= clock + left[x]
                      /\ lap' = "next" => next_expiration + ClockMod <= clock + left[x]
    BY <1>1, <1>3 DEF NextIsEarly
  <2>1. ~Overdue(x) /\ x \in ToSet(timerlist)
    BY <1>2, <1>3 DEF Overdue
  <2>2. CASE lap' = LapLeft(timerlist')
    BY <1>1, <1>2, <2>1, <2>2, LapLeftRight
  <2>3. CASE lap' = lap
    BY <1>1, <2>1, <2>3 DEF IInv, NextIsEarly
  <2> QED
    BY <1>1, <2>2, <2>3
<1>10. PollAsked'
  <2>1. lap' # "over" => lap # "over" \/ timerlist' = << >>
    BY <1>1, LapLeftCases
  <2>2. lap' # "over" => ~Overlooked'
    <3>1. CASE timerlist' = << >>
      BY <1>7, <3>1 DEF Overlooked
    <3>2. CASE lap # "over"
      <4>1. ~Overlooked
        BY <1>1, <3>2 DEF IInv, PollAsked
      <4> QED
        BY <1>1, <1>2, <1>3, <4>1 DEF Overlooked
    <3> QED
      BY <2>1, <3>1, <3>2
  <2> QED
    BY <1>1, <2>2 DEF PollAsked, Stopping
<1> QED
  BY <1>2, <1>4, <1>5, <1>6, <1>8, <1>9, <1>10 DEF IInv

\* A process starts, or the thread of one that has exited returns.
LEMMA ProcKeeps ==
  ASSUME IInv, NEW p \in Proc, ProcessStart(p) \/ ExitEnds(p)
  PROVE  IInv'
<1>1. /\ \/ /\ alive' = alive \cup {p} /\ exiting' = exiting
            /\ rearmed' = {t \in rearmed : owner[t] # p}
         \/ UNCHANGED <<alive, rearmed>> /\ exiting' = exiting \ {p}
      /\ cpu.k = "idle"
      /\ UNCHANGED <<clock, timerlist, timerVars, next_expiration, needspoll, queue, cpu, lap>>
  BY CallTypes DEF ProcessStart, ExitEnds
<1>2. UNCHANGED <<start, interval, owner, left>>
  BY <1>1 DEF timerVars
<1>3. TypeOK' /\ TimerOnce' /\ Owners' /\ CallerRuns'
  <2>1. TypeOK'
    BY <1>1, <1>2 DEF IInv, TypeOK
  <2>2. Owners'
    BY <1>1, <1>2 DEF IInv, Owners
  <2> QED
    BY <1>1, <2>1, <2>2 DEF IInv, TimerOnce, CallerRuns
<1>4. Clocked'
  <2>1. Running' = Running
    BY <1>1 DEF Running
  <2> QED
    BY <1>2, <1>1, <2>1 DEF IInv, Clocked, Started
<1>5. NextIsEarliest' /\ NextIsEarly' /\ PollAsked'
  BY <1>1, <1>2 DEF IInv, NextIsEarliest, NextIsEarly, PollAsked, Earliest, Stopping,
       Overlooked, Overdue
<1> QED
  BY <1>3, <1>4, <1>5 DEF IInv

-----------------------------------------------------------------------------
(* process_run. *)

\* The queue stays a queue of events, and within its size.
LEMMA QueueTypes ==
  ASSUME TypeOK, \/ \E e \in Event : Fifo!Accept(e)
                 \/ Fifo!Refuse \/ Fifo!Dispatch
  PROVE  queue' \in Seq(Event) /\ Len(queue') <= NumEvents
<1>1. queue \in Seq(Event) /\ Len(queue) <= NumEvents
  BY DEF TypeOK
<1>2. ASSUME NEW e \in Event, Fifo!Accept(e)
      PROVE  queue' \in Seq(Event) /\ Len(queue') <= NumEvents
  BY <1>1, <1>2, Sizes, AppendProperties DEF Fifo!Accept
<1>3. CASE Fifo!Refuse
  BY <1>1, <1>3 DEF Fifo!Refuse
<1>4. CASE Fifo!Dispatch
  BY <1>1, <1>4, Sizes, HeadTailProperties DEF Fifo!Dispatch
<1> QED
  BY <1>2, <1>3, <1>4

\* Only the queue changes.
LEMMA QueueKeeps ==
  ASSUME IInv, cpu = Idle, \/ \E e \in Event : Fifo!Accept(e)
                           \/ Fifo!Refuse \/ Fifo!Dispatch,
         UNCHANGED <<clock, timerlist, timerVars, next_expiration, needspoll, procVars, cpu, lap>>
  PROVE  IInv'
<1>1. UNCHANGED <<start, interval, owner, left>>
  BY DEF timerVars
<1>2. queue' \in Seq(Event) /\ Len(queue') <= NumEvents
  BY QueueTypes DEF IInv
<1>3. NextIsEarliest' /\ NextIsEarly' /\ PollAsked'
  BY <1>1 DEF IInv, NextIsEarliest, NextIsEarly, PollAsked, Earliest, Stopping,
       Overlooked, Overdue
<1>4. cpu' \in Call /\ cpu'.k # "add"
  BY CallTypes
<1> QED
  BY <1>2, <1>3, <1>4, RestKeeps DEF IInv, TypeOK

LEMMA PostOtherKeeps ==
  ASSUME IInv, NEW p \in Proc, PostOther(p)
  PROVE  IInv'
<1>1. [to |-> p, timer |-> NULL] \in Event
  BY DEF Event
<1> QED
  BY <1>1, QueueKeeps DEF PostOther, MayCall

LEMMA DeliverKeeps == IInv /\ Deliver => IInv'
BY QueueKeeps DEF Deliver, InMain

LEMMA PollKeeps == IInv /\ Poll => IInv'
<1> SUFFICES ASSUME IInv, Poll PROVE IInv'
  OBVIOUS
<1>1. /\ cpu = Idle /\ cpu.k = "idle" /\ needspoll' = FALSE /\ cpu' = Scan(1)
      /\ UNCHANGED <<clock, timerlist, timerVars, next_expiration, queue, procVars, lap>>
  BY CallTypes DEF Poll, InMain
<1>2. UNCHANGED <<start, interval, owner, left>>
  BY <1>1 DEF timerVars
<1>3. cpu' \in Call /\ cpu'.k = "scan" /\ cpu'.i = 1
  <2>1. 1 \in 1..(Cardinality(Timer) + 1)
    BY TimerAssumption, FS_CardinalityType
  <2> QED
    BY <1>1, <2>1, CallTypes
<1>4. NextIsEarliest' /\ NextIsEarly'
  BY <1>1, <1>2, <1>3 DEF IInv, NextIsEarliest, NextIsEarly, Earliest, Overdue, Stopping
<1>5. PollAsked'
  <2>1. \A j \in DOMAIN timerlist : ~(j < 1)
    BY ListFacts DEF IInv
  <2> QED
    BY <1>1, <1>3, <2>1 DEF PollAsked, Stopping
<1> QED
  BY <1>1, <1>3, <1>4, <1>5, RestKeeps DEF IInv, TypeOK

\* An expired timer leaves the list, and update_time is called.
LEMMA ScanPostKeeps == IInv /\ ScanPost => IInv'
<1> SUFFICES ASSUME IInv, ScanPost PROVE IInv'
  OBVIOUS
<1> DEFINE t == timerlist[cpu.i]
<1>1. /\ cpu.k = "scan" /\ cpu.i <= Len(timerlist)
      /\ Fifo!Accept([to |-> owner[t], timer |-> t])
      /\ owner' = [owner EXCEPT ![t] = NULL]
      /\ timerlist' = Without({t}) /\ cpu' = Read(TRUE)
      /\ rearmed' = rearmed \ {t} /\ UNCHANGED <<alive, exiting>>
      /\ UNCHANGED <<clock, start, interval, left, next_expiration, needspoll, lap>>
  BY DEF ScanPost
<1>2. t \in Timer /\ t \in ToSet(timerlist)
  <2>1. cpu.i \in 1..(Cardinality(Timer) + 1)
    BY <1>1, CallCases DEF IInv, TypeOK
  <2>2. cpu.i \in DOMAIN timerlist
    BY <1>1, <2>1, ListFacts DEF IInv
  <2>3. t \in ToSet(timerlist)
    BY <2>2 DEF ToSet
  <2> QED
    BY <2>3, ListFacts DEF IInv
<1> HIDE DEF t
<1>3. /\ timerlist' \in Seq(Timer) /\ TimerOnce'
      /\ ToSet(timerlist') = ToSet(timerlist) \ {t}
  BY <1>1, WithoutList DEF IInv, TimerOnce
<1>4. cpu' \in Call /\ cpu'.k = "read" /\ cpu'.again = TRUE
  BY <1>1, CallTypes
<1>5. [to |-> owner[t], timer |-> t] \in Event
  BY <1>2 DEF IInv, Owners, TypeOK, Event
<1>6. queue' \in Seq(Event) /\ Len(queue') <= NumEvents
  BY <1>1, <1>5, QueueTypes DEF IInv
<1>7. TypeOK'
  BY <1>1, <1>2, <1>3, <1>4, <1>6 DEF IInv, TypeOK
<1>8. Owners' /\ CallerRuns'
  <2>1. \A x \in ToSet(timerlist') : owner'[x] = owner[x]
    BY <1>1, <1>3, ListFacts DEF IInv, TypeOK
  <2>2. Owners'
    <3>1. ASSUME NEW x \in ToSet(timerlist')
          PROVE  owner'[x] \in Proc /\ (owner'[x] \in alive' \/ x \in rearmed')
      <4>1. x \in ToSet(timerlist) /\ x # t /\ owner'[x] = owner[x]
        BY <1>3, <2>1, <3>1
      <4>2. owner[x] \in Proc /\ (owner[x] \in alive \/ x \in rearmed)
        BY <4>1 DEF IInv, Owners
      <4> QED
        BY <1>1, <4>1, <4>2
    <3> QED
      BY <3>1 DEF Owners
  <2> QED
    BY <1>4, <2>2 DEF CallerRuns
<1>9. Clocked'
  <2>1. Running' \subseteq Running
    BY <1>3, <1>4 DEF Running
  <2> QED
    BY <1>1, <2>1 DEF IInv, Clocked, Started
<1>10. NextIsEarliest' /\ NextIsEarly' /\ PollAsked'
  BY <1>4 DEF NextIsEarliest, NextIsEarly, PollAsked, Stopping
<1> QED
  BY <1>3, <1>7, <1>8, <1>9, <1>10 DEF IInv

\* etimer_process goes on to the next timer: the end of its list is a place, too.
LEMMA ScanPlace ==
  ASSUME IInv, cpu.k = "scan"
  PROVE  /\ cpu.i \in 1..(Cardinality(Timer) + 1) /\ cpu.i \in Nat
         /\ cpu.i <= Len(timerlist) =>
              cpu.i \in DOMAIN timerlist /\ cpu.i + 1 \in 1..(Cardinality(Timer) + 1)
<1>1. cpu.i \in 1..(Cardinality(Timer) + 1) /\ Cardinality(Timer) \in Nat
  BY CallCases, ListFacts DEF IInv, TypeOK
<1> QED
  BY <1>1, ListFacts DEF IInv

LEMMA ScanRefusedKeeps == IInv /\ ScanRefused => IInv'
<1> SUFFICES ASSUME IInv, ScanRefused PROVE IInv'
  OBVIOUS
<1>1. /\ cpu.k = "scan" /\ cpu.i <= Len(timerlist) /\ needspoll' = TRUE
      /\ cpu' = Scan(cpu.i + 1) /\ Fifo!Refuse
      /\ UNCHANGED <<clock, timerlist, timerVars, next_expiration, procVars, lap>>
  BY DEF ScanRefused
<1>2. UNCHANGED <<start, interval, owner, left>>
  BY <1>1 DEF timerVars
<1>3. cpu' \in Call /\ cpu'.k = "scan"
  BY <1>1, ScanPlace, CallTypes
<1>4. queue' \in Seq(Event) /\ Len(queue') <= NumEvents
  BY <1>1, QueueTypes DEF IInv
<1>5. NextIsEarliest' /\ NextIsEarly'
  BY <1>1, <1>2, <1>3 DEF IInv, NextIsEarliest, NextIsEarly, Earliest, Overdue, Stopping
<1>6. PollAsked'
  BY <1>1, <1>3 DEF PollAsked, Stopping
<1> QED
  BY <1>1, <1>3, <1>4, <1>5, <1>6, RestKeeps DEF IInv, TypeOK

LEMMA ScanNextKeeps == IInv /\ ScanNext => IInv'
<1> SUFFICES ASSUME IInv, ScanNext PROVE IInv'
  OBVIOUS
<1>1. /\ cpu.k = "scan"
      /\ UNCHANGED <<clock, timerlist, timerVars, next_expiration, needspoll, queue, procVars, lap>>
  BY DEF ScanNext
<1>2. UNCHANGED <<start, interval, owner, left>>
  BY <1>1 DEF timerVars
<1>3. CASE cpu.i > Len(timerlist) /\ cpu' = Idle
  <2>1. cpu' \in Call /\ cpu'.k = "idle"
    BY <1>3, CallTypes
  <2>2. NextIsEarliest' /\ NextIsEarly'
    BY <1>1, <1>2, <2>1 DEF IInv, NextIsEarliest, NextIsEarly, Earliest, Overdue, Stopping
  <2>3. lap # "over" => ~Overlooked
    <3> SUFFICES ASSUME lap # "over", Overlooked PROVE FALSE
      OBVIOUS
    <3>1. PICK j \in DOMAIN timerlist : Overdue(timerlist[j])
      BY DEF Overlooked, ToSet, Overdue
    <3>2. j < cpu.i /\ ~\E k \in DOMAIN timerlist : k >= cpu.i
      BY <1>1, <1>3, ScanPlace, ListFacts DEF IInv
    <3> QED
      BY <1>1, <3>1, <3>2 DEF IInv, PollAsked, Overlooked
  <2>4. PollAsked'
    BY <1>1, <1>2, <2>1, <2>3 DEF PollAsked, Stopping, Overlooked
  <2> QED
    BY <1>1, <2>1, <2>2, <2>4, RestKeeps DEF IInv, TypeOK
<1>4. CASE /\ cpu.i <= Len(timerlist) /\ ~TimerExpired(timerlist[cpu.i])
           /\ cpu' = Scan(cpu.i + 1)
  <2>1. cpu' \in Call /\ cpu'.k = "scan" /\ cpu'.i = cpu.i + 1
    BY <1>1, <1>4, ScanPlace, CallTypes
  <2>2. NextIsEarliest' /\ NextIsEarly'
    BY <1>1, <1>2, <2>1 DEF IInv, NextIsEarliest, NextIsEarly, Earliest, Overdue, Stopping
  <2>3. ~Overdue(timerlist[cpu.i])
    <3>1. timerlist[cpu.i] \in ToSet(timerlist)
      BY <1>1, <1>4, ScanPlace DEF ToSet
    <3> QED
      BY <1>4, <3>1, TrueTime, ListFacts, RunningTimers DEF IInv, Clocked
  <2>4. PollAsked'
    <3> SUFFICES ASSUME lap # "over", ~needspoll, NEW j \in DOMAIN timerlist,
                        j < cpu.i + 1, Overdue(timerlist[j])
                 PROVE  \E k \in DOMAIN timerlist : k >= cpu.i + 1 /\ Overdue(timerlist[k])
      BY <1>1, <1>2, <2>1 DEF PollAsked, Stopping, Overdue
    <3>1. cpu.i \in Nat /\ \A k \in DOMAIN timerlist : k \in Nat
      BY <1>1, ScanPlace, ListFacts DEF IInv
    <3>2. j # cpu.i
      BY <2>3
    <3>3. j < cpu.i
      BY <3>1, <3>2
    <3>4. PICK k \in DOMAIN timerlist : k >= cpu.i /\ Overdue(timerlist[k])
      BY <1>1, <3>3 DEF IInv, PollAsked
    <3>5. k # cpu.i
      BY <2>3, <3>4
    <3> QED
      BY <3>1, <3>4, <3>5
  <2> QED
    BY <1>1, <2>1, <2>2, <2>4, RestKeeps DEF IInv, TypeOK
<1> QED
  BY <1>3, <1>4 DEF ScanNext

-----------------------------------------------------------------------------
(* The tick. *)

\* What a tick does to the clock and to the true times.
LEMMA TickFacts ==
  ASSUME IInv, Tick
  PROVE  /\ clock \in 0..(ClockMod - 1) /\ next_expiration \in 0..(ClockMod - 1)
         /\ \/ clock' = clock + 1 /\ clock + 1 < ClockMod
            \/ clock' = 0 /\ clock + 1 = ClockMod
         /\ Running \subseteq Timer /\ ToSet(timerlist) \subseteq Running
         /\ left' \in [Timer -> Int]
         /\ \A t \in Timer : left'[t] >= -MaxLag => left'[t] = left[t] - 1 /\ left[t] >= -MaxLag
         /\ \A t \in Running :
              /\ left[t] \in (1 - MaxLag)..(ClockMod - MaxLag - 2)
              /\ left'[t] = left[t] - 1
<1>1. /\ clock \in 0..(ClockMod - 1) /\ next_expiration \in 0..(ClockMod - 1)
      /\ left \in [Timer -> Int]
      /\ Running \subseteq Timer /\ ToSet(timerlist) \subseteq Running
  BY RunningTimers DEF IInv, TypeOK
<1>2. \/ clock' = clock + 1 /\ clock + 1 < ClockMod
      \/ clock' = 0 /\ clock + 1 = ClockMod
  <2> DEFINE a == clock + 1
  <2>1. a \in (-ClockMod)..(2 * ClockMod - 1) /\ a \in 1..ClockMod
    BY <1>1, Sizes
  <2> HIDE DEF a
  <2>2. clock' = a % ClockMod
    BY DEF Tick, a
  <2>3. a % ClockMod = IF a < 0 THEN a + ClockMod ELSE IF a < ClockMod THEN a ELSE a - ClockMod
    BY <2>1, ModRange, Sizes
  <2> DEFINE b == a % ClockMod
  <2>4. clock' = b /\ b = IF a < 0 THEN a + ClockMod ELSE IF a < ClockMod THEN a ELSE a - ClockMod
    BY <2>2, <2>3
  <2> HIDE DEF b
  <2>5. (clock' = a /\ a < ClockMod) \/ (clock' = 0 /\ a = ClockMod)
    BY <2>1, <2>4, Sizes
  <2> QED
    BY <2>5 DEF a
<1>3. /\ \A t \in Running : left[t] > -MaxLag
      /\ left' = [t \in Timer |-> IF left[t] >= -MaxLag THEN left[t] - 1 ELSE left[t]]
  BY DEF Tick
<1>4. left' \in [Timer -> Int]
  BY <1>1, <1>3
<1>5. ASSUME NEW t \in Timer, left'[t] >= -MaxLag
      PROVE  left'[t] = left[t] - 1 /\ left[t] >= -MaxLag
  BY <1>1, <1>3, <1>5, Sizes
<1>6. ASSUME NEW t \in Running
      PROVE  /\ left[t] \in (1 - MaxLag)..(ClockMod - MaxLag - 2)
             /\ left'[t] = left[t] - 1
  <2>1. t \in Timer /\ left[t] > -MaxLag /\ left[t] \in Int
    BY <1>1, <1>3
  <2>2. left[t] \in (-MaxLag)..(ClockMod - MaxLag - 2)
    BY <2>1, TrueTime, Sizes DEF IInv
  <2> QED
    BY <1>3, <2>1, <2>2, Sizes
<1> QED
  BY <1>1, <1>2, <1>4, <1>5, <1>6

\* When a timer falls due without a poll, another was due before.
LEMMA TickDue ==
  ASSUME IInv, Tick, lap' # "over", ~needspoll', cpu.k \in {"idle", "scan"} \/ Stopping,
         NEW t \in ToSet(timerlist), left[t] = 1
  PROVE  \E u \in ToSet(timerlist) : Overdue(u)
<1>1. /\ clock \in 0..(ClockMod - 1) /\ next_expiration \in 0..(ClockMod - 1)
      /\ \/ clock' = clock + 1 /\ clock + 1 < ClockMod
         \/ clock' = 0 /\ clock + 1 = ClockMod
      /\ \A u \in ToSet(timerlist) : left[u] \in (1 - MaxLag)..(ClockMod - MaxLag - 2)
  BY TickFacts
<1>2. timerlist # << >>
  BY ListFacts DEF IInv
<1>3. ~(next_expiration <= clock') /\ ~needspoll
  BY <1>2 DEF Tick
<1>4. lap' = IF clock' # 0 THEN lap
             ELSE IF lap = "next" THEN "this" ELSE IF lap = "this" THEN "over" ELSE lap
  BY DEF Tick
<1>5. ~Overdue(t)
  BY DEF Overdue
<1>6. lap # "this"
  <2> SUFFICES ASSUME lap = "this" PROVE FALSE
    OBVIOUS
  <2>1. clock' # 0
    BY <1>4
  <2>2. next_expiration <= clock + left[t]
    BY <1>5 DEF IInv, NextIsEarly
  <2> QED
    BY <1>1, <1>3, <2>1, <2>2
<1>7. lap # "next"
  <2> SUFFICES ASSUME lap = "next" PROVE FALSE
    OBVIOUS
  <2>1. next_expiration + ClockMod <= clock + left[t]
    BY <1>5 DEF IInv, NextIsEarly
  <2> QED
    BY <1>1, <1>3, <2>1, Sizes
<1>8. lap = "fresh"
  BY <1>4, <1>6, <1>7 DEF IInv, TypeOK
<1>9. cpu.k \in {"idle", "scan"}
  BY <1>2, <1>8 DEF IInv, PollAsked
<1>10. PICK u \in ToSet(timerlist) :
         /\ clock + left[u] - next_expiration \in {-ClockMod, 0, ClockMod}
         /\ left[u] <= 1
  BY <1>2, <1>5, <1>8, <1>9 DEF IInv, NextIsEarliest, Earliest
<1>11. left[u] # 1
  BY <1>1, <1>3, <1>10, Sizes
<1>12. left[u] \in Int
  BY <1>1
<1>13. Overdue(u)
  BY <1>10, <1>11, <1>12 DEF Overdue
<1> QED
  BY <1>13

LEMMA TickKeeps == IInv /\ Tick => IInv'
<1> SUFFICES ASSUME IInv, Tick PROVE IInv'
  OBVIOUS
<1>1. /\ needspoll' = (needspoll \/ (timerlist # << >> /\ next_expiration <= clock'))
      /\ lap' = IF clock' # 0 THEN lap
                ELSE IF lap = "next" THEN "this" ELSE IF lap = "this" THEN "over" ELSE lap
      /\ UNCHANGED <<timerlist, start, interval, owner, next_expiration, queue, cpu>>
      /\ UNCHANGED <<alive, exiting, rearmed>>
  BY DEF Tick, procVars
<1>2. /\ clock \in 0..(ClockMod - 1) /\ next_expiration \in 0..(ClockMod - 1)
      /\ \/ clock' = clock + 1 /\ clock + 1 < ClockMod
         \/ clock' = 0 /\ clock + 1 = ClockMod
      /\ Running \subseteq Timer /\ ToSet(timerlist) \subseteq Running
      /\ left' \in [Timer -> Int]
      /\ \A t \in Timer : left'[t] >= -MaxLag => left'[t] = left[t] - 1 /\ left[t] >= -MaxLag
      /\ \A t \in Running : /\ left[t] \in (1 - MaxLag)..(ClockMod - MaxLag - 2)
                            /\ left'[t] = left[t] - 1
  BY TickFacts
<1>3. TypeOK'
  <2>1. clock' \in 0..(ClockMod - 1)
    BY <1>2, Sizes
  <2>2. needspoll' \in BOOLEAN
    BY <1>1
  <2>3. lap' \in {"fresh", "this", "next", "over"}
    BY <1>1 DEF IInv, TypeOK
  <2> QED
    BY <1>1, <1>2, <2>1, <2>2, <2>3 DEF IInv, TypeOK
<1>4. TimerOnce' /\ Owners' /\ CallerRuns'
  BY <1>1 DEF IInv, TimerOnce, Owners, CallerRuns
<1>5. Clocked'
  <2>1. ASSUME NEW t \in Timer, left'[t] >= -MaxLag
        PROVE  Started(t)'
    <3>1. /\ left'[t] = left[t] - 1 /\ left[t] \in Int /\ left[t] - 1 >= -MaxLag
          /\ start[t] \in 0..(ClockMod - 1) /\ interval[t] \in 0..(ClockMod - 1)
          /\ interval[t] \in Interval /\ left[t] <= interval[t]
          /\ interval[t] + MaxLag + 1 < ClockMod
          /\ start[t] + interval[t] - (clock + left[t]) \in {0, ClockMod}
      BY <1>2, <2>1, Sizes DEF IInv, TypeOK, Clocked, Started
    <3>2. start[t] + interval[t] - (clock' + left'[t]) \in {0, ClockMod}
      <4>1. start[t] + interval[t] - (clock' + left'[t])
              \in {0, ClockMod, 2 * ClockMod}
        BY <1>2, <3>1, Sizes
      <4>2. start[t] + interval[t] - (clock' + left'[t]) < 2 * ClockMod
        BY <1>2, <3>1, Sizes
      <4> QED
        BY <4>1, <4>2, Sizes
    <3> QED
      BY <1>1, <3>1, <3>2 DEF Started
  <2>2. Running' = Running
    BY <1>1 DEF Running
  <2>3. \A t \in Running' : left'[t] >= -MaxLag
    BY <1>2, <2>2, Sizes
  <2> QED
    BY <1>1, <2>1, <2>3 DEF IInv, Clocked
<1>6. ASSUME NEW n \in 0..(ClockMod - 1), Earliest(n)
      PROVE  Earliest(n)'
  <2> SUFFICES ASSUME timerlist # << >>
               PROVE  \E u \in ToSet(timerlist) :
                        /\ clock' + left'[u] - n \in {-ClockMod, 0, ClockMod}
                        /\ \A t \in ToSet(timerlist) : ~Overdue(t)' => left'[u] <= left'[t]
    BY <1>1 DEF Earliest
  <2>1. PICK u \in ToSet(timerlist) :
          /\ clock + left[u] - n \in {-ClockMod, 0, ClockMod}
          /\ \A t \in ToSet(timerlist) : ~Overdue(t) => left[u] <= left[t]
    BY <1>6 DEF Earliest
  <2>2. clock' + left'[u] - n \in {-ClockMod, 0, ClockMod}
    <3>1. left[u] \in (1 - MaxLag)..(ClockMod - MaxLag - 2) /\ left'[u] = left[u] - 1
      BY <1>2
    <3>2. MaxLag + 1 < ClockMod /\ ClockMod \in Nat /\ MaxLag \in Nat
      <4>1. u \in Timer /\ left[u] >= -MaxLag
        BY <1>2, <3>1, Sizes
      <4>2. interval[u] \in Interval
        BY <4>1 DEF IInv, Clocked, Started
      <4> QED
        BY <4>2, Sizes
    <3> DEFINE x == left[u]
               y == left'[u]
    <3>3. /\ x \in (1 - MaxLag)..(ClockMod - MaxLag - 2) /\ y = x - 1
          /\ clock + x - n \in {-ClockMod, 0, ClockMod}
      BY <2>1, <3>1
    <3> HIDE DEF x, y
    <3>4. clock' + y - n \in {-ClockMod, 0, ClockMod}
      <4>1. CASE clock' = clock + 1
        BY <1>2, <3>2, <3>3, <4>1
      <4>2. CASE clock' = 0 /\ clock + 1 = ClockMod
        <5>1. clock' + y - n = clock + x - n - ClockMod
          BY <1>2, <3>2, <3>3, <4>2
        <5>2. clock' + y - n > -2 * ClockMod
          BY <1>2, <3>2, <3>3, <4>2
        <5> QED
          BY <1>2, <3>2, <3>3, <5>1, <5>2
      <4> QED
        BY <1>2, <4>1, <4>2
    <3> QED
      BY <3>4 DEF x, y
  <2>3. ASSUME NEW t \in ToSet(timerlist), ~Overdue(t)'
        PROVE  left'[u] <= left'[t]
    <3>1. /\ left[u] \in Int /\ left'[u] = left[u] - 1
          /\ left[t] \in Int /\ left'[t] = left[t] - 1
      BY <1>2
    <3>2. ~Overdue(t)
      BY <2>3, <3>1 DEF Overdue
    <3> QED
      BY <2>1, <3>1, <3>2
  <2> QED
    BY <2>2, <2>3
<1>7. NextIsEarliest'
  <2>1. cpu.k = "store" => cpu.value \in 0..(ClockMod - 1)
    BY CallCases DEF IInv, TypeOK
  <2>2. lap' = "fresh" => lap = "fresh"
    BY <1>1
  <2> QED
    BY <1>1, <1>2, <1>6, <2>1, <2>2 DEF IInv, NextIsEarliest, Earliest
<1>8. Stopping' => Stopping
  BY <1>1 DEF Stopping
<1>9. NextIsEarly'
  <2> SUFFICES ASSUME cpu.k \in {"idle", "scan"} \/ Stopping,
                      NEW t \in ToSet(timerlist), ~Overdue(t)'
               PROVE  /\ lap' = "this" => next_expiration <= clock' + left'[t]
                      /\ lap' = "next" => next_expiration + ClockMod <= clock' + left'[t]
    BY <1>1, <1>8 DEF NextIsEarly
  <2>1. left[t] \in Int /\ left'[t] = left[t] - 1
    BY <1>2
  <2>2. ~Overdue(t)
    BY <2>1 DEF Overdue
  <2>3. /\ lap = "this" => next_expiration <= clock + left[t]
        /\ lap = "next" => next_expiration + ClockMod <= clock + left[t]
    BY <2>2 DEF IInv, NextIsEarly
  <2>4. CASE clock' = clock + 1
    <3>1. lap' = lap /\ clock' + left'[t] = clock + left[t]
      BY <1>1, <1>2, <2>1, <2>4
    <3> QED
      BY <2>3, <3>1
  <2>5. CASE clock' = 0 /\ clock + 1 = ClockMod
    <3>1. clock' + left'[t] + ClockMod = clock + left[t]
      BY <1>2, <2>1, <2>5, Sizes
    <3>2. lap' # "next" /\ (lap' = "this" => lap = "next")
      BY <1>1, <2>5
    <3>3. lap = "next" => next_expiration <= clock' + left'[t]
      BY <1>2, <2>1, <2>3, <2>5, <3>1, Sizes
    <3> QED
      BY <3>2, <3>3
  <2> QED
    BY <1>2, <2>4, <2>5
<1>10. lap' # "over" => lap # "over"
  BY <1>1
<1>11. PollAsked'
  <2>1. cpu'.k = "add" => needspoll'
    BY <1>1 DEF IInv, PollAsked
  <2>2. Stopping' /\ lap' = "fresh" => timerlist' = << >>
    BY <1>1, <1>8 DEF IInv, PollAsked
  <2>3. ASSUME lap' # "over", ~needspoll', cpu.k \in {"idle", "scan"} \/ Stopping,
               NEW t \in ToSet(timerlist), Overdue(t)'
        PROVE  \E u \in ToSet(timerlist) : Overdue(u)
    <3>1. left[t] \in Int /\ left'[t] = left[t] - 1
      BY <1>2
    <3>2. Overdue(t) \/ left[t] = 1
      BY <2>3, <3>1 DEF Overdue
    <3> QED
      BY <2>3, <3>2, TickDue
  <2>4. ASSUME lap' # "over", cpu'.k = "idle" \/ Stopping'
        PROVE  ~Overlooked'
    <3> SUFFICES ASSUME Overlooked' PROVE FALSE
      OBVIOUS
    <3>1. ~needspoll' /\ \E t \in ToSet(timerlist) : Overdue(t)'
      BY <1>1 DEF Overlooked, Overdue
    <3>2. Overlooked
      BY <1>1, <1>8, <2>3, <2>4, <3>1 DEF Overlooked, Overdue
    <3> QED
      BY <1>1, <1>8, <1>10, <2>4, <3>2 DEF IInv, PollAsked
  <2>5. ASSUME lap' # "over", cpu'.k = "scan", ~needspoll',
               NEW j \in DOMAIN timerlist, j < cpu.i, Overdue(timerlist[j])'
        PROVE  \E k \in DOMAIN timerlist : k >= cpu.i /\ Overdue(timerlist[k])'
    <3>1. timerlist[j] \in ToSet(timerlist)
      BY DEF ToSet
    <3>2. Overdue(timerlist[j])' => \E t \in ToSet(timerlist) : Overdue(t)'
      BY <1>1, <3>1 DEF Overdue
    <3>3. PICK u \in ToSet(timerlist) : Overdue(u)
      BY <1>1, <2>3, <2>5, <3>2
    <3>4. PICK m \in DOMAIN timerlist : timerlist[m] = u
      BY DEF ToSet
    <3>5. m \in Nat /\ cpu.i \in Nat
      BY <1>1, <2>5, ListFacts, ScanPlace DEF IInv
    <3>6. PICK k \in DOMAIN timerlist : k >= cpu.i /\ Overdue(timerlist[k])
      <4>1. CASE m >= cpu.i
        BY <3>3, <3>4, <4>1
      <4>2. CASE m < cpu.i
        BY <1>1, <1>10, <2>5, <3>3, <3>4, <4>2 DEF IInv, PollAsked
      <4> QED
        BY <3>5, <4>1, <4>2
    <3>7. Overdue(timerlist[k])'
      <4>1. timerlist[k] \in ToSet(timerlist)
        BY DEF ToSet
      <4>2. left[timerlist[k]] \in Int /\ left'[timerlist[k]] = left[timerlist[k]] - 1
        BY <1>2, <4>1
      <4>3. left'[timerlist[k]] <= 0
        BY <3>6, <4>2 DEF Overdue
      <4> QED
        BY <1>1, <4>3 DEF Overdue
    <3> QED
      BY <3>6, <3>7
  <2> QED
    BY <1>1, <2>1, <2>2, <2>4, <2>5 DEF PollAsked
<1> QED
  BY <1>3, <1>4, <1>5, <1>7, <1>9, <1>11 DEF IInv

-----------------------------------------------------------------------------
(* The theorems. *)

LEMMA NextIInv == IInv /\ [Next]_vars => IInv'
<1> SUFFICES ASSUME IInv, [Next]_vars PROVE IInv'
  OBVIOUS
<1>1. CASE UNCHANGED vars
  <2>1. /\ UNCHANGED <<clock, timerlist, start, interval, owner, left>>
        /\ UNCHANGED <<next_expiration, needspoll, queue, cpu, lap>>
        /\ UNCHANGED <<alive, exiting, rearmed>>
    BY <1>1 DEF vars, timerVars, procVars
  <2>2. TypeOK' /\ TimerOnce' /\ Owners' /\ CallerRuns'
    BY <2>1 DEF IInv, TypeOK, TimerOnce, Owners, CallerRuns
  <2>3. Clocked'
    BY <2>1 DEF IInv, Clocked, Started, Running
  <2>4. NextIsEarliest' /\ NextIsEarly' /\ PollAsked'
    BY <2>1 DEF IInv, NextIsEarliest, NextIsEarly, PollAsked, Earliest, Stopping,
         Overlooked, Overdue
  <2> QED
    BY <2>2, <2>3, <2>4 DEF IInv
<1>2. CASE Client
  <2> SUFFICES ASSUME NEW p \in Proc,
                      \/ \E t \in Timer :
                           \/ \E length \in Interval : EtimerSet(p, t, length)
                           \/ EtimerRestart(p, t) \/ EtimerReset(p, t) \/ EtimerStop(p, t)
                      \/ PostOther(p) \/ ProcessExit(p)
                      \/ ExitEnds(p) \/ ProcessStart(p)
               PROVE  IInv'
    BY <1>2 DEF Client
  <2>1. ASSUME NEW t \in Timer,
               \/ \E length \in Interval : EtimerSet(p, t, length)
               \/ EtimerRestart(p, t) \/ EtimerReset(p, t) \/ EtimerStop(p, t)
        PROVE  IInv'
    BY <2>1, SetKeeps, EtimerStopKeeps
  <2> QED
    BY <2>1, PostOtherKeeps, ProcessExitKeeps, ProcKeeps
<1>3. CASE Library
  BY <1>3, AddTimerKeeps, UpdateReadKeeps, UpdateStoreKeeps DEF Library
<1>4. CASE Kernel
  BY <1>4, PollKeeps, ScanPostKeeps, ScanRefusedKeeps, ScanNextKeeps, DeliverKeeps DEF Kernel
<1>5. CASE Tick
  BY <1>5, TickKeeps
<1> QED
  BY <1>1, <1>2, <1>3, <1>4, <1>5 DEF Next

LEMMA Inductive == Spec => []IInv
BY InitIInv, NextIInv, PTL DEF Spec

\* Whatever timers are set, stopped, expire and die with their process, the
\* clock, the list, the queue and the call that main() is in are what the
\* declarations of etimer.c and clock.c say.
THEOREM TypeCorrect == Spec => []TypeOK
<1>1. IInv => TypeOK
  BY DEF IInv
<1> QED
  BY <1>1, Inductive, PTL

\* An exit leaves no timer of its process pending but those its own thread
\* sets after that, in the EXIT event: any other belongs to a process that
\* runs.  A timer is on the list only once, and t->p is PROCESS_NONE only if it
\* is not there at all: this is what add_timer decides by (process.c lines
\* 142-159; etimer.c lines 90-106, 115-130, 149-173, 233-261).
THEOREM ListSoundCorrect == Spec => []ListSound
<1>1. IInv => ListSound
  <2> SUFFICES ASSUME IInv PROVE ListSound
    OBVIOUS
  <2>1. OwnersAlive
    BY DEF IInv, Owners, OwnersAlive
  <2>2. Cardinality(ToSet(timerlist)) = Len(timerlist)
    BY ListFacts DEF IInv
  <2>3. \A t \in Timer : owner[t] = NULL => ~Listed(t)
    BY NullAssumption DEF IInv, Owners, Listed
  <2> QED
    BY <2>1, <2>2, <2>3 DEF ListSound, ListedOnce
<1> QED
  BY <1>1, Inductive, PTL

\* timer_expired tells the true time, wherever the clock that wraps stands.
THEOREM ExpiredCorrect == Spec => []ExpiredIffDue
<1>1. IInv => ExpiredIffDue
  BY TrueTime, ListFacts, RunningTimers DEF IInv, Clocked, ExpiredIffDue, Overdue
<1> QED
  BY <1>1, Inductive, PTL

\* No timer that is due lies on the list with nobody asking for a poll, for
\* any number of timers and processes and any range of the clock: however the
\* ticks fall between the steps of update_time and of etimer_process, and
\* whatever the queue refuses.
THEOREM NoMissedCorrect == Spec => []NoMissedExpiry
<1>1. IInv => NoMissedExpiry
  <2> SUFFICES ASSUME IInv, cpu = Idle, lap # "over",
                      NEW t \in ToSet(timerlist), left[t] <= 0
               PROVE  needspoll
    BY DEF NoMissedExpiry
  <2>1. cpu.k = "idle"
    BY CallTypes
  <2> QED
    BY <2>1 DEF IInv, PollAsked, Overlooked, TypeOK
<1> QED
  BY <1>1, Inductive, PTL
=============================================================================
