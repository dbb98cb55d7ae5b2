------------------------------- MODULE Etimer -------------------------------
(***************************************************************************)
(* Event timers (ARM_src/Core/Timer/etimer.c, timer.c) and the clock tick  *)
(* that drives them (ARM_src/Core/Clock/clock.c): a list of pending timers *)
(* on a clock that wraps, a cached expiration time which only the tick     *)
(* interrupt looks at, and a process that posts an event for each expired  *)
(* timer, or tries again when the event queue is full.                     *)
(*                                                                         *)
(* Everything but Tick runs in main(); cpu says in the middle of which     *)
(* call main() is, and a tick may come between any two of its steps.  The  *)
(* event queue is the bounded queue of EventFifo, which Process implements.*)
(***************************************************************************)
EXTENDS Integers, Sequences, FiniteSets, SequencesExt

CONSTANTS
  Timer,        \* the struct etimer objects
  Proc,         \* the processes that set them
  NULL,         \* PROCESS_NONE; also the timer of an event of another kind
  ClockMod,     \* clock_time_t counts modulo this (2^32)
  Interval,     \* the intervals the program sets
  NumEvents,    \* PROCESS_CONF_NUMEVENTS
  Calls,        \* the calls that are made: <<which, by whom, for which timer>>
  MaxLag        \* bound: main() never leaves a timer overdue any longer

ASSUME NullAssumption == NULL \notin Proc \cup Timer
ASSUME TimerAssumption == IsFiniteSet(Timer)
ASSUME IntervalAssumption == Interval \subseteq 0..(ClockMod - 1)
ASSUME EventsAssumption == NumEvents \in Nat \ {0}
\* A timer neither runs nor is overdue for so long that the clock comes round.
ASSUME ClockAssumption ==
  /\ ClockMod \in Nat \ {0} /\ MaxLag \in Nat
  /\ \A i \in Interval : i + MaxLag + 1 < ClockMod

VARIABLES
  clock,            \* current_clock
  timerlist,        \* the pending timers, the head first
  start, interval,  \* t->timer
  owner,            \* t->p
  next_expiration,
  needspoll,        \* a poll of etimer_process is pending
  queue,            \* the kernel's event queue
  alive,            \* the processes that run
  exiting,          \* the processes whose thread runs though they have exited
  rearmed,          \* history: the timers on the list that one of those has
                    \* put there, and whose owner did not start again
  cpu,              \* the call main() is in
  left,             \* history: ticks until t is due, by the true time
  lap               \* history: once timers have been taken away since the
                    \* last update_time, the lap of the clock that
                    \* next_expiration is a time of: "this", the "next", or
                    \* one that is "over"; before that it is "fresh"

timerVars == <<start, interval, owner, left>>
procVars == <<alive, exiting, rearmed>>
vars == <<clock, timerlist, timerVars, next_expiration, needspoll, queue,
          procVars, cpu, lap>>

Event == [to : Proc, timer : Timer \cup {NULL}]
\* That a post was refused once is remembered by nobody here.
Fifo == INSTANCE EventFifo
          WITH Event <- Event, Capacity <- NumEvents, refused <- TRUE

(***************************************************************************)
(* The calls: k is the next line to run.                                   *)
(*   add     add_timer: put t on the list for p                            *)
(*   read    update_time: read the clock and find the nearest timer        *)
(*   store   update_time: write next_expiration                            *)
(*   scan    etimer_process: look at timer number i of the list            *)
(* again tells whether etimer_process called update_time.                  *)
(***************************************************************************)
Idle == [k |-> "idle"]
Add(t, p) == [k |-> "add", t |-> t, p |-> p]
Read(again) == [k |-> "read", again |-> again]
Store(value, again) == [k |-> "store", value |-> value, again |-> again]
Scan(i) == [k |-> "scan", i |-> i]

Listed(t) == t \in ToSet(timerlist)
\* The timers that run: those on the list, and one about to be put there.
Running == ToSet(timerlist) \cup (IF cpu.k = "add" THEN {cpu.t} ELSE {})

\* The list after those of P have been unlinked.
Without(P) ==
  LET rest[i \in 0..Len(timerlist)] ==
        IF i = 0 THEN << >>
        ELSE IF timerlist[i] \in P THEN rest[i - 1]
        ELSE Append(rest[i - 1], timerlist[i])
  IN  rest[Len(timerlist)]

\* timer_expired: unsigned, so that a clock that has wrapped is no matter.
\* Mutant of TimerExpired: the two times are compared.
TimerExpiredCompare(t) == (start[t] + interval[t]) % ClockMod <= clock
TimerExpired(t) == interval[t] < (clock - start[t] + 1) % ClockMod

\* update_time: the unsigned distance from now of the nearest timer.
Distance(t) == (start[t] + interval[t] - clock) % ClockMod
\* Mutant of Nearest: the last timer of the list.
NearestLast == (clock + Distance(timerlist[Len(timerlist)])) % ClockMod
Nearest ==
  LET t == CHOOSE t \in ToSet(timerlist) :
             \A other \in ToSet(timerlist) : Distance(t) <= Distance(other)
  IN  (clock + Distance(t)) % ClockMod

Init ==
  /\ clock \in 0..(ClockMod - 1)
  /\ timerlist = << >>
  /\ start = [t \in Timer |-> 0]
  /\ interval = [t \in Timer |-> 0]
  /\ owner = [t \in Timer |-> NULL]
  /\ next_expiration = 0
  /\ needspoll = FALSE
  /\ queue = << >>
  /\ alive = Proc /\ exiting = {} /\ rearmed = {}
  /\ cpu = Idle
  /\ left = [t \in Timer |-> -MaxLag - 1]
  /\ lap = "fresh"

-----------------------------------------------------------------------------
(* The calls of the processes. *)

\* A thread may also call when its process has exited: exit_process runs it
\* once more, with PROCESS_EVENT_EXIT, and it goes on if it exits itself.
MayCall(name, p, t) ==
  cpu = Idle /\ <<name, p, t>> \in Calls /\ p \in alive \cup exiting

\* etimer_set, etimer_restart and etimer_reset: the timer gets a new start.
Begin(p, t, from, length, ticks) ==
  /\ start' = [start EXCEPT ![t] = from]
  /\ interval' = [interval EXCEPT ![t] = length]
  /\ left' = [left EXCEPT ![t] = ticks]
  /\ needspoll' = TRUE
  /\ cpu' = Add(t, p)
  /\ UNCHANGED <<clock, timerlist, owner, next_expiration, queue, procVars, lap>>

EtimerSet(p, t, length) ==
  MayCall("set", p, t) /\ Begin(p, t, clock, length, length)

EtimerRestart(p, t) ==
  /\ MayCall("restart", p, t)
  /\ interval[t] # 0  \* it was set before
  /\ Begin(p, t, clock, interval[t], interval[t])

\* The next period starts where the last one ended.
EtimerReset(p, t) ==
  /\ MayCall("reset", p, t)
  /\ ~Listed(t) /\ left[t] \in (-MaxLag)..0
  /\ Begin(p, t, (start[t] + interval[t]) % ClockMod, interval[t],
           left[t] + interval[t])

\* The timer of the call is put at the head of the list.
PutOnList ==
  /\ owner' = [owner EXCEPT ![cpu.t] = cpu.p]
  /\ timerlist' = <<cpu.t>> \o timerlist
  /\ rearmed' = IF cpu.p \in exiting THEN rearmed \cup {cpu.t}
                ELSE rearmed \ {cpu.t}

\* add_timer: a timer that is pending stays where it is, owner and all.
\* Mutant of AddTimer: the list is not looked through.
AddTimerAgain ==
  /\ cpu.k = "add"
  /\ PutOnList
  /\ cpu' = Read(FALSE)
  /\ UNCHANGED <<clock, start, interval, left, next_expiration, needspoll,
                 queue, alive, exiting, lap>>

AddTimer ==
  /\ cpu.k = "add"
  /\ IF owner[cpu.t] # NULL /\ Listed(cpu.t)
       THEN UNCHANGED <<owner, timerlist, rearmed>>
       ELSE PutOnList
  /\ cpu' = Read(FALSE)
  /\ UNCHANGED <<clock, start, interval, left, next_expiration, needspoll,
                 queue, alive, exiting, lap>>

\* update_time reads the clock once; the tick may come before it has stored.
UpdateRead ==
  /\ cpu.k = "read"
  /\ cpu' = Store(IF timerlist = << >> THEN 0 ELSE Nearest, cpu.again)
  /\ UNCHANGED <<clock, timerlist, timerVars, next_expiration, needspoll,
                 queue, procVars, lap>>

\* A timer is due, and nothing asks for the poll that would find it.
Overlooked == ~needspoll /\ \E t \in ToSet(timerlist) : left[t] <= 0

\* ... after which etimer_process starts over.
UpdateStore ==
  /\ cpu.k = "store"
  /\ next_expiration' = cpu.value
  /\ cpu' = IF cpu.again THEN Scan(1) ELSE Idle
  /\ lap' = IF lap = "over" /\ ~cpu.again /\ Overlooked THEN lap ELSE "fresh"
  /\ UNCHANGED <<clock, timerlist, timerVars, needspoll, queue, procVars>>

\* The lap of next_expiration when the timers of list are left.
LapLeft(list) ==
  LET timeOf(n) == \E t \in ToSet(timerlist) : clock + left[t] = n
  IN  IF list = << >> THEN "fresh"
      ELSE IF lap # "fresh" THEN lap
      ELSE IF timeOf(next_expiration) THEN "this"
      ELSE IF timeOf(next_expiration + ClockMod) THEN "next" ELSE "over"

\* etimer_stop
EtimerStop(p, t) ==
  /\ MayCall("stop", p, t)
  /\ timerlist' = Without({t})
  /\ owner' = [owner EXCEPT ![t] = NULL]
  /\ cpu' = IF Listed(t) THEN Read(FALSE) ELSE Idle
  /\ left' = [left EXCEPT ![t] = -MaxLag - 1]
  /\ rearmed' = rearmed \ {t}
  /\ lap' = IF Listed(t) THEN LapLeft(timerlist') ELSE lap
  /\ UNCHANGED <<clock, start, interval, next_expiration, needspoll, queue,
                 alive, exiting>>

\* Any other event is posted.
PostOther(p) ==
  /\ MayCall("post", p, NULL)
  /\ Fifo!Accept([to |-> p, timer |-> NULL]) \/ Fifo!Refuse
  /\ UNCHANGED <<clock, timerlist, timerVars, next_expiration, needspoll,
                 procVars, cpu, lap>>

\* A process exits, and etimer_process gets the EXITED event at once: it
\* takes the process's timers off the list, but leaves t->p as it is.  The
\* thread of the process runs on thereafter.
\* Mutant of ProcessExit: only the timers at the head of the list go.
ProcessExitHead(p) ==
  /\ MayCall("exit", p, NULL) /\ p \in alive
  /\ alive' = alive \ {p} /\ exiting' = exiting \cup {p}
  /\ rearmed' = {t \in rearmed : owner[t] # p}
  /\ timerlist' = IF timerlist # << >> /\ owner[timerlist[1]] = p
                    THEN Tail(timerlist) ELSE timerlist
  /\ lap' = IF timerlist' = timerlist THEN lap ELSE LapLeft(timerlist')
  /\ UNCHANGED <<clock, timerVars, next_expiration, needspoll, queue, cpu>>

ProcessExit(p) ==
  /\ MayCall("exit", p, NULL) /\ p \in alive
  /\ alive' = alive \ {p} /\ exiting' = exiting \cup {p}
  /\ rearmed' = {t \in rearmed : owner[t] # p}
  /\ timerlist' = Without({t \in Timer : owner[t] = p})
  /\ left' = [t \in Timer |-> IF owner[t] = p THEN -MaxLag - 1 ELSE left[t]]
  /\ lap' = IF timerlist' = timerlist THEN lap ELSE LapLeft(timerlist')
  /\ UNCHANGED <<clock, start, interval, owner, next_expiration, needspoll,
                 queue, cpu>>

\* The thread returns: from its EXIT event, or from the event in which its
\* process exited itself.
ExitEnds(p) ==
  /\ cpu = Idle /\ p \in exiting
  /\ exiting' = exiting \ {p}
  /\ UNCHANGED <<clock, timerlist, timerVars, next_expiration, needspoll,
                 queue, alive, rearmed, cpu, lap>>

\* A process is started, or one that has exited itself is set running again
\* when its thread returns.
ProcessStart(p) ==
  /\ cpu = Idle /\ p \notin exiting
  /\ alive' = alive \cup {p}
  /\ rearmed' = {t \in rearmed : owner[t] # p}
  /\ UNCHANGED <<clock, timerlist, timerVars, next_expiration, needspoll,
                 queue, exiting, cpu, lap>>

-----------------------------------------------------------------------------
(* process_run: the poll of etimer_process and the next event. *)

InMain == cpu = Idle /\ exiting = {}

Poll ==
  /\ InMain
  /\ needspoll
  /\ needspoll' = FALSE
  /\ cpu' = Scan(1)
  /\ UNCHANGED <<clock, timerlist, timerVars, next_expiration, queue,
                 procVars, lap>>

\* An expired timer whose event is accepted leaves the list.
ScanPost ==
  /\ cpu.k = "scan" /\ cpu.i <= Len(timerlist)
  /\ LET t == timerlist[cpu.i]
     IN  /\ TimerExpired(t)
         /\ Fifo!Accept([to |-> owner[t], timer |-> t])
         /\ owner' = [owner EXCEPT ![t] = NULL]
         /\ timerlist' = Without({t})
         /\ rearmed' = rearmed \ {t}
  /\ cpu' = Read(TRUE)
  /\ UNCHANGED <<clock, start, interval, left, next_expiration, needspoll,
                 alive, exiting, lap>>

\* One whose event is refused stays, and the process asks to be polled again.
\* Mutant of ScanRefused: it does not.
ScanRefusedForgets ==
  /\ cpu.k = "scan" /\ cpu.i <= Len(timerlist)
  /\ TimerExpired(timerlist[cpu.i])
  /\ Fifo!Refuse
  /\ cpu' = Scan(cpu.i + 1)
  /\ UNCHANGED <<clock, timerlist, timerVars, next_expiration, needspoll,
                 procVars, lap>>

ScanRefused ==
  /\ cpu.k = "scan" /\ cpu.i <= Len(timerlist)
  /\ TimerExpired(timerlist[cpu.i])
  /\ Fifo!Refuse
  /\ needspoll' = TRUE
  /\ cpu' = Scan(cpu.i + 1)
  /\ UNCHANGED <<clock, timerlist, timerVars, next_expiration, procVars, lap>>

ScanNext ==
  /\ cpu.k = "scan"
  /\ \/ /\ cpu.i > Len(timerlist)
        /\ cpu' = Idle
     \/ /\ cpu.i <= Len(timerlist)
        /\ ~TimerExpired(timerlist[cpu.i])
        /\ cpu' = Scan(cpu.i + 1)
  /\ UNCHANGED <<clock, timerlist, timerVars, next_expiration, needspoll,
                 queue, procVars, lap>>

\* do_event: the oldest event goes to its process.
Deliver ==
  /\ InMain
  /\ Fifo!Dispatch
  /\ UNCHANGED <<clock, timerlist, timerVars, next_expiration, needspoll,
                 procVars, cpu, lap>>

(***************************************************************************)
(* SysTick_Handler.  The comparison is a plain unsigned <=.  The bound     *)
(* MaxLag is on main(), which here gets no later than that with a timer.   *)
(***************************************************************************)
\* Mutant of Tick: the poll is asked for after the expiration time only.
TickLate ==
  /\ \A t \in Running : left[t] > -MaxLag
  /\ clock' = (clock + 1) % ClockMod
  /\ needspoll' = (needspoll \/ (timerlist # << >> /\ next_expiration < clock'))
  /\ left' = [t \in Timer |-> IF left[t] >= -MaxLag THEN left[t] - 1 ELSE left[t]]
  /\ lap' = IF clock' # 0 THEN lap
            ELSE IF lap = "next" THEN "this" ELSE IF lap = "this" THEN "over" ELSE lap
  /\ UNCHANGED <<timerlist, start, interval, owner, next_expiration, queue,
                 procVars, cpu>>

Tick ==
  /\ \A t \in Running : left[t] > -MaxLag
  /\ clock' = (clock + 1) % ClockMod
  /\ needspoll' = (needspoll \/ (timerlist # << >> /\ next_expiration <= clock'))
  /\ left' = [t \in Timer |-> IF left[t] >= -MaxLag THEN left[t] - 1 ELSE left[t]]
  /\ lap' = IF clock' # 0 THEN lap
            ELSE IF lap = "next" THEN "this" ELSE IF lap = "this" THEN "over" ELSE lap
  /\ UNCHANGED <<timerlist, start, interval, owner, next_expiration, queue,
                 procVars, cpu>>

Client ==
  \E p \in Proc :
    \/ \E t \in Timer :
         \/ \E length \in Interval : EtimerSet(p, t, length)
         \/ EtimerRestart(p, t) \/ EtimerReset(p, t) \/ EtimerStop(p, t)
    \/ PostOther(p) \/ ProcessExit(p) \/ ExitEnds(p) \/ ProcessStart(p)
Library == AddTimer \/ UpdateRead \/ UpdateStore
Kernel == Poll \/ ScanPost \/ ScanRefused \/ ScanNext \/ Deliver

Next == Client \/ Library \/ Kernel \/ Tick

Spec == Init /\ [][Next]_vars

\* Calls return, and so do the threads of processes that exit, time passes, and
\* process_run polls and delivers in turn.
FairSpec ==
  /\ Spec
  /\ WF_vars(Library \/ ScanPost \/ ScanRefused \/ ScanNext)
  /\ []<>(exiting = {})
  /\ SF_vars(Poll) /\ SF_vars(Deliver) /\ WF_vars(Tick)
-----------------------------------------------------------------------------
Call ==
  {Idle} \cup {Add(t, p) : t \in Timer, p \in Proc}
  \cup {Read(again) : again \in BOOLEAN}
  \cup {Store(v, again) : v \in 0..(ClockMod - 1), again \in BOOLEAN}
  \cup {Scan(i) : i \in 1..(Cardinality(Timer) + 1)}

TypeOK ==
  /\ clock \in 0..(ClockMod - 1)
  /\ timerlist \in Seq(Timer)
  /\ start \in [Timer -> 0..(ClockMod - 1)]
  /\ interval \in [Timer -> 0..(ClockMod - 1)]
  /\ owner \in [Timer -> Proc \cup {NULL}]
  /\ next_expiration \in 0..(ClockMod - 1)
  /\ needspoll \in BOOLEAN
  /\ queue \in Seq(Event) /\ Len(queue) <= NumEvents
  /\ alive \subseteq Proc /\ exiting \subseteq Proc /\ rearmed \subseteq Timer
  /\ cpu \in Call
  /\ left \in [Timer -> Int]
  /\ lap \in {"fresh", "this", "next", "over"}

(***************************************************************************)
(* No expiration is missed: once a listed timer is due, and main() is not  *)
(* in the middle of a call, a poll of etimer_process is pending - however  *)
(* ticks fall between the reading of the clock and the storing of          *)
(* next_expiration in update_time, wherever the clock wraps, and although  *)
(* the queue may have refused the event (etimer.c lines 57-77, 115-136;    *)
(* clock.c line 59).  One case is excepted: the EXITED event takes timers  *)
(* off without calling update_time, so next_expiration may be the time of  *)
(* a timer that is gone; once the clock has wrapped after that time, it is *)
(* late for the others, until it gets there again or something else asks   *)
(* for a poll; a call of update_time alone does not make good for it.      *)
(***************************************************************************)
NoMissedExpiry ==
  cpu = Idle /\ lap # "over" =>
    \A t \in ToSet(timerlist) : left[t] <= 0 => needspoll

(***************************************************************************)
(* A timer's event is never posted before its time, nor is it left on the  *)
(* list as not expired once it is due: the unsigned arithmetic of          *)
(* timer_expired agrees with the true time, across the wrap.               *)
(***************************************************************************)
ExpiredIffDue ==
  \A t \in ToSet(timerlist) : TimerExpired(t) <=> left[t] <= 0

(***************************************************************************)
(* An exit leaves none of the process's timers pending (etimer.c lines     *)
(* 90-106) but those that its thread sets after that, when exit_process    *)
(* runs it once more with PROCESS_EVENT_EXIT (process.c line 158; code     *)
(* above PROCESS_BEGIN, as in Buttons_3x4.c line 100, or in a loop, as in  *)
(* SCR_Message.c line 177): any other pending timer belongs to a process   *)
(* that runs.  And a timer is on the list once, whatever is set, stopped,  *)
(* expires and exits: add_timer takes t->p = PROCESS_NONE to mean that it  *)
(* is not there.                                                           *)
(***************************************************************************)
OwnersAlive ==
  \A t \in ToSet(timerlist) : owner[t] \in alive \/ t \in rearmed

ListedOnce ==
  /\ Cardinality(ToSet(timerlist)) = Len(timerlist)
  /\ \A t \in Timer : owner[t] = NULL => ~Listed(t)

ListSound == OwnersAlive /\ ListedOnce

(***************************************************************************)
(* A due timer is served: its event is posted even if the queue was full,  *)
(* unless the timer is set anew or stopped first.  Processes that post     *)
(* other events for ever could keep the queue full whenever the timers     *)
(* are looked at, so it is promised if that ends some time; and not when   *)
(* an exit has left an expiration time of a lap that is over.              *)
(***************************************************************************)
DueIsServed ==
  <>[][\A p \in Proc : ~PostOther(p)]_vars /\ [](lap # "over") =>
    \A t \in Timer : Listed(t) /\ left[t] <= 0 ~> ~Listed(t) \/ left[t] > 0
=============================================================================
