------------------------------ MODULE Process ------------------------------
(***************************************************************************)
(* The cooperative kernel (ARM_src/Core/Process/process.c): the linked     *)
(* list of processes, the ring of posted events, the poll flags, and the   *)
(* nesting of calls on the C stack.                                        *)
(*                                                                         *)
(* One step is one stretch of C code between two points where another      *)
(* process's protothread may be entered or left; an interrupt handler may  *)
(* run between any two steps.  What a protothread does is arbitrary: while *)
(* it runs it may make any kernel call, and then it yields or ends.  The C *)
(* stack is the variable stack, a sequence of frames, the running one      *)
(* last:                                                                   *)
(*   poll, bcast, docall   the loops of do_poll, do_event and do_call      *)
(*   synch                 process_post_synch, which restores the caller   *)
(*   thread                call_process: p->thread is running              *)
(*   exit                  exit_process                                    *)
(*   bye                   the direct p->thread(EXIT) call of exit_process *)
(***************************************************************************)
EXTENDS Integers, Sequences, FiniteSets

CONSTANTS
  Proc,       \* the struct process objects of the program
  NULL,       \* the null pointer; also PROCESS_BROADCAST as a receiver
  NumEvents,  \* PROCESS_CONF_NUMEVENTS
  UserEvent,  \* the events the processes post to each other
  IrqProc,    \* the processes an interrupt handler polls (etimer, emac)
  Calls,      \* the kernel calls the protothreads of this instance make
  MaxOps,     \* bound: kernel calls in one activation of a protothread
  MaxDepth    \* bound: a protothread deeper than this makes no nested call

(***************************************************************************)
(* fevent + nevents is computed in an unsigned char (process.h:            *)
(* process_num_events_t), so twice the ring must fit in 256.               *)
(***************************************************************************)
ASSUME NumEventsAssumption == NumEvents \in 1..128
ASSUME NullAssumption == NULL \notin Proc
ASSUME ProcAssumption == IsFiniteSet(Proc)
ASSUME UserEventAssumption ==
  UserEvent \cap {"POLL", "EXITED", "NONE"} = {}
ASSUME IrqAssumption == IrqProc \subseteq Proc
ASSUME BoundAssumption == MaxOps \in Nat /\ MaxDepth \in Nat

VARIABLES
  process_list,    \* head of the list
  next,            \* p->next
  state,           \* p->state
  needspoll,       \* p->needspoll
  needscall,       \* p->needscall
  poll_requested,
  process_current,
  nevents, fevent, events,   \* the ring of posted events
  refused,         \* history: some process_post returned PROCESS_ERR_FULL
  pc,              \* where main() is: boot, or a line of process_run
  stack,           \* the nested calls, the running one last
  walk,            \* history of the broadcast in progress
  owed             \* history: listed processes whose poll request is unserved

procVars  == <<process_list, next, state, needscall, process_current>>
pollVars  == <<needspoll, poll_requested, owed>>
queueVars == <<nevents, fevent, events, refused>>
vars == <<procVars, pollVars, queueVars, pc, stack, walk>>

Pointer == Proc \cup {NULL}
Ev      == UserEvent \cup {"INIT", "POLL", "EXIT", "EXITED"}
Entry   == [ev : UserEvent \cup {"NONE"}, p : Pointer]
Kind    == {"poll", "bcast", "docall", "synch", "thread", "exit", "bye"}
Place   == {"visit", "deliver", "advance", "self", "unlink", "run"}

(***************************************************************************)
(* A frame: at is where in its C function it is, p the loop cursor or the  *)
(* running process, of the process that is exiting, from and saved the     *)
(* locals fromprocess and old_current/caller, n the calls it has made.     *)
(***************************************************************************)
FrameType ==
  [k : Kind, at : Place, p : Pointer, of : Pointer, from : Pointer,
   saved : Pointer, ev : Ev \cup {"NONE"}, n : 0..MaxOps]

Frame(k, at, p) ==
  [k |-> k, at |-> at, p |-> p, of |-> NULL, from |-> NULL, saved |-> NULL,
   ev |-> "NONE", n |-> 0]

Top      == stack[Len(stack)]
Running(kind) == stack # << >> /\ Top.k = kind
Below    == SubSeq(stack, 1, Len(stack) - 1)
Replace(f) == [stack EXCEPT ![Len(stack)] = f]
AtPlace(kind, place) == Running(kind) /\ Top.at = place
IsThread(f) == f.k \in {"thread", "bye"}
InThread == stack # << >> /\ IsThread(Top)

(***************************************************************************)
(* The list: the nodes met from a pointer on, and membership.  No cycle is *)
(* assumed: at most Cardinality(Proc) links are followed.                  *)
(***************************************************************************)
Follow(q) ==
  LET at[i \in 0..Cardinality(Proc)] ==
        IF i = 0 THEN q
        ELSE IF at[i - 1] = NULL THEN NULL ELSE next[at[i - 1]]
  IN  {at[i] : i \in 0..Cardinality(Proc)} \ {NULL}

OnList(p) == p \in Follow(process_list)

(***************************************************************************)
(* The event ring.                                                         *)
(***************************************************************************)
\* Mutant of Slot: the ring does not start at fevent.
SlotFromZero(i) == (i % 256) % NumEvents
Slot(i) == ((fevent + i) % 256) % NumEvents

Queue == [i \in 1..nevents |-> events[Slot(i - 1)]]

\* Mutant of Enqueue: the full ring is not looked at.
EnqueueUnchecked(entry) ==
  /\ events' = [events EXCEPT ![Slot(nevents)] = entry]
  /\ nevents' = nevents + 1
  /\ UNCHANGED <<fevent, refused>>

\* process_post: a full ring refuses the event.
Enqueue(entry) ==
  IF nevents = NumEvents
    THEN refused' = TRUE /\ UNCHANGED <<nevents, fevent, events>>
    ELSE /\ events' = [events EXCEPT ![Slot(nevents)] = entry]
         /\ nevents' = nevents + 1
         /\ UNCHANGED <<fevent, refused>>

\* process_event_in_list
EventInList(ev) == \E i \in 1..nevents : Queue[i].ev = ev

(***************************************************************************)
(* call_process: only a process whose state has the RUNNING bit is called; *)
(* one that is already being called (CALLED) or has exited is skipped.     *)
(* st is the state function the call starts from, S the stack it pushes on.*)
(***************************************************************************)
Callable(st, p) == st[p] = "RUNNING"

Call(st, S, p, ev) ==
  IF Callable(st, p)
    THEN /\ process_current' = p
         /\ state' = [st EXCEPT ![p] = "CALLED"]
         /\ stack' = Append(S, [Frame("thread", "run", p) EXCEPT !.ev = ev])
    ELSE /\ state' = st
         /\ stack' = S
         /\ UNCHANGED process_current

\* Mutant of ExitFrame: old_current is read after process_current = p.
ExitFrameLateSave(p, from) ==
  [k |-> "exit", at |-> IF state[p] # "NONE" THEN "visit" ELSE "unlink",
   p |-> process_list, of |-> p, from |-> from, saved |-> p,
   ev |-> "NONE", n |-> 0]

\* The frame of exit_process(p, fromprocess), which remembers who was running.
ExitFrame(p, from) ==
  [k |-> "exit", at |-> IF state[p] # "NONE" THEN "visit" ELSE "unlink",
   p |-> process_list, of |-> p, from |-> from, saved |-> process_current,
   ev |-> "NONE", n |-> 0]

\* exit_process up to its first loop: nothing when p is not on the list;
\* otherwise the process stops running and the walk over the others starts.
BeginExit(p, from, S) ==
  /\ IF OnList(p)
       THEN /\ state' = [state EXCEPT ![p] = "NONE"]
            /\ stack' = Append(S, ExitFrame(p, from))
       ELSE /\ stack' = S
            /\ UNCHANGED state
  /\ UNCHANGED process_current

-----------------------------------------------------------------------------
\* History of a broadcast: the processes called, called again, and started.
NoWalk == [seen |-> {}, twice |-> {}, fresh |-> {}]

(***************************************************************************)
(* main(): the processes are started first, then process_run for ever.     *)
(***************************************************************************)
Init ==
  /\ process_list = NULL
  /\ next = [p \in Proc |-> NULL]
  /\ state = [p \in Proc |-> "NONE"]
  /\ needspoll = [p \in Proc |-> FALSE]
  /\ needscall = [p \in Proc |-> FALSE]
  /\ poll_requested = FALSE
  /\ process_current = NULL
  /\ nevents = 0 /\ fevent = 0
  /\ events = [i \in 0..(NumEvents - 1) |-> [ev |-> "NONE", p |-> NULL]]
  /\ refused = FALSE
  /\ pc = "boot"
  /\ stack = << >>
  /\ walk = NoWalk
  /\ owed = {}

InMain(where) == stack = << >> /\ pc = where

\* Mutant of Start: the list is not searched first.
StartUnchecked(p, S) ==
  /\ next' = [next EXCEPT ![p] = process_list]
  /\ process_list' = p
  /\ Call([state EXCEPT ![p] = "RUNNING"],
          Append(S, [Frame("synch", "run", NULL) EXCEPT
                       !.saved = process_current]),
          p, "INIT")
  /\ UNCHANGED walk

\* process_start: a process on the list is left alone; another is pushed on
\* the front, runs, and gets its INIT event synchronously.
Start(p, S) ==
  IF OnList(p)
    THEN /\ stack' = S
         /\ UNCHANGED <<process_list, next, state, process_current, walk>>
    ELSE /\ next' = [next EXCEPT ![p] = process_list]
         /\ process_list' = p
         /\ Call([state EXCEPT ![p] = "RUNNING"],
                 Append(S, [Frame("synch", "run", NULL) EXCEPT
                              !.saved = process_current]),
                 p, "INIT")
         /\ walk' = IF stack # << >> /\ stack[1].k = "bcast"
                      THEN [walk EXCEPT !.fresh = @ \cup {p}] ELSE walk

BootStart(p) ==
  /\ InMain("boot")
  /\ ~OnList(p)
  /\ Start(p, stack)
  /\ UNCHANGED <<needscall, pollVars, queueVars, pc>>

EnterLoop ==
  /\ InMain("boot")
  /\ pc' = "poll"
  /\ UNCHANGED <<procVars, pollVars, queueVars, stack, walk>>

\* Mutant of RunPoll: while(poll_requested) instead of if.
RunPollUntilQuiet ==
  /\ InMain("poll")
  /\ pc' = IF poll_requested THEN "poll" ELSE "event"
  /\ stack' = IF poll_requested
                THEN <<Frame("poll", "visit", process_list)>>
                ELSE << >>
  /\ poll_requested' = FALSE
  /\ UNCHANGED <<procVars, needspoll, owed, queueVars, walk>>

\* process_run, line 1: if(poll_requested) do_poll().
RunPoll ==
  /\ InMain("poll")
  /\ pc' = "event"
  /\ stack' = IF poll_requested
                THEN <<Frame("poll", "visit", process_list)>>
                ELSE << >>
  /\ poll_requested' = FALSE
  /\ UNCHANGED <<procVars, needspoll, owed, queueVars, walk>>

\* do_event: take the oldest event; a broadcast starts a walk over the list,
\* another goes to its receiver, which an INIT event also puts in RUNNING.
RunEvent ==
  /\ InMain("event")
  /\ pc' = "call"
  /\ IF nevents = 0
       THEN UNCHANGED <<procVars, queueVars, stack>>
       ELSE LET e == events[fevent]
            IN  /\ fevent' = (fevent + 1) % NumEvents
                /\ nevents' = nevents - 1
                /\ IF e.p = NULL
                     THEN /\ stack' = <<[Frame("bcast", "visit", process_list)
                                           EXCEPT !.ev = e.ev]>>
                          /\ UNCHANGED <<state, process_current>>
                     ELSE /\ Call(IF e.ev = "INIT"
                                      THEN [state EXCEPT ![e.p] = "RUNNING"]
                                      ELSE state,
                                  << >>, e.p, e.ev)
                /\ UNCHANGED <<process_list, next, needscall, events, refused>>
  /\ UNCHANGED <<pollVars, walk>>

\* process_run, last line: do_call().
RunCall ==
  /\ InMain("call")
  /\ pc' = "poll"
  /\ stack' = <<Frame("docall", "visit", process_list)>>
  /\ UNCHANGED <<procVars, pollVars, queueVars, walk>>

-----------------------------------------------------------------------------
(***************************************************************************)
(* The three loops over the list.  A cursor reads p->next only after the   *)
(* call it made for p has returned.                                        *)
(***************************************************************************)
LoopKind == {"poll", "bcast", "docall"}

\* Mutant of LoopEnd: do_poll clears poll_requested when it ends.
LoopEndClears ==
  /\ \E k \in LoopKind : AtPlace(k, "visit")
  /\ Top.p = NULL
  /\ stack' = Below
  /\ walk' = IF Top.k = "bcast" THEN NoWalk ELSE walk
  /\ poll_requested' = IF Top.k = "poll" THEN FALSE ELSE poll_requested
  /\ UNCHANGED <<procVars, needspoll, owed, queueVars, pc>>

LoopEnd ==
  /\ \E k \in LoopKind : AtPlace(k, "visit")
  /\ Top.p = NULL
  /\ stack' = Below
  /\ walk' = IF Top.k = "bcast" THEN NoWalk ELSE walk
  /\ UNCHANGED <<procVars, pollVars, queueVars, pc>>

\* Mutant of LoopAdvance: the loop starts over after each call.
LoopAdvanceRestarts ==
  /\ \E k \in LoopKind : AtPlace(k, "advance")
  /\ stack' = Replace([Top EXCEPT !.at = "visit", !.p = process_list])
  /\ UNCHANGED <<procVars, pollVars, queueVars, pc, walk>>

LoopAdvance ==
  /\ \E k \in LoopKind : AtPlace(k, "advance")
  /\ stack' = Replace([Top EXCEPT !.at = "visit", !.p = next[Top.p]])
  /\ UNCHANGED <<procVars, pollVars, queueVars, pc, walk>>

\* The POLL calls of do_poll and do_call put the process in RUNNING first,
\* whatever its state is.
CallPoll(p) ==
  /\ needspoll' = [needspoll EXCEPT ![p] = FALSE]
  /\ owed' = owed \ {p}
  /\ Call([state EXCEPT ![p] = "RUNNING"],
          Replace([Top EXCEPT !.at = "advance"]), p, "POLL")

PollVisit ==
  /\ AtPlace("poll", "visit")
  /\ Top.p # NULL
  /\ IF needspoll[Top.p]
       THEN CallPoll(Top.p)
       ELSE /\ stack' = Replace([Top EXCEPT !.p = next[Top.p]])
            /\ UNCHANGED <<needspoll, owed, state, process_current>>
  /\ UNCHANGED <<process_list, next, needscall, poll_requested, queueVars, pc,
                 walk>>

\* do_event and do_call serve a pending poll request before each process.
InnerPoll ==
  /\ \E k \in {"bcast", "docall"} : AtPlace(k, "visit")
  /\ Top.p # NULL
  /\ poll_requested' = FALSE
  /\ LET here == Replace([Top EXCEPT !.at = "deliver"])
     IN  stack' = IF poll_requested
                    THEN Append(here, Frame("poll", "visit", process_list))
                    ELSE here
  /\ UNCHANGED <<procVars, needspoll, owed, queueVars, pc, walk>>

BroadcastDeliver ==
  /\ AtPlace("bcast", "deliver")
  /\ Call(state, Replace([Top EXCEPT !.at = "advance"]), Top.p, Top.ev)
  /\ walk' = IF Callable(state, Top.p)
               THEN [walk EXCEPT !.seen = @ \cup {Top.p},
                                 !.twice = @ \cup ({Top.p} \cap walk.seen)]
               ELSE walk
  /\ UNCHANGED <<process_list, next, needscall, pollVars, queueVars, pc>>

CallDeliver ==
  /\ AtPlace("docall", "deliver")
  /\ IF needscall[Top.p]
       THEN CallPoll(Top.p)
       ELSE /\ stack' = Replace([Top EXCEPT !.at = "advance"])
            /\ UNCHANGED <<needspoll, owed, state, process_current>>
  /\ UNCHANGED <<process_list, next, needscall, poll_requested, queueVars, pc,
                 walk>>

-----------------------------------------------------------------------------
(***************************************************************************)
(* What a running protothread may do.                                      *)
(***************************************************************************)
MayCall(name) ==
  /\ InThread
  /\ name \in Calls
  /\ Top.n < MaxOps

\* The calling frame, with this call counted.
Counted == Replace([Top EXCEPT !.n = @ + 1])

ThreadPost(to, ev) ==
  /\ MayCall("post")
  /\ Enqueue([ev |-> ev, p |-> to])
  /\ stack' = Counted
  /\ UNCHANGED <<procVars, pollVars, pc, walk>>

ThreadPostSynch(q, ev) ==
  /\ MayCall("synch") /\ Len(stack) <= MaxDepth
  /\ Call(state, Append(Counted, [Frame("synch", "run", NULL) EXCEPT
                                    !.saved = process_current]), q, ev)
  /\ UNCHANGED <<process_list, next, needscall, pollVars, queueVars, pc, walk>>

ThreadStart(q) ==
  /\ MayCall("start") /\ Len(stack) <= MaxDepth
  /\ Start(q, Counted)
  /\ UNCHANGED <<needscall, pollVars, queueVars, pc>>

ThreadExit(q) ==
  /\ MayCall("exit") /\ Len(stack) <= MaxDepth
  /\ BeginExit(q, process_current, Counted)
  /\ UNCHANGED <<process_list, next, needscall, pollVars, queueVars, pc, walk>>

\* Mutant of RequestPoll: only the flag of the process is raised.
RequestPollFlagOnly(q) ==
  /\ needspoll' = IF state[q] # "NONE"
                    THEN [needspoll EXCEPT ![q] = TRUE] ELSE needspoll
  /\ owed' = IF state[q] # "NONE" /\ OnList(q) THEN owed \cup {q} ELSE owed
  /\ UNCHANGED poll_requested

\* process_poll does nothing for a process that does not run.
RequestPoll(q) ==
  IF state[q] # "NONE"
    THEN /\ needspoll' = [needspoll EXCEPT ![q] = TRUE]
         /\ poll_requested' = TRUE
         /\ owed' = IF OnList(q) THEN owed \cup {q} ELSE owed
    ELSE UNCHANGED pollVars

ThreadPoll(q) ==
  /\ MayCall("poll")
  /\ RequestPoll(q)
  /\ stack' = Counted
  /\ UNCHANGED <<procVars, queueVars, pc, walk>>

\* process_add_poll_event
ThreadAddPollEvent(q) ==
  /\ MayCall("addpoll")
  /\ needscall' = IF state[q] # "NONE"
                    THEN [needscall EXCEPT ![q] = TRUE] ELSE needscall
  /\ stack' = Counted
  /\ UNCHANGED <<process_list, next, state, process_current, pollVars,
                 queueVars, pc, walk>>

\* Mutant of ThreadYield: the state is not put back to RUNNING.
ThreadYieldStays ==
  /\ Running("thread")
  /\ Top.ev # "EXIT"
  /\ stack' = Below
  /\ UNCHANGED <<procVars, pollVars, queueVars, pc, walk>>

\* The protothread waits again.  call_process puts the state back to RUNNING
\* whatever happened to the process meanwhile; an EXIT event ends it anyway.
ThreadYield ==
  /\ Running("thread")
  /\ Top.ev # "EXIT"
  /\ state' = [state EXCEPT ![Top.p] = "RUNNING"]
  /\ stack' = Below
  /\ UNCHANGED <<process_list, next, needscall, process_current, pollVars,
                 queueVars, pc, walk>>

\* The protothread ends (PT_EXITED, PT_ENDED, or any return from EXIT).
ThreadEnd ==
  /\ Running("thread")
  /\ "end" \in Calls \/ Top.ev = "EXIT"
  /\ BeginExit(Top.p, Top.p, Below)
  /\ UNCHANGED <<process_list, next, needscall, pollVars, queueVars, pc, walk>>

\* The direct EXIT call of exit_process returns: its result is not looked at.
ByeReturn ==
  /\ Running("bye")
  /\ stack' = Below
  /\ UNCHANGED <<procVars, pollVars, queueVars, pc, walk>>

\* Mutant of SynchReturn: the caller is not restored.
SynchReturnForgets ==
  /\ Running("synch")
  /\ stack' = Below
  /\ UNCHANGED <<procVars, pollVars, queueVars, pc, walk>>

\* process_post_synch restores the caller.
SynchReturn ==
  /\ Running("synch")
  /\ process_current' = Top.saved
  /\ stack' = Below
  /\ UNCHANGED <<process_list, next, state, needscall, pollVars, queueVars, pc,
                 walk>>

-----------------------------------------------------------------------------
(***************************************************************************)
(* exit_process: every other process is told (EXITED), then the process    *)
(* itself if it is not the one asking (EXIT), then it leaves the list.     *)
(***************************************************************************)
ExitNotify ==
  /\ AtPlace("exit", "visit")
  /\ Top.p # NULL
  /\ IF Top.p # Top.of
       THEN Call(state, Replace([Top EXCEPT !.at = "advance"]), Top.p, "EXITED")
       ELSE /\ stack' = Replace([Top EXCEPT !.at = "advance"])
            /\ UNCHANGED <<state, process_current>>
  /\ UNCHANGED <<process_list, next, needscall, pollVars, queueVars, pc, walk>>

ExitAdvance ==
  /\ AtPlace("exit", "advance")
  /\ stack' = Replace([Top EXCEPT !.at = "visit", !.p = next[Top.p]])
  /\ UNCHANGED <<procVars, pollVars, queueVars, pc, walk>>

ExitSelf ==
  /\ AtPlace("exit", "visit")
  /\ Top.p = NULL
  /\ LET here == Replace([Top EXCEPT !.at = "unlink"])
     IN  IF Top.of # Top.from
           THEN /\ process_current' = Top.of
                /\ stack' = Append(here, [Frame("bye", "run", Top.of) EXCEPT
                                            !.ev = "EXIT"])
           ELSE /\ stack' = here
                /\ UNCHANGED process_current
  /\ UNCHANGED <<process_list, next, state, needscall, pollVars, queueVars, pc,
                 walk>>

\* Mutant of ExitUnlink: the link of the process that leaves is cleared.
ExitUnlinkClears ==
  /\ AtPlace("exit", "unlink")
  /\ LET p == Top.of
     IN  /\ process_list' = IF p = process_list THEN next[p] ELSE process_list
         /\ next' = [q \in Proc |->
                       IF q = p THEN NULL
                       ELSE IF OnList(q) /\ next[q] = p THEN next[p]
                       ELSE next[q]]
  /\ process_current' = Top.saved
  /\ stack' = Below
  /\ owed' = owed \ {Top.of}
  /\ UNCHANGED <<state, needscall, needspoll, poll_requested, queueVars, pc,
                 walk>>

\* Mutant of ExitUnlink: only the head of the list can leave it.
ExitUnlinkHeadOnly ==
  /\ AtPlace("exit", "unlink")
  /\ process_list' = IF Top.of = process_list THEN next[process_list]
                     ELSE process_list
  /\ process_current' = Top.saved
  /\ stack' = Below
  /\ owed' = owed \ {Top.of}
  /\ UNCHANGED <<next, state, needscall, needspoll, poll_requested, queueVars,
                 pc, walk>>

ExitUnlink ==
  /\ AtPlace("exit", "unlink")
  /\ LET p == Top.of
     IN  IF p = process_list
           THEN process_list' = next[process_list] /\ UNCHANGED next
           ELSE /\ next' = [q \in Proc |->
                              IF OnList(q) /\ next[q] = p THEN next[p]
                              ELSE next[q]]
                /\ UNCHANGED process_list
  /\ process_current' = Top.saved
  /\ stack' = Below
  /\ owed' = owed \ {Top.of}
  /\ UNCHANGED <<state, needscall, needspoll, poll_requested, queueVars, pc,
                 walk>>

\* SysTick_Handler and the Ethernet interrupt call process_poll at any time.
Interrupt(p) ==
  /\ RequestPoll(p)
  /\ UNCHANGED <<procVars, queueVars, pc, stack, walk>>

-----------------------------------------------------------------------------
Main   == (\E p \in Proc : BootStart(p)) \/ EnterLoop \/ RunPoll \/ RunEvent
          \/ RunCall
Loops  == LoopEnd \/ LoopAdvance \/ PollVisit \/ InnerPoll \/ BroadcastDeliver
          \/ CallDeliver
Thread == \/ \E to \in Pointer, ev \in UserEvent : ThreadPost(to, ev)
          \/ \E q \in Proc, ev \in UserEvent : ThreadPostSynch(q, ev)
          \/ \E q \in Proc : \/ ThreadStart(q) \/ ThreadExit(q)
                             \/ ThreadPoll(q) \/ ThreadAddPollEvent(q)
          \/ ThreadYield \/ ThreadEnd \/ ByeReturn \/ SynchReturn
Exit   == ExitNotify \/ ExitAdvance \/ ExitSelf \/ ExitUnlink

Step == Main \/ Loops \/ Thread \/ Exit
Next == Step \/ \E p \in IrqProc : Interrupt(p)

Spec == Init /\ [][Next]_vars

\* The processor never stops, and main starts finitely many processes before
\* it enters process_run for good.
FairSpec == Spec /\ WF_vars(Step) /\ SF_vars(EnterLoop)
-----------------------------------------------------------------------------
TypeOK ==
  /\ process_list \in Pointer
  /\ next \in [Proc -> Pointer]
  /\ state \in [Proc -> {"NONE", "RUNNING", "CALLED"}]
  /\ needspoll \in [Proc -> BOOLEAN]
  /\ needscall \in [Proc -> BOOLEAN]
  /\ poll_requested \in BOOLEAN
  /\ process_current \in Pointer
  /\ nevents \in 0..NumEvents
  /\ fevent \in 0..(NumEvents - 1)
  /\ events \in [0..(NumEvents - 1) -> Entry]
  /\ refused \in BOOLEAN
  /\ pc \in {"boot", "poll", "event", "call"}
  /\ stack \in Seq(FrameType)
  /\ walk \in [seen : SUBSET Proc, twice : SUBSET Proc, fresh : SUBSET Proc]
  /\ owed \in SUBSET Proc

(***************************************************************************)
(* The list stays a list: however starts and exits nest, the pointers from *)
(* process_list reach NULL (process_start lines 107-115, exit_process      *)
(* lines 162-171 relink it while loops over it are suspended).             *)
(***************************************************************************)
Chain(q) ==
  LET at[i \in 0..Cardinality(Proc)] ==
        IF i = 0 THEN q
        ELSE IF at[i - 1] = NULL THEN NULL ELSE next[at[i - 1]]
  IN  at[Cardinality(Proc)]

ListEnds == Chain(process_list) = NULL

(***************************************************************************)
(* A running protothread is PROCESS_CURRENT(): etimer_set and the SCP send *)
(* macros take the owner of a timer or of a packet from it, so a nested    *)
(* call that came back without restoring it would charge them to another   *)
(* process (process_post_synch line 390, exit_process line 173).           *)
(***************************************************************************)
CurrentIsRunner == InThread => process_current = Top.p

(***************************************************************************)
(* The shape of the C stack that CurrentIsRunner rests on: a frame carries *)
(* the locals its place needs, and what lies directly on a running         *)
(* protothread is a synchronous post or an exit it asked for, which holds  *)
(* that protothread's process in its caller/old_current local.             *)
(***************************************************************************)
FrameOK(f) ==
  /\ IsThread(f) \/ f.at \in {"deliver", "advance"} => f.p # NULL
  /\ f.k = "exit" => f.of # NULL

CallerSaved(below, f) ==
  IsThread(below) => f.k \in {"synch", "exit"} /\ f.saved = below.p

WellNested(S) ==
  /\ \A i \in 1..Len(S) : FrameOK(S[i])
  /\ \A i \in 1..(Len(S) - 1) : CallerSaved(S[i], S[i + 1])

StackWellNested == WellNested(stack)

(***************************************************************************)
(* No process is silenced: call_process skips one that is NONE or CALLED   *)
(* (line 187), so the mark CALLED is on no listed process without an       *)
(* activation that will reset it, and between two calls of main(), however *)
(* exits, starts and synchronous posts were nested, every process on the   *)
(* list can be called.                                                     *)
(***************************************************************************)
CalledIsActive ==
  \A p \in Proc : OnList(p) /\ state[p] = "CALLED" =>
     \E i \in 1..Len(stack) : stack[i].k = "thread" /\ stack[i].p = p

ListedRuns ==
  stack = << >> => \A p \in Proc : OnList(p) => state[p] = "RUNNING"

NoneSilenced == CalledIsActive /\ ListedRuns

(***************************************************************************)
(* A broadcast reaches every process that was on the list when it started  *)
(* and still is when it ends, although the processes it calls may exit and *)
(* start others under the loop's cursor (do_event lines 298-307), and      *)
(* nobody gets it twice unless some process was started meanwhile.         *)
(***************************************************************************)
BroadcastDelivers ==
  /\ AtPlace("bcast", "visit") /\ Top.p = NULL =>
       \A p \in Proc : OnList(p) => p \in walk.seen \cup walk.fresh
  /\ Running("bcast") /\ walk.fresh = {} => walk.twice = {}

(***************************************************************************)
(* A poll request made of a listed process is never lost: until the        *)
(* process is polled or leaves the list, its flag stays up and either      *)
(* poll_requested is up too or a do_poll loop is still to pass the process *)
(* (do_poll, do_call, process_poll, run against interrupts at any point).  *)
(***************************************************************************)
PollKept ==
  \A p \in owed :
    /\ needspoll[p]
    /\ \/ poll_requested
       \/ \E i \in 1..Len(stack) :
            /\ stack[i].k = "poll"
            /\ p \in Follow(IF stack[i].at = "visit" THEN stack[i].p
                            ELSE next[stack[i].p])

(***************************************************************************)
(* exit_process passes over nobody but the processes whose calls led to    *)
(* the exit: they are CALLED or exiting themselves.                        *)
(***************************************************************************)
ExitSkipsOnlyCallers ==
  AtPlace("exit", "visit") /\ Top.p \notin {NULL, Top.of} /\ OnList(Top.p) =>
    \/ Callable(state, Top.p)
    \/ \E i \in 1..Len(stack) :
         \/ IsThread(stack[i]) /\ stack[i].p = Top.p
         \/ stack[i].k = "exit" /\ stack[i].of = Top.p

(***************************************************************************)
(* A poll request is served although interrupts and posts never stop:      *)
(* process_run takes one turn of polling, one event and one turn of calls. *)
(* A loop over the list ends only if processes are not started at its head *)
(* for ever, by each other's INIT events; the program's starts end.        *)
(***************************************************************************)
StartsEnd == <>[][\A q \in Proc : ~ThreadStart(q)]_vars

PollServed ==
  StartsEnd => \A p \in Proc : p \in owed ~> p \notin owed

(***************************************************************************)
(* ... and a full event queue is always drained: however often interrupts  *)
(* ask for polls, process_run goes on to the next event.                   *)
(***************************************************************************)
FullQueueDrains ==
  StartsEnd => (nevents = NumEvents ~> nevents < NumEvents)

(***************************************************************************)
(* The ring implements the bounded queue of EventFifo: events are          *)
(* dispatched in the order they were posted in, none is lost, overwritten  *)
(* or met twice, and one is refused only when the ring is full, wherever   *)
(* in the ring fevent stands (process.c lines 267-299, 344-382).           *)
(***************************************************************************)
Fifo == INSTANCE EventFifo WITH
  Event <- Entry, Capacity <- NumEvents, queue <- Queue, refused <- refused
QueueIsFifo == Fifo!FifoSpec
=============================================================================
