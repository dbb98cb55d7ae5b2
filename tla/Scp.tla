-------------------------------- MODULE Scp --------------------------------
(***************************************************************************)
(* The panel's end of the SCP protocol (ARM_src/Core/protocol/Net/SCP):    *)
(* the packet buffer with its timeouts, its eviction and its spill to the  *)
(* SD card (SCP_Buffer.c), and the connection to each device with the      *)
(* protothread that sends the packets and reads the replies (SCP_Comm.c).  *)
(*                                                                         *)
(* All of it runs in main(), but a reply or a timeout is told to the       *)
(* waiting process with process_post_synch: that process runs at once, in  *)
(* the middle of the library, and may put further packets in the buffer.   *)
(* stack is the C stack of such calls, the innermost first; when it is     *)
(* empty the process waits for the next event.                             *)
(***************************************************************************)
EXTENDS Integers, Sequences, FiniteSets, SequencesExt

CONSTANTS
  Client,      \* the processes that send through SCP
  Device,      \* the known devices, which are their own SCP_devID
  NumIds,      \* the values of SCP_msgID (256)
  NULL, SD,    \* no packet; SCP_sd_packet
  Uses,        \* the ways the library is used, of which a behaviour has one:
               \*   slots    PACKET_BUFFER_SIZE
               \*   devices  the devices that are sent to
               \*   puts     what a process puts of itself
               \*   nested   ... when a reply or a timeout has resumed it
  Server,      \* what a device sends besides replies
  RequestId,   \* the ids of its own requests
  Ticks        \* bound: seconds for which a timer has not expired at least

Kind == {"send", "buffer", "important"}
ASSUME UsesAssumption ==
  Uses \subseteq [slots : Nat \ {0}, devices : SUBSET Device,
                 puts : SUBSET Kind, nested : SUBSET Kind]
ASSUME SizeAssumption ==
  NumIds \in Nat \ {0} /\ Ticks \in Nat
ASSUME NullAssumption ==
  /\ NULL \notin Client \cup Nat \cup {SD} /\ SD \notin Nat
  /\ NULL \notin [id : Nat, dest : Device]
ASSUME ServerAssumption ==
  Server \subseteq {"request", "ignored", "garbage"} /\ RequestId \subseteq Nat

VARIABLES
  use,        \* which of Uses this behaviour has
  mem,        \* SCP_mem and SCP_sd_packet
  timer,      \* the packets' timeout: Ticks left at least, -1 when expired
  buffer,     \* SCP_buffer_list
  sd,         \* the packet in the file on the SD card
  state,      \* Device->State
  cur, last,  \* Device->Cur_Packet, Device->last_send_Packet
  place,      \* where its protothread waits: for data, or for an ACK
  answers,    \* the ids sent on the open connection and not answered
  awaits,     \* the packet a process waits for
  stack

packetVars == <<mem, timer, buffer>>
deviceVars == <<state, cur, last, place, answers>>
vars == <<packetVars, sd, deviceVars, awaits, stack>>

Slot == 1..use.slots
Packet == [proc : Client \cup {NULL}, id : Nat, dest : Device,
           send : BOOLEAN, incoming : BOOLEAN, important : BOOLEAN]

(***************************************************************************)
(* The frames of stack.                                                    *)
(*   run      a process runs; if an event resumed it, it wanted the packet *)
(*            want and got the packet got, for the reason why              *)
(*   put      SCP_Buffer_put                                               *)
(*   putin    SCP_Buffer_put_incomming                                     *)
(*   timeout  SCP_packet_timeout; told once its process has been informed  *)
(*   thread   SCP_handle_connection at its PSOCK_WAIT_UNTIL, with data     *)
(*   answered ... behind the post of a reply                               *)
(*   ignored  ... behind a request nobody executes                         *)
(*   send     ... at "Send data"                                           *)
(***************************************************************************)
Run(p, want, got, why) ==
  [k |-> "run", p |-> p, want |-> want, got |-> got, why |-> why]
Put(proc, important, d) ==
  [k |-> "put", proc |-> proc, important |-> important, d |-> d]
PutIn(d, id, ignored) == [k |-> "putin", d |-> d, id |-> id, ignored |-> ignored]
Timeout(s, told) == [k |-> "timeout", s |-> s, told |-> told]
Thread(d, data) == [k |-> "thread", d |-> d, data |-> data]
Answered(d) == [k |-> "answered", d |-> d]
Ignored(d) == [k |-> "ignored", d |-> d]
Send(d) == [k |-> "send", d |-> d]

NoData == [k |-> "none", id |-> -1]
Data(k, id) == [k |-> k, id |-> id]

Idle == stack = << >>
Top(k) == stack # << >> /\ stack[1].k = k
Call(frame) == stack' = <<frame>> \o stack
Become(frame) == stack' = <<frame>> \o Tail(stack)
Return == stack' = Tail(stack)

Buffered == ToSet(buffer)
Free == Slot \ Buffered

\* list_remove
Without(s) ==
  IF s \in Buffered
    THEN RemoveAt(buffer, CHOOSE i \in DOMAIN buffer : buffer[i] = s)
    ELSE buffer

Init ==
  /\ use \in Uses
  /\ \E d \in use.devices :
       mem = [s \in Slot \cup {SD} |->
                [proc |-> NULL, id |-> 0, dest |-> d, send |-> FALSE,
                 incoming |-> FALSE, important |-> FALSE]]
  /\ timer = [s \in Slot \cup {SD} |-> Ticks]
  /\ buffer = << >>
  /\ sd = NULL
  /\ state = [d \in Device |-> "disconnected"]
  /\ cur = [d \in Device |-> NULL]
  /\ last = [d \in Device |-> NULL]
  /\ place = [d \in Device |-> "wait"]
  /\ answers = [d \in Device |-> {}]
  /\ awaits = [p \in Client |-> NULL]
  /\ stack = << >>

-----------------------------------------------------------------------------
(* The processes that send. *)

ClientRuns(p) ==
  /\ Idle /\ awaits[p] = NULL
  /\ Call(Run(p, NULL, NULL, "own"))
  /\ UNCHANGED <<packetVars, sd, deviceVars, awaits>>

\* PT_SCP_SEND and PROCESS_SCP_SEND, BUFFER_SCP_SEND, BUFFER_SCP_SEND_IMPORTANT
ClientPuts(kind, d) ==
  /\ Top("run")
  /\ d \in use.devices
  /\ kind \in IF Len(stack) = 1 THEN use.puts ELSE use.nested
  /\ Call(Put(IF kind = "send" THEN stack[1].p ELSE NULL, kind # "buffer", d))
  /\ UNCHANGED <<packetVars, sd, deviceVars, awaits>>

ClientReturns ==
  /\ Top("run")
  /\ Return
  /\ UNCHANGED <<packetVars, sd, deviceVars, awaits>>

\* event_SCP: a process that waits takes any packet for its reply.
Post(p, s, why, frame) ==
  IF awaits[p] # NULL
    THEN /\ stack' = <<Run(p, awaits[p], s, why)>> \o (<<frame>> \o Tail(stack))
         /\ awaits' = [awaits EXCEPT ![p] = NULL]
    ELSE Become(frame) /\ UNCHANGED awaits

-----------------------------------------------------------------------------
(* The packet buffer. *)

Evict == Timeout(1, FALSE)

\* The buffer is full: the packet in the first slot times out.  The handle of
\* an incoming packet is the device's Cur_Packet, and points there already.
PutEvicts ==
  /\ Top("put") \/ Top("putin")
  /\ Free = {}
  /\ Call(Evict)
  /\ cur' = IF Top("putin") THEN [cur EXCEPT ![stack[1].d] = 1] ELSE cur
  /\ UNCHANGED <<packetVars, sd, state, last, place, answers, awaits>>

\* The packet goes into the first free slot, and its process waits for it.
Fill(s, packet, first) ==
  /\ mem' = [mem EXCEPT ![s] = packet]
  /\ timer' = [timer EXCEPT ![s] = Ticks]
  /\ buffer' = IF first THEN <<s>> \o buffer ELSE Append(buffer, s)

\* SCP_msgID counts modulo 256, which is more than the packets that anybody
\* remembers; so its values stand for ids that none of those bears.
Remembered ==
  {mem[s].id : s \in Buffered} \cup (UNION {answers[d] : d \in Device})
  \cup {mem[last[d]].id : d \in {e \in Device : last[e] # NULL}}
  \cup (IF sd = NULL THEN {} ELSE {sd.id})
NewId(id) ==
  /\ id \in (0..(NumIds - 1)) \ Remembered
  /\ \A other \in (0..(NumIds - 1)) \ Remembered : id <= other

\* Mutant of FirstFree: a slot in use is as good.
FirstFreeAny(s) == \A other \in Slot : s <= other
FirstFree(s) == s \in Free /\ \A other \in Free : s <= other

PutFills ==
  /\ Top("put")
  /\ \E s \in Slot, id \in 0..(NumIds - 1) :
       /\ FirstFree(s) /\ NewId(id)
       /\ Fill(s, [proc |-> stack[1].proc, id |-> id, dest |-> stack[1].d,
                   send |-> FALSE, incoming |-> FALSE,
                   important |-> stack[1].important],
               stack[1].important)
       /\ \/ /\ stack[1].proc = NULL
             /\ Return /\ UNCHANGED awaits
          \/ /\ stack[1].proc # NULL
             /\ awaits' = [awaits EXCEPT ![stack[1].proc] = s]
             /\ stack' = Tail(Tail(stack))
  /\ UNCHANGED <<sd, deviceVars>>

\* important is not assigned, and keeps what it was in that slot.
PutInFills ==
  /\ Top("putin")
  /\ \E s \in Slot :
       /\ FirstFree(s)
       /\ Fill(s, [proc |-> NULL, id |-> stack[1].id, dest |-> stack[1].d,
                   send |-> FALSE, incoming |-> TRUE,
                   important |-> mem[s].important], TRUE)
       /\ cur' = [cur EXCEPT ![stack[1].d] = s]
  /\ Become(IF stack[1].ignored THEN Ignored(stack[1].d) ELSE Send(stack[1].d))
  /\ UNCHANGED <<sd, state, last, place, answers, awaits>>

\* Mutant of Tell: it does not tell.
TellNot(s) == Become(Timeout(s, TRUE)) /\ UNCHANGED awaits
Tell(s) == Post(mem[s].proc, s, "timeout", Timeout(s, TRUE))

TimeoutTells ==
  /\ Top("timeout") /\ ~stack[1].told
  /\ LET s == stack[1].s
     IN  mem[s].proc # NULL /\ Tell(s)
  /\ UNCHANGED <<packetVars, sd, deviceVars>>

\* SCP_packet_to_sd creates the file anew: it holds one packet.
\* Mutant of Spilled: what has been sent is taken to have arrived.
SpilledUnsent(s) ==
  IF ~stack[1].told /\ mem[s].important /\ ~mem[s].incoming /\ ~mem[s].send
    THEN [id |-> mem[s].id, dest |-> mem[s].dest]
    ELSE sd
Spilled(s) ==
  IF ~stack[1].told /\ mem[s].important /\ ~mem[s].incoming
    THEN [id |-> mem[s].id, dest |-> mem[s].dest]
    ELSE sd

\* No device keeps the packet.
Unused(s) == [d \in Device |-> IF cur[d] = s THEN NULL ELSE cur[d]]

\* The connection that waits for its reply is closed.
\* Mutant of Closing: once its packet is acknowledged, it goes on with others.
ClosingUnsent(s) ==
  [d \in Device |->
     IF cur[d] = s /\ state[d] = "connected" /\ place[d] = "send"
       THEN "timeout" ELSE state[d]]
Closing(s) ==
  [d \in Device |->
     IF cur[d] = s /\ state[d] = "connected" THEN "timeout" ELSE state[d]]

\* Behind the post, packet is whatever its slot holds by now.  Nobody looks at
\* its timer until it is set again.
TimeoutRemoves ==
  /\ Top("timeout")
  /\ LET s == stack[1].s
     IN  /\ stack[1].told \/ mem[s].proc = NULL
         /\ sd' = Spilled(s)
         /\ buffer' = Without(s)
         /\ timer' = [timer EXCEPT ![s] = Ticks]
         /\ cur' = Unused(s)
         /\ state' = Closing(s)
  /\ Return
  /\ UNCHANGED <<mem, last, place, answers, awaits>>

\* A timer runs out; Ticks says how many times SCP_timeout_handler came before.
TimerExpires(s) ==
  /\ Idle
  /\ s \in Buffered \/ (s = SD /\ mem[SD].send)
  /\ timer[s] = 0
  /\ timer' = [timer EXCEPT ![s] = -1]
  /\ UNCHANGED <<mem, buffer, sd, deviceVars, awaits, stack>>

Down == {"offline", "retry", "disconnected"}

(***************************************************************************)
(* PROCESS_EVENT_TIMER: a device that is down gets a connection, if uIP    *)
(* has one, and the first packet of the list that has expired times out.   *)
(* The handler ends there: the packet it removed has no next any more.     *)
(***************************************************************************)
\* Mutant of FirstExpired: what has been sent is left to the device.
FirstExpiredUnsent(s) == s \in Buffered /\ timer[s] = -1 /\ ~mem[s].send
FirstExpired(s) ==
  \E i \in 1..Len(buffer) :
    /\ s = buffer[i] /\ timer[s] = -1
    /\ \A j \in 1..(i - 1) : timer[buffer[j]] # -1

Tick(d) ==
  /\ Idle /\ d \in use.devices
  /\ \/ /\ state[d] \in Down
        /\ \E new \in {"connecting", "offline"} :
             state' = [state EXCEPT ![d] = new]
     \/ UNCHANGED state
  /\ timer' = [s \in Slot \cup {SD} |-> IF timer[s] > 0 THEN timer[s] - 1 ELSE timer[s]]
  /\ mem' = [mem EXCEPT ![SD].send = @ /\ timer[SD] # -1]
  /\ \/ \E s \in Buffered : FirstExpired(s) /\ Call(Timeout(s, FALSE))
     \/ (\A s \in Buffered : ~FirstExpired(s)) /\ UNCHANGED stack
  /\ UNCHANGED <<buffer, sd, cur, last, place, answers, awaits>>

-----------------------------------------------------------------------------
(* SCP_handle_connection. *)

\* An event of the connection, while the protothread waits for data.
Receive(d, data) ==
  /\ Idle /\ state[d] = "connected" /\ place[d] = "wait"
  /\ Call(Thread(d, data))
  /\ answers' = [answers EXCEPT ![d] = @ \ {data.id}]
  /\ UNCHANGED <<packetVars, sd, state, cur, last, place, awaits>>

\* The ACK of what was sent, perhaps with data; data that comes before the ACK
\* is lost, for the protothread does not look at it.
Acked(d, data) ==
  /\ Idle /\ state[d] = "connected" /\ place[d] = "send"
  /\ IF mem[cur[d]].incoming
       THEN /\ buffer' = Without(cur[d])
            /\ cur' = [cur EXCEPT ![d] = last[d]]
            /\ UNCHANGED last
       ELSE /\ last' = [last EXCEPT ![d] = cur[d]]
            /\ UNCHANGED <<buffer, cur>>
  /\ place' = [place EXCEPT ![d] = "wait"]
  /\ Call(Thread(d, data))
  /\ answers' = [answers EXCEPT ![d] = @ \ {data.id}]
  /\ UNCHANGED <<mem, timer, sd, state, awaits>>

\* Without data it waits on, or sends if there is no packet under way.
ThreadWaits ==
  /\ Top("thread") /\ stack[1].data.k = "none"
  /\ IF cur[stack[1].d] = NULL THEN Become(Send(stack[1].d)) ELSE Return
  /\ UNCHANGED <<packetVars, sd, deviceVars, awaits>>

\* What SCP_data_to_packet cannot read ends it.
ThreadParseError ==
  /\ Top("thread") /\ stack[1].data.k = "garbage"
  /\ cur' = [cur EXCEPT ![stack[1].d] = NULL]
  /\ Return
  /\ UNCHANGED <<packetVars, sd, state, last, place, answers, awaits>>

\* SCP_data_to_packet: a message with the id of the last packet is its reply.
IsReply(d, id) ==
  last[d] # NULL /\ mem[last[d]].dest = d /\ mem[last[d]].id = id

Message == {"reply", "request", "ignored"}

ThreadReply ==
  /\ Top("thread") /\ stack[1].data.k \in Message
  /\ LET d == stack[1].d
         s == last[d]
     IN  /\ IsReply(d, stack[1].data.id)
         /\ cur' = [cur EXCEPT ![d] = s]
         /\ \/ /\ ~mem[s].incoming /\ mem[s].proc # NULL
               /\ Post(mem[s].proc, s, stack[1].data.k, Answered(d))
            \/ /\ ~mem[s].incoming /\ mem[s].proc = NULL
               /\ Become(Answered(d)) /\ UNCHANGED awaits
            \/ /\ mem[s].incoming
               /\ Become(Send(d)) /\ UNCHANGED awaits
  /\ UNCHANGED <<packetVars, sd, state, last, place, answers>>

ThreadRequest ==
  /\ Top("thread") /\ stack[1].data.k \in Message
  /\ LET f == stack[1]
     IN  /\ ~IsReply(f.d, f.data.id)
         /\ Become(PutIn(f.d, f.data.id, f.data.k = "ignored"))
  /\ UNCHANGED <<packetVars, sd, deviceVars, awaits>>

\* SCP_Buffer_remove, of whatever Cur_Packet is by now.
RemovePacket(s) ==
  /\ buffer' = Without(s)
  /\ sd' = IF s = SD THEN NULL ELSE sd

\* Mutant of Forget: the connection stays occupied with it.
ForgetLast(d) == last' = [last EXCEPT ![d] = NULL] /\ UNCHANGED cur
Forget(d) ==
  /\ cur' = [cur EXCEPT ![d] = NULL]
  /\ last' = [last EXCEPT ![d] = NULL]

ThreadAnswered ==
  /\ Top("answered")
  /\ LET d == stack[1].d
     IN  /\ RemovePacket(cur[d])
         /\ Forget(d)
         /\ Become(Send(d))
  /\ UNCHANGED <<mem, timer, state, place, answers, awaits>>

\* Mutant of IgnoredPacket: Cur_Packet is set back before the remove.
IgnoredPacketLast(d) == last[d]
IgnoredPacket(d) == cur[d]

ThreadIgnores ==
  /\ Top("ignored")
  /\ LET d == stack[1].d
     IN  /\ RemovePacket(IgnoredPacket(d))
         /\ cur' = [cur EXCEPT ![d] = last[d]]
         /\ Become(Send(d))
  /\ UNCHANGED <<mem, timer, state, last, place, answers, awaits>>

\* SCP_Buffer_get: the packet on the SD card, or the first to be sent.
\* Mutant of ToSend: one that has been sent may be sent by anybody.
ToSendAny(s, d) == mem[s].dest = d \/ mem[s].send
ToSend(s, d) == mem[s].dest = d /\ ~mem[s].send

\* Mutant of Get: it looks through the slots, not through the list.
GetSlots(d) ==
  LET ready == {s \in Slot : ToSend(s, d)}
  IN  IF ready = {} THEN NULL ELSE CHOOSE s \in ready : \A t \in ready : s <= t
Get(d) ==
  IF sd # NULL /\ sd.dest = d THEN SD
  ELSE LET ready == {i \in DOMAIN buffer : ToSend(buffer[i], d)}
       IN  IF ready = {} THEN NULL ELSE buffer[Min(ready)]

\* ... which reads the file into SCP_sd_packet, whoever that is used by.
MemAfterGet(d) ==
  IF sd = NULL THEN mem
  ELSE IF sd.dest # d THEN [mem EXCEPT ![SD].dest = sd.dest]
  ELSE [mem EXCEPT ![SD].dest = sd.dest, ![SD].id = sd.id, ![SD].send = FALSE,
                   ![SD].incoming = FALSE]

\* Mutant of Sent: the packet is not marked.
SentNot(m, s) == m
Sent(m, s) == [m EXCEPT ![s].send = TRUE]

\* "Send data": a packet that has not been sent is, and waits for its ACK.
ThreadSends ==
  /\ Top("send")
  /\ LET d == stack[1].d
         c == IF cur[d] = NULL THEN Get(d) ELSE cur[d]
         m == IF cur[d] = NULL THEN MemAfterGet(d) ELSE mem
     IN  /\ cur' = [cur EXCEPT ![d] = c]
         /\ IF c # NULL /\ ~m[c].send
              THEN
               /\ mem' = Sent(m, c)
               /\ timer' = [timer EXCEPT ![c] = Ticks]
               /\ place' = [place EXCEPT ![d] = "send"]
               /\ answers' = [answers EXCEPT ![d] =
                                IF m[c].incoming THEN @ ELSE @ \cup {m[c].id}]
              ELSE
               /\ mem' = m
               /\ UNCHANGED <<timer, place, answers>>
  /\ Return
  /\ UNCHANGED <<buffer, sd, state, last, awaits>>

-----------------------------------------------------------------------------
(* The other events of a connection. *)

\* uip_connected: SCP_Device_Sock_Begin
Connected(d) ==
  /\ Idle /\ state[d] = "connecting"
  /\ state' = [state EXCEPT ![d] = "connected"]
  /\ cur' = [cur EXCEPT ![d] = NULL]
  /\ place' = [place EXCEPT ![d] = "wait"]
  /\ UNCHANGED <<packetVars, sd, last, answers, awaits, stack>>

\* What was sent on a connection that is gone is not answered any more.
NoAnswers(d) == answers' = [answers EXCEPT ![d] = {}]

\* SCP_Device_Sock_End: what was under way is sent again.
SockEnd(d) ==
  /\ mem' = IF cur[d] = NULL THEN mem ELSE [mem EXCEPT ![cur[d]].send = FALSE]
  /\ cur' = [cur EXCEPT ![d] = NULL]

Closed(d) ==
  /\ Idle /\ state[d] \in {"connected", "timeout"}
  /\ SockEnd(d) /\ NoAnswers(d)
  /\ state' = [state EXCEPT ![d] = "disconnected"]
  /\ UNCHANGED <<timer, buffer, sd, last, place, awaits,
                 stack>>

\* uip_aborted, uip_timedout
Aborted(d) ==
  /\ Idle /\ state[d] \in {"connecting", "connected", "timeout"}
  /\ IF state[d] = "connecting" THEN UNCHANGED <<mem, cur>> ELSE SockEnd(d)
  /\ NoAnswers(d)
  /\ \E new \in {"retry", "offline"} : state' = [state EXCEPT ![d] = new]
  /\ UNCHANGED <<timer, buffer, sd, last, place, awaits,
                 stack>>

\* Any other event of a connection whose packet has timed out closes it.
CloseTimedOut(d) ==
  /\ Idle /\ state[d] = "timeout"
  /\ state' = [state EXCEPT ![d] = "disconnected"]
  /\ NoAnswers(d)
  /\ UNCHANGED <<packetVars, sd, cur, last, place, awaits, stack>>

-----------------------------------------------------------------------------
\* Bound: a device sends nothing but replies with so many outstanding.
MaxUnanswered == 2

\* What may come on the connection of d.
Incoming(d) ==
  {NoData} \cup {Data("reply", id) : id \in answers[d]}
  \cup IF Cardinality(answers[d]) >= MaxUnanswered THEN {}
       ELSE {Data(k, id) : k \in Server \ {"garbage"}, id \in RequestId}
            \cup {Data(k, -1) : k \in Server \cap {"garbage"}}

Clients ==
  \/ \E p \in Client : ClientRuns(p)
  \/ \E kind \in Kind, d \in Device : ClientPuts(kind, d)
Library ==
  \/ ClientReturns
  \/ PutEvicts \/ PutFills \/ PutInFills \/ TimeoutTells \/ TimeoutRemoves
  \/ ThreadWaits \/ ThreadParseError \/ ThreadReply \/ ThreadRequest
  \/ ThreadAnswered \/ ThreadIgnores \/ ThreadSends
Network ==
  \E d \in Device :
    \/ \E data \in Incoming(d) : Receive(d, data) \/ Acked(d, data)
    \/ Connected(d) \/ Closed(d) \/ Aborted(d) \/ CloseTimedOut(d)
Timers ==
  \/ \E s \in Slot \cup {SD} : TimerExpires(s)
  \/ \E d \in Device : Tick(d)

Next == (Clients \/ Library \/ Network \/ Timers) /\ UNCHANGED use

Spec == Init /\ [][Next]_<<use, vars>>

\* Calls return, a timer runs out, and the poll timer comes every second.
FairSpec ==
  /\ Spec
  /\ WF_vars(Library) /\ SF_vars(ClientReturns)
  /\ \A s \in UNION {1..u.slots : u \in Uses} : SF_vars(TimerExpires(s))
  /\ SF_vars(\E d \in Device : Tick(d))
-----------------------------------------------------------------------------
TypeOK ==
  /\ use \in Uses
  /\ mem \in [Slot \cup {SD} -> Packet]
  /\ timer \in [Slot \cup {SD} -> -1..Ticks]
  /\ buffer \in Seq(Slot) /\ IsInjective(buffer)
  /\ sd = NULL \/ sd \in [id : Nat, dest : Device]
  /\ state \in [Device -> Down \cup {"connecting", "connected", "timeout"}]
  /\ cur \in [Device -> Slot \cup {SD, NULL}]
  /\ last \in [Device -> Slot \cup {SD, NULL}]
  /\ place \in [Device -> {"wait", "send"}]
  /\ answers \in [Device -> SUBSET Nat]
  /\ awaits \in [Client -> Slot \cup {NULL}]

(***************************************************************************)
(* A process that waits in PT_SCP_SEND has a packet in the buffer that is  *)
(* its own: nothing removes a packet before its process was told, so the   *)
(* wait always ends, with a reply or with a timeout (SCP_Buffer.c lines    *)
(* 47-99, 170-203; SCP_Comm.c lines 334-343).                              *)
(***************************************************************************)
WaiterHasPacket ==
  \A p \in Client :
    awaits[p] # NULL => awaits[p] \in Buffered /\ mem[awaits[p]].proc = p

(***************************************************************************)
(* A process is resumed by the packet it waits for, and by a reply to it   *)
(* or its timeout: the process tests for event_SCP only, so this rests on  *)
(* last_send_Packet never pointing to a packet that is over.               *)
(***************************************************************************)
ReplyMatchesRequest ==
  \A i \in 1..Len(stack) :
    stack[i].k = "run" /\ stack[i].got # NULL =>
      stack[i].got = stack[i].want /\ stack[i].why \in {"reply", "timeout"}

(***************************************************************************)
(* The packet of the buffer a connection is occupied with is one that can  *)
(* still end, by timing out or by being answered: it is in the list and    *)
(* for this device.  Otherwise the connection sends nothing any more.      *)
(* (SCP_sd_packet is one for all devices, SCP_Buffer.c line 15: another    *)
(* connection may have it rewritten or answered, line 288.)                *)
(***************************************************************************)
CurIsLive ==
  \A d \in Device :
    Idle /\ state[d] = "connected" /\ cur[d] \notin {NULL, SD} =>
      cur[d] \in Buffered /\ mem[cur[d]].dest = d

(***************************************************************************)
(* The two together: whoever points to a packet across a wait, process or  *)
(* connection, points to one that can still end.  A connection need not if *)
(* its device sends requests: behind one, Cur_Packet becomes               *)
(* last_send_Packet, which may have timed out by then (SCP_Comm.c lines    *)
(* 332 and 370).  WaiterHasPacket holds for such devices, too.             *)
(***************************************************************************)
PointersLive == WaiterHasPacket /\ CurIsLive

(***************************************************************************)
(* Only a packet in the buffer or on the SD card is sent, never one whose  *)
(* process has been told that it timed out and acts on that.               *)
(***************************************************************************)
SendsOnlyPending ==
  [][ThreadSends => cur'[stack[1].d] \in Buffered \cup {SD, NULL}]_vars

(***************************************************************************)
(* An important packet of no process, such as a journal of the payments,   *)
(* leaves the buffer when the device it is for has answered it, or it is   *)
(* on the SD card then.                                                    *)
(***************************************************************************)
ImportantKept ==
  [][\A s \in Buffered \ ToSet(buffer') :
       mem[s].proc = NULL /\ mem[s].important /\ ~mem[s].incoming =>
         \/ /\ Top("answered")
            /\ last[stack[1].d] = s /\ mem[s].dest = stack[1].d
         \/ sd' # NULL /\ sd'.id = mem[s].id]_vars

(***************************************************************************)
(* A request is not sent twice over one connection while its reply may     *)
(* still come, whatever resends and timeouts there are; across connections *)
(* Sock_End has it sent again.                                             *)
(***************************************************************************)
NotSentTwice ==
  [][\A d \in Device :
       /\ ThreadSends /\ stack[1].d = d /\ place'[d] = "send"
       /\ cur'[d] # NULL /\ ~mem'[cur'[d]].incoming
       => mem'[cur'[d]].id \notin answers[d]]_vars

(***************************************************************************)
(* A process that waits is resumed some time, if the connections do not go *)
(* on breaking for ever: each time its packet is sent again, it has        *)
(* another 65 seconds (SCP_Comm.c line 363).                               *)
(***************************************************************************)
WaiterResumed ==
  <>[][\A d \in Device : ~Closed(d) /\ ~Aborted(d)]_vars =>
    \A p \in Client : awaits[p] # NULL ~> awaits[p] = NULL
=============================================================================
