------------------------------ MODULE Devices ------------------------------
(***************************************************************************)
(* The devices the panel talks to and their TCP connections: the list of   *)
(* devices with primary and backup servers (SCP_Device.c), SCP_process,    *)
(* which connects to them and takes the events of their connections, and   *)
(* SCP_check_process, which probes the ones that are offline (SCP_Comm.c), *)
(* over the connections of uIP (uip.c, tcpip.c).                           *)
(*                                                                         *)
(* uIP tells an event of a connection to the process in its appstate at    *)
(* once, with process_post_synch, so that an event is one step.  What the  *)
(* packets are is the subject of Scp: here a connection that is polled may *)
(* be closed, or may tell who the other end is.                            *)
(***************************************************************************)
EXTENDS Integers, Sequences, FiniteSets, SequencesExt

CONSTANTS
  Dev,          \* the memory of Devices: the pieces cmem_malloc can give
  NumConns,     \* UIP_CONNS (40), of which a behaviour may use fewer
  MaxAttempts,  \* Attempts of a device that is online (3)
  NULL,
  Address,      \* the hosts
  DevIdOf,      \* the SCP_devID of the device on a host
  Uses          \* the ways the panel is set up, of which a behaviour has one:
                \*   servers  the hosts in SCP_dev.cfg, in their order
                \*   inbound  the hosts that connect to the panel
                \*   conns    the number of connections

ASSUME NullAssumption ==
  NULL \notin Dev \cup Address /\ NULL \notin {"scp", "check"}
ASSUME DevIdAssumption == DevIdOf \in [Address -> Nat]
ASSUME SizeAssumption ==
  NumConns \in Nat \ {0} /\ MaxAttempts \in Nat \ {0}
ASSUME UsesAssumption ==
  /\ \A u \in Uses : /\ u.servers \in Seq(Address) /\ u.inbound \subseteq Address
                     /\ u.conns \in 1..NumConns
  /\ IsFiniteSet(Dev) /\ Dev = 1..Cardinality(Dev)
  /\ \A u \in Uses : Len(u.servers) <= Cardinality(Dev)

VARIABLES
  use,      \* which of Uses this behaviour has
  dev,      \* the Devices
  list,     \* SCP_device_list
  conn,     \* uip_conns: TCP state, other end, and appstate.p and .state
  loop,     \* Device_loop of SCP_process
  check,    \* SCP_check_process: its Device_loop, and whether it waits
  twice,    \* history: the Devices that have had two connections at once,
  dropped,  \*   whose connection uIP closed without an event,
  deleted   \*   that are deleted and were told an event since

vars == <<use, dev, list, conn, loop, check, twice, dropped, deleted>>

Conn == 1..use.conns
Unknown == 255   \* the SCP_devID of a device that has not said who it is

State == {"unknown", "offline", "retry", "disconnected",
          "connecting", "connected", "timeout"}
Device == [state : State, attempts : 0..MaxAttempts, buffer : BOOLEAN,
           id : Nat, ip : Address \cup {NULL}, order : Nat,
           next : Dev \cup {NULL}, prev : Dev \cup {NULL}]

\* FIN_WAIT_1 and 2 are fin_wait; CLOSING and TIME_WAIT are time_wait.
Tcp == {"closed", "syn_sent", "syn_rcvd", "established",
        "last_ack", "fin_wait", "time_wait"}
Connection == [tcp : Tcp, ip : Address \cup {NULL},
               p : {"scp", "check", NULL}, dev : Dev \cup {NULL}]

-----------------------------------------------------------------------------
(* The list of devices. *)

\* SCP_create_new_device: memory d is added to the list l of the devices m.
NewDevice(m, l, d, id, ip) ==
  LET same == {i \in DOMAIN l : m[l[i]].id = id} IN
  [e \in DOMAIN m |->
     IF e = d
       THEN [state |-> "unknown", attempts |-> MaxAttempts, buffer |-> FALSE,
             id |-> id, ip |-> ip, order |-> Cardinality(same), next |-> NULL,
             prev |-> IF same = {} THEN NULL
                      ELSE l[CHOOSE i \in same : \A j \in same : j <= i]]
       ELSE IF \E i \in same : l[i] = e THEN [m[e] EXCEPT !.next = d] ELSE m[e]]

\* SCP_Device_prev_online: behind[n] is the n-th Device before d.
PrevOnline(d) ==
  LET behind[n \in 0..Cardinality(Dev)] ==
        IF n = 0 THEN d
        ELSE LET e == behind[n - 1] IN IF e = NULL THEN NULL ELSE dev[e].prev
  IN \E n \in 1..Cardinality(Dev) : behind[n] # NULL /\ dev[behind[n]].attempts > 0

\* The first Device of D in the list behind d.  Behind one that was deleted
\* there is none: list_remove has set its next to NULL.
FirstBehind(d, D) ==
  LET from == IF d = NULL THEN 0
              ELSE IF d \in ToSet(list) THEN CHOOSE i \in DOMAIN list : list[i] = d
              ELSE Len(list)
      found == {i \in DOMAIN list : i > from /\ list[i] \in D}
  IN IF found = {} THEN NULL
     ELSE list[CHOOSE i \in found : \A j \in found : i <= j]

\* list_remove.
Without(d) ==
  IF d \in ToSet(list)
    THEN RemoveAt(list, CHOOSE i \in DOMAIN list : list[i] = d)
    ELSE list

\* SCP_Loop_known_devices.
NextKnown(d) == FirstBehind(d, {e \in Dev : dev[e].state # "unknown"})

\* SCP_Loop_active_devices: of the devices with the same SCP_devID, the first
\* with an attempt left, or else the last.  One that is unknown ends the search.
\* Device_loop is at, Device_found is found after n steps.
Search(first) ==
  LET search[n \in 0..Cardinality(Dev)] ==
        IF n = 0 THEN [at |-> first, found |-> NULL]
        ELSE LET s == search[n - 1] IN
             IF s.at # NULL /\ dev[s.at].attempts = 0
               THEN [at |-> dev[s.at].next, found |-> s.at] ELSE s
  IN search
NextActive(d) ==
  LET s == Search(FirstBehind(d, {e \in Dev : dev[e].order = 0}))[Cardinality(Dev)]
  IN IF s.at # NULL /\ dev[s.at].state # "unknown" THEN s.at ELSE s.found

-----------------------------------------------------------------------------
(* The connections. *)

Unused == [tcp |-> "closed", ip |-> NULL, p |-> NULL, dev |-> NULL]

\* A connection is taken that is closed, or else one in TIME_WAIT.
FreeConn ==
  LET closed == {c \in Conn : conn[c].tcp = "closed"} IN
  IF closed # {} THEN {CHOOSE c \in closed : \A e \in closed : c <= e}
  ELSE {c \in Conn : conn[c].tcp = "time_wait"}

\* What is left in a closed connection is read only when a host connects.
Become(c, tcp) ==
  conn' = [conn EXCEPT ![c] =
    IF tcp # "closed" THEN [@ EXCEPT !.tcp = tcp]
    ELSE IF use.inbound = {} THEN Unused
    ELSE [@ EXCEPT !.tcp = tcp, !.ip = NULL]]

\* The connections of k that may still tell device d something.
Telling(k, d) ==
  {c \in Conn : k[c].tcp # "closed" /\ k[c].p = "scp" /\ k[c].dev = d}

-----------------------------------------------------------------------------
\* SCP_Device_init: the Devices when the first i servers u of the file are made.
initial(u) ==
  LET made[i \in 0..Len(u)] ==
        IF i = 0
          THEN [d \in Dev |->
                 [state |-> "unknown", attempts |-> MaxAttempts, buffer |-> FALSE,
                  id |-> 0, ip |-> NULL, order |-> 0, next |-> NULL, prev |-> NULL]]
          ELSE NewDevice(made[i - 1], [j \in 1..(i - 1) |-> j], i, DevIdOf[u[i]], NULL)
  IN made

Init ==
  /\ use \in Uses
  /\ list = [i \in 1..Len(use.servers) |-> i]
  /\ dev = initial(use.servers)[Len(use.servers)]
  /\ conn = [c \in Conn |-> Unused]
  /\ loop = NULL
  /\ check = [loop |-> NULL, waits |-> FALSE]
  /\ twice = {} /\ dropped = {} /\ deleted = {}

\* SCP_Device_process: the address of a server has been found.
Resolved(d) ==
  /\ d <= Len(use.servers) /\ dev[d].ip = NULL
  /\ dev' = [dev EXCEPT ![d].ip = use.servers[d], ![d].state = "disconnected"]
  /\ UNCHANGED <<use, list, conn, loop, check>>

-----------------------------------------------------------------------------
(* SCP_process. *)

\* SCP_packet_timeout: one that is sent to d has no answer.
TimedOutPackets(m, D) ==
  [d \in Dev |-> IF d \in D /\ m[d].state = "connected"
                   THEN [m[d] EXCEPT !.state = "timeout"] ELSE m[d]]

ToConnect(d) ==
  d # NULL /\ dev[d].state \in {"unknown", "offline", "retry", "disconnected"}

\* Its timer: the next device is connected to, and packets time out.
Timer ==
  LET d == NextActive(loop) IN
  \E D \in SUBSET {e \in Dev : dev[e].state = "connected"} :
  /\ loop' = d
  /\ \/ /\ ToConnect(d)
        /\ \/ /\ FreeConn = {}
              /\ dev' = TimedOutPackets([dev EXCEPT ![d].state = "offline"], D)
              /\ UNCHANGED conn
           \/ \E c \in FreeConn :
                /\ conn' = [conn EXCEPT ![c] = [tcp |-> "syn_sent",
                              ip |-> dev[d].ip, p |-> "scp", dev |-> d]]
                /\ dev' = TimedOutPackets([dev EXCEPT ![d].state = "connecting"], D)
     \/ /\ ~ToConnect(d)
        /\ dev' = TimedOutPackets(dev, D)
        /\ UNCHANGED conn
  /\ UNCHANGED <<use, list, check>>

\* A full buffer makes a packet time out at any moment.
PacketEvicted(d) ==
  /\ dev[d].state = "connected"
  /\ dev' = TimedOutPackets(dev, {d})
  /\ UNCHANGED <<use, list, conn, loop, check>>

\* SCP_Device_Sock_Begin, when the Device is not connected already.
Begun(r) ==
  [r EXCEPT !.attempts = MaxAttempts, !.state = "connected",
            !.buffer = @ \/ r.state # "connected"]

\* What uip_closed, uip_aborted and uip_timedout do to a Device.
Closed(r) ==
  IF r.state = "disconnected" THEN r
  ELSE [r EXCEPT !.buffer = FALSE,
                 !.state = IF @ = "unknown" THEN @ ELSE "disconnected"]
\* Mutants of Aborted and TimedOut: Attempts wraps; the last attempt is not
\* counted; State stays.
AbortedWraps(r) ==
  [r EXCEPT !.state = "retry", !.attempts = @ - 1]
AbortedForEver(r) == [r EXCEPT !.state = "retry"]
TimedOutStays(r) == [r EXCEPT !.buffer = FALSE, !.attempts = 0]
Aborted(r) ==
  [r EXCEPT !.buffer = @ /\ r.state \notin {"connected", "timeout"},
            !.state = IF r.attempts = 0 THEN "offline" ELSE "retry",
            !.attempts = IF @ = 0 THEN 0 ELSE @ - 1]
TimedOut(r) ==
  [r EXCEPT !.buffer = @ /\ r.state \notin {"connected", "timeout"},
            !.state = "offline", !.attempts = 0]
Ended(end, r) ==
  CASE end = "closed" -> Closed(r)
    [] end = "aborted" -> Aborted(r)
    [] end = "timedout" -> TimedOut(r)

\* The end of a connection is told to SCP_process.  A Device that is deleted
\* keeps its contents until the memory is given to another.
TellScp(c, end) ==
  LET d == conn[c].dev IN
  /\ dev' = [dev EXCEPT ![d] = Ended(end, @)]
  /\ list' = IF end = "closed" /\ dev[d].state = "unknown"
               THEN Without(d) ELSE list
  /\ UNCHANGED check

-----------------------------------------------------------------------------
(* SCP_check_process. *)

ToProbe(d) == d # NULL /\ (dev[d].attempts = 0 \/ dev[d].state = "offline")

Probing(d) == [loop |-> d, waits |-> ToProbe(d)]

\* Its timer: the next device is probed if it is offline.
CheckTimer ==
  LET d == NextKnown(check.loop) IN
  /\ ~check.waits
  /\ check' = Probing(d)
  /\ \/ /\ ~ToProbe(d)
        /\ UNCHANGED conn
     \/ /\ ToProbe(d)
        /\ \/ FreeConn = {} /\ UNCHANGED conn
           \/ \E c \in FreeConn :
                conn' = [conn EXCEPT ![c] = [tcp |-> "syn_sent",
                           ip |-> dev[d].ip, p |-> "check", dev |-> NULL]]
  /\ UNCHANGED <<use, dev, list, loop>>

\* An event other than connected is told to it: whatever the connection, the
\* device it waits for is offline.
TellCheck ==
  /\ IF check.waits
       THEN dev' = [dev EXCEPT ![check.loop].state = "offline"]
       ELSE UNCHANGED dev
  /\ check' = [check EXCEPT !.waits = FALSE]
  /\ UNCHANGED list

\* tcpip_uipcall: the end of a connection is told to the process it has.
TellEnd(c, end) ==
  \/ conn[c].p = "scp" /\ TellScp(c, end)
  \/ conn[c].p = "check" /\ TellCheck
  \/ conn[c].p = NULL /\ UNCHANGED <<dev, list, check>>

-----------------------------------------------------------------------------
(* The events of uIP. *)

\* SCP_process is told that a connection it has opened is connected.
ScpConnected(c) ==
  /\ conn[c].tcp = "syn_sent" /\ conn[c].p = "scp"
  /\ Become(c, "established")
  /\ dev' = [dev EXCEPT ![conn[c].dev] = Begun(@)]
  /\ UNCHANGED <<use, list, loop, check>>

\* SCP_check_process is, and closes it if it waits for that or another one.
CheckConnected(c) ==
  /\ conn[c].tcp = "syn_sent" /\ conn[c].p = "check"
  /\ IF check.waits
       THEN /\ Become(c, "fin_wait")
            /\ dev' = [dev EXCEPT ![check.loop].attempts = MaxAttempts,
                                  ![check.loop].state = "disconnected"]
       ELSE Become(c, "established") /\ UNCHANGED dev
  /\ check' = [check EXCEPT !.waits = FALSE]
  /\ UNCHANGED <<use, list, loop>>

SynAnswered(c) == ScpConnected(c) \/ CheckConnected(c)

\* A SYN is refused, or is not answered.
SynFails(c) ==
  /\ conn[c].tcp = "syn_sent"
  /\ Become(c, "closed")
  /\ \E end \in {"aborted", "timedout"} : TellEnd(c, end)
  /\ UNCHANGED <<use, loop>>

\* A host connects.  The appstate of the connection is still the former one's.
SynReceived(a) ==
  /\ a \in use.inbound
  /\ \E c \in FreeConn : conn' = [conn EXCEPT ![c].tcp = "syn_rcvd", ![c].ip = a]
  /\ UNCHANGED <<use, dev, list, loop, check>>

\* ... and the connection is given to SCP_process, which looks for its device
\* by the address, or makes one.
Accepted(c) ==
  LET known == FirstBehind(NULL, {e \in Dev : dev[e].ip = conn[c].ip}) IN
  /\ conn[c].tcp = "syn_rcvd"
  /\ \E d \in IF known # NULL THEN {known} ELSE Dev \ ToSet(list) :
       /\ conn' = [conn EXCEPT ![c].tcp = "established", ![c].p = "scp", ![c].dev = d]
       /\ IF known # NULL
            THEN dev' = [dev EXCEPT ![d] = Begun(@)] /\ UNCHANGED list
            ELSE /\ dev' = [NewDevice(dev, list, d, Unknown, conn[c].ip)
                              EXCEPT ![d].buffer = TRUE]
                 /\ list' = Append(list, d)
  /\ UNCHANGED <<use, loop, check>>

\* ... or is gone before that, which the former connection's process is told.
SynGone(c) ==
  /\ conn[c].tcp = "syn_rcvd"
  /\ Become(c, "closed")
  /\ \E end \in {"aborted", "timedout"} : TellEnd(c, end)
  /\ UNCHANGED <<use, loop>>

\* SCP_process is polled, or has data: a device that had a timeout is closed.
TimeoutCloses(c) ==
  LET d == conn[c].dev IN
  /\ conn[c].tcp = "established" /\ conn[c].p = "scp"
  /\ dev[d].state = "timeout"
  /\ Become(c, "fin_wait")
  /\ dev' = [dev EXCEPT ![d].state = "disconnected"]
  /\ UNCHANGED <<use, list, loop, check>>

\* ... SCP_handle_connection: a backup has nothing to send and an earlier
\* server is online,
BackupCloses(c) ==
  LET d == conn[c].dev IN
  /\ conn[c].tcp = "established" /\ conn[c].p = "scp"
  /\ dev[d].state # "timeout" /\ PrevOnline(d)
  /\ Become(c, "fin_wait")
  /\ UNCHANGED <<use, dev, list, loop, check>>

\* ... the packet is too long,
GarbageCloses(c) ==
  LET d == conn[c].dev IN
  /\ conn[c].tcp = "established" /\ conn[c].p = "scp"
  /\ dev[d].state # "timeout"
  /\ Become(c, "fin_wait")
  /\ UNCHANGED <<use, dev, list, loop, check>>

\* ... or the packet tells the device (SCP_data_to_packet, SCP_Device_found).
Identified(c) ==
  LET d == conn[c].dev
      id == DevIdOf[conn[c].ip] IN
  /\ conn[c].tcp = "established" /\ conn[c].p = "scp"
  /\ dev[d].state # "timeout"
  /\ \/ /\ dev[d].state = "unknown"
        /\ dev' = [dev EXCEPT ![d].id = id, ![d].state = "connected",
             ![d].order = Cardinality({e \in ToSet(list) \ {d} : dev[e].id = id})]
     \/ /\ dev[d].state # "unknown" /\ dev[d].id \notin {0, id}
        /\ dev' = [dev EXCEPT ![d].id = id]
  /\ UNCHANGED <<use, list, conn, loop, check>>

\* SCP_check_process is polled for a connection that it did not close.
CheckPolled(c) ==
  /\ conn[c].tcp = "established" /\ conn[c].p = "check"
  /\ check.waits
  /\ TellCheck
  /\ UNCHANGED <<use, conn, loop>>

\* The other end closes: closed is told now, and again when it has had our FIN.
FinReceived(c) ==
  /\ conn[c].tcp = "established"
  /\ Become(c, "last_ack")
  /\ TellEnd(c, "closed")
  /\ UNCHANGED <<use, loop>>

LastAck(c) ==
  /\ conn[c].tcp = "last_ack"
  /\ Become(c, "closed")
  /\ TellEnd(c, "closed")
  /\ UNCHANGED <<use, loop>>

\* The other end closes as well.
FinAnswered(c) ==
  /\ conn[c].tcp = "fin_wait"
  /\ Become(c, "time_wait")
  /\ TellEnd(c, "closed")
  /\ UNCHANGED <<use, loop>>

\* uIP waits for that a while only, and tells nobody.
FinDropped(c) ==
  /\ conn[c].tcp = "fin_wait"
  /\ Become(c, "closed")
  /\ UNCHANGED <<use, dev, list, loop, check>>

TimeWaitOver(c) ==
  /\ conn[c].tcp = "time_wait"
  /\ Become(c, "closed")
  /\ UNCHANGED <<use, dev, list, loop, check>>

\* A connection is reset, or what it sent is not acknowledged.
Broken(c) ==
  /\ conn[c].tcp \in {"established", "last_ack", "fin_wait", "time_wait"}
  /\ Become(c, "closed")
  /\ \E end \in {"aborted", "timedout"} : TellEnd(c, end)
  /\ UNCHANGED <<use, loop>>

Closing(c) == LastAck(c) \/ FinAnswered(c) \/ FinDropped(c) \/ TimeWaitOver(c)

\* twice and dropped last as long as the Device has a connection, or is taken
\* to have one, and deleted until its memory is given to another.
Shared(d) == \E c, e \in Telling(conn', d) : c # e
Note ==
  /\ twice' = {d \in Dev : Shared(d) \/ (d \in twice /\ Telling(conn', d) # {})}
  /\ dropped' = {d \in Dev :
       /\ dev'[d].state \in {"connecting", "connected", "timeout"}
       /\ \/ d \in dropped
          \/ \E c \in Telling(conn, d) :
               conn[c].tcp = "fin_wait" /\ conn'[c].tcp = "closed"}
  /\ deleted' = {d \in Dev \ (ToSet(list) \cup ToSet(list')) :
                   d \in deleted \/ dev'[d] # dev[d]}

Step ==
  \/ Timer \/ CheckTimer
  \/ \E d \in Dev : Resolved(d) \/ PacketEvicted(d)
  \/ \E a \in Address : SynReceived(a)
  \/ \E c \in Conn :
       \/ SynAnswered(c) \/ SynFails(c) \/ Accepted(c) \/ SynGone(c)
       \/ TimeoutCloses(c) \/ BackupCloses(c) \/ GarbageCloses(c) \/ Identified(c)
       \/ CheckPolled(c) \/ FinReceived(c) \/ Broken(c) \/ Closing(c)

Next == Step /\ Note

\* The timers of both processes go off for ever: nothing else moves loop, or
\* check when it does not wait.  uIP sends again what is not acknowledged and
\* gives up after a number of times, and polls a connection that is established:
\* one that waits for that changes.
Pending(c) ==
  \/ conn[c].tcp \in Tcp \ {"closed", "established"}
  \/ /\ conn[c].tcp = "established" /\ conn[c].p = "scp"
     /\ dev[conn[c].dev].state = "timeout" \/ PrevOnline(conn[c].dev)
Fairness ==
  /\ []<>(NextActive(loop) = loop) \/ []<><<TRUE>>_loop
  /\ []<>(check.waits \/ Probing(NextKnown(check.loop)) = check)
     \/ []<><<~check.waits>>_check
  /\ \A c \in 1..NumConns :
       []<><<c \in Conn /\ Pending(c) => conn'[c] # conn[c]>>_vars

Spec == Init /\ [][Next]_vars /\ Fairness

-----------------------------------------------------------------------------
(* Properties. *)

\* Attempts is unsigned and counts down to 0 only; a server of the file stays
\* in the list, and SCP_check_process holds on to a Device of the list, while
\* SCP_process, next_order and prev_order may be at one that was deleted.
TypeOK ==
  /\ use \in Uses
  /\ dev \in [Dev -> Device]
  /\ list \in Seq(Dev) /\ IsInjective(list) /\ 1..Len(use.servers) \subseteq ToSet(list)
  /\ conn \in [Conn -> Connection]
  /\ loop \in Dev \cup {NULL}
  /\ check \in [loop : ToSet(list) \cup {NULL}, waits : BOOLEAN]
  /\ twice \subseteq Dev /\ dropped \subseteq Dev /\ deleted \subseteq Dev

\* A device that is not reconnected to, since its State says that it is being
\* connected or is, has a connection that will tell its end (SCP_process acts
\* on State alone).  The exception is one whose FIN uIP stopped waiting for.
ConnectionBehindState ==
  \A d \in ToSet(list) :
    dev[d].state \in {"connecting", "connected", "timeout"} =>
      \/ d \in dropped
      \/ \E c \in Telling(conn, d) :
           conn[c].tcp \in {"syn_sent", "established", "last_ack", "fin_wait"}

\* SCP_handle_connection reads into the Buffer of a Device that is in the list,
\* unless two connections have shared the Device, since each end frees the one
\* Buffer, or it was connected to after it was deleted: next_order still leads
\* to it, and the last events of its former connection set State and Attempts.
BufferWhenHandled ==
  \A c \in Conn :
    conn[c].tcp = "established" /\ conn[c].p = "scp" =>
      \/ conn[c].dev \in twice \cup deleted
      \/ conn[c].dev \in ToSet(list) /\ dev[conn[c].dev].buffer

\* The two together: what SCP_process relies on when an event comes.
StateSound == ConnectionBehindState /\ BufferWhenHandled

Servers == 1..Len(use.servers)
Serves(d) ==
  /\ dev[d].state = "connected"
  /\ \E c \in Telling(conn, d) : conn[c].tcp = "established"

\* From some time on a SYN to a server of D is answered, or is not.
To(c, D) == \E d \in D \cap Servers : conn[c].ip = use.servers[d]
SynEnds(c, states) == conn[c].tcp = "syn_sent" /\ conn'[c].tcp \in states
Answering(D) ==
  <>[][\A c \in Conn : SynEnds(c, {"closed"}) => ~To(c, D)]_vars
Silent(D) ==
  <>[][\A c \in Conn : SynEnds(c, {"established", "fin_wait"}) => ~To(c, D)]_vars

\* From some time on the check process, which takes any event for that of its
\* probe, has that connection and no other when it waits; SCP_process finds a
\* free connection; the servers are known; and none is taken to be connected
\* whose connection was dropped.
Undisturbed ==
  <>[] /\ check.waits =>
            \E c \in Conn :
              /\ conn[c].tcp = "syn_sent" /\ conn[c].ip = dev[check.loop].ip
              /\ {e \in Conn : conn[e].p = "check" /\ conn[e].tcp # "closed"} = {c}
       /\ ToConnect(NextActive(loop)) => FreeConn # {}
       /\ \A d \in Servers : dev[d].ip # NULL
       /\ dropped = {}

\* A backup serves when the servers before it are gone and do not answer; and the
\* first server serves again when it does, although a backup took over.  That
\* holds whatever was closed, reset or lost before, and again and again.
BackupServes ==
  \A d \in Dev \ {1} :
    d \in Servers /\ Undisturbed /\ Answering({d}) /\ Silent(1..(d - 1))
      => []<>(\E e \in 1..d : Serves(e))
PrimaryReturns ==
  1 \in Servers /\ Undisturbed /\ Answering({1}) => []<>Serves(1)
Reconnects == BackupServes /\ PrimaryReturns
=============================================================================
