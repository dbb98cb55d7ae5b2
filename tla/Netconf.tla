------------------------------ MODULE Netconf ------------------------------
(***************************************************************************)
(* How the panel comes to know the network: the DHCP client (dhcp.c,       *)
(* dhcpc.c), the resolver and its table of names (resolv.c), and those who *)
(* wait for an address: the devices (Net_Dev_Init.c, SCP_Device.c) and the *)
(* time service (ntpd.c) until it has found a server.                      *)
(*                                                                         *)
(* They share the event queue, whose room others take too, and the UDP     *)
(* connections.  What was sent may be answered at any time from then on,   *)
(* again, or never: datagrams are lost, duplicated and reordered.  Time is *)
(* abstracted: a timer that is set may expire at any time.                 *)
(***************************************************************************)
EXTENDS Integers, Sequences, FiniteSets, SequencesExt, FiniteSetsExt

CONSTANTS
  Name,         \* the URLs
  Literal,      \* the URLs that are an address already
  NULL,
  Width,        \* the values of a uint8_t (256)
  MaxRetries,   \* RESOLV_CONF_MAX_RETRIES (14)
  Pace,         \* a question waits for Pace passes more after each retry (4)
  MaxRequests,  \* the requests after which DHCP starts anew (11)
  QueueSize,    \* the events that find room (PROCESS_CONF_NUMEVENTS, 32)
  MaxGiveUps,   \* bound: how often the time service gives a server up
  Uses          \* the ways the panel is set up, of which a behaviour has one:
                \*   dhcp     whether the address comes from a DHCP server
                \*   urls     the URLs in SCP_dev.cfg, in their order
                \*   ntp      the URLs of the time servers
                \*   entries  RESOLV_ENTRIES (10)
                \*   udp      the UDP connections that are free (UIP_UDP_CONNS, 10)
                \*   busy     whether other events may fill the queue

ASSUME WidthAssumption ==
  /\ Width \in Nat /\ MaxRetries \in 1..(Width - 1)
  /\ Pace \in Nat \ {0} /\ MaxRequests \in Nat
ASSUME SizeAssumption == QueueSize \in Nat \ {0} /\ MaxGiveUps \in Nat
ASSUME NullAssumption == NULL \notin Name
ASSUME UsesAssumption ==
  /\ Literal \subseteq Name
  /\ \A u \in Uses :
       /\ u.dhcp \in BOOLEAN /\ u.busy \in BOOLEAN
       /\ u.urls \in Seq(Name)
       /\ Len(u.urls) + (IF u.dhcp THEN 1 ELSE 0) <= QueueSize
       /\ u.ntp \in Seq(Name) /\ u.entries \in 1..Width /\ u.udp \in Nat \ {0}

VARIABLES
  use,          \* which of Uses this behaviour has
  setup_done,   \* Net_settings.setup_done: the panel has an address
  dhcp,         \* s of dhcpc.c: where its thread waits, its connection and timer
  names,        \* the resolver's table
  seqno,        \* the number of the next question
  resolver,     \* resolv_process: its connection, and whether its timer is set
  ntp,          \* ntpd_process: the server it asks for, and its address
  device,       \* the Ip of each device; NULL while its Resolv_handel is not
  queue,        \* the events that wait, of those modelled
  udp,          \* how many UDP connections are taken
  wire,         \* the DNS questions sent
  replies,      \* what would answer the DHCP messages sent with the xid of now
  troubles,     \* history: what has gone wrong that nobody makes good
  crossed       \* history: the names whose entry was another's when a question
                \* with its index was sent

vars == <<use, setup_done, dhcp, names, seqno, resolver, ntp, device, queue,
          udp, wire, replies, troubles, crossed>>

Entry == 0..(use.entries - 1)
Waiting == {d \in DOMAIN use.urls : device[d] = NULL}

\* Where handle_dhcp waits: for the poll before a discover, a request or a
\* renewal; for the answer to it; or for half of the lease to pass.
DhcpAt == {"off", "discover", "offer", "request", "ack", "bound", "renew", "extend"}
Message == {"offer", "ack"}

\* An entry's expiration has passed when it is old.
NameMap == [name : Name \cup {NULL}, tmr : 0..(Width - 1), retries : 0..(Width - 1),
            state : {"unused", "error", "new", "asking", "done"},
            seqno : 0..(Width - 1), ip : Name \cup {NULL}, old : BOOLEAN]
Event == [ev : {"retry", "dns", "tick"}]
         \cup [ev : {"dhcp"}, conn : BOOLEAN]
         \cup [ev : {"found"}, entry : Nat]
         \cup [ev : {"literal"}, name : Name]

-----------------------------------------------------------------------------
(* Posting events. *)

\* A handler posts es; q is the queue as it found it.  A full queue refuses an
\* event, and no caller here looks at what process_post returns.
Post(q, es, more) ==
  \E k \in 0..Len(es) :
    /\ Len(q) + k <= QueueSize
    /\ k < Len(es) => use.busy \/ Len(q) + k = QueueSize
    /\ queue' = q \o SubSeq(es, 1, k)
    /\ troubles' = troubles \cup more \cup (IF k < Len(es) THEN {"refused"} ELSE {})

\* udp_new: a connection, and what is wrong when there is none.  Its mutant
\* does not see that they are all taken.
ConnLeft == udp < use.udp
TakeConnBeyond == udp' = udp + 1
TakeConn == udp' = IF ConnLeft THEN udp + 1 ELSE udp
NoConn == IF ConnLeft THEN {} ELSE {"udp"}

-----------------------------------------------------------------------------
(* The table of names. *)

NoEntry == [name |-> NULL, tmr |-> 0, retries |-> 0, state |-> "unused",
            seqno |-> 0, ip |-> NULL, old |-> FALSE]

\* The entry resolv_query takes for n in the table t: n's own, or else the last
\* one that is free, or else the one that was asked for longest ago.
EntryFor(t, q, n) ==
  LET own  == {e \in DOMAIN t : t[e].name = n}
      free == {e \in DOMAIN t : \/ t[e].state = "unused"
                                \/ t[e].state = "done" /\ t[e].old}
      age(e) == q - t[e].seqno
      oldest == {e \in DOMAIN t : /\ age(e) > 0
                                  /\ \A f \in DOMAIN t : age(f) <= age(e)}
  IN IF own # {} THEN Min(own) ELSE IF free # {} THEN Max(free)
     ELSE IF oldest # {} THEN Min(oldest) ELSE 0

\* resolv_query.
Queried(t, q, n) ==
  [t EXCEPT ![EntryFor(t, q, n)] =
     [NoEntry EXCEPT !.name = n, !.state = "new", !.seqno = q]]

\* Mutant of Known: an entry that is asked for again counts as known.
KnownByName(n) == n \in Literal \/ \E e \in Entry : names[e].name = n

\* The address of n is known: it is one, or resolv_lookup says CACHED.
Known(n) ==
  n \in Literal \/ \E e \in Entry : /\ names[e].name = n
                                    /\ names[e].state = "done" /\ ~names[e].old
AddressOf(n) ==
  IF n \in Literal THEN n
  ELSE names[CHOOSE e \in Entry : names[e].name = n].ip

WaitsFor(n) == \E d \in Waiting : use.urls[d] = n

\* ini_resolv_ipaddr: n asks for its address, in the running panel.
Ask(n) ==
  IF n \in Literal
    THEN /\ Post(queue, <<[ev |-> "literal", name |-> n]>>, {})
         /\ UNCHANGED <<names, seqno, crossed>>
    ELSE LET e == EntryFor(names, seqno, n)
             taken == names[e].name # n
         IN /\ names' = Queried(names, seqno, n)
            /\ seqno' = (seqno + 1) % Width
            /\ crossed' = IF taken /\ \E w \in wire : w.id = e THEN crossed \cup {n} ELSE crossed
            /\ Post(queue, <<[ev |-> "retry"]>>,
                    IF taken /\ WaitsFor(names[e].name) THEN {"evicted"} ELSE {})

\* Mutant of Ticked: the name is given up, as the lines commented out there did.
TickedGivesUp(n) ==
  LET tmr == (n.tmr - 1) % Width
      last == tmr = 0 /\ n.retries + 1 = MaxRetries IN
  IF n.state # "asking" THEN n
  ELSE [n EXCEPT !.tmr = tmr, !.retries = IF tmr = 0 THEN (@ + 1) % Width ELSE @,
                 !.state = IF last THEN "error" ELSE @]

\* What check_entries does to an entry that waits for an answer, and to the
\* one it sends a question for: the first that is new or whose time is up.
Ticked(n) ==
  LET tmr == (n.tmr - 1) % Width IN
  IF n.state # "asking" THEN n
  ELSE [n EXCEPT !.tmr = tmr, !.retries = IF tmr = 0 THEN (@ + 1) % Width ELSE @]
Sent(n) ==
  IF n.state = "new" THEN [n EXCEPT !.state = "asking", !.tmr = 1, !.retries = 0]
  ELSE [Ticked(n) EXCEPT !.tmr = (Ticked(n).retries * Pace) % Width]
Due(n) ==
  \/ n.state = "new"
  \/ n.state = "asking" /\ Ticked(n).tmr = 0 /\ Ticked(n).retries # MaxRetries

\* check_entries.
CheckEntries ==
  LET due == {e \in Entry : Due(names[e])}
      k   == IF due = {} THEN use.entries ELSE Min(due)
  IN /\ names' = [e \in Entry |-> IF e < k THEN Ticked(names[e])
                                  ELSE IF e = k THEN Sent(names[e]) ELSE names[e]]
     /\ wire' = wire \cup {[id |-> e, name |-> names[e].name] : e \in Entry \cap {k}}
     /\ resolver' = [resolver EXCEPT
          !.timer = @ \/ \E e \in Entry : names[e].state \in {"new", "asking"}]

-----------------------------------------------------------------------------
(* The DHCP client. *)

\* What a call of handle_dhcp leads to: the state of s, the messages sent, how
\* often it polls, and whether xid is counted up, the lease is there or over.
Nothing == [to |-> dhcp, sends |-> {}, polls |-> 0,
            fresh |-> FALSE, done |-> FALSE, gone |-> FALSE]

\* "while(ev != tcpip_event) poll; send; etimer_set", from d on.
SendAt(tcpip, d, waits, sent, m) ==
  IF tcpip
    THEN [Nothing EXCEPT !.to = [d EXCEPT !.at = sent, !.timer = TRUE], !.sends = {m}]
    ELSE [Nothing EXCEPT !.to = [d EXCEPT !.at = waits], !.polls = 1]

Discover(tcpip) == SendAt(tcpip, [dhcp EXCEPT !.tries = 0], "discover", "offer", "offer")
Request(tcpip, tries) == SendAt(tcpip, [dhcp EXCEPT !.tries = tries], "request", "ack", "ack")
Renew(tcpip) == SendAt(tcpip, dhcp, "renew", "extend", "ack")
Bound == [Nothing EXCEPT !.to = [dhcp EXCEPT !.at = "bound", !.timer = TRUE, !.tries = 0],
                         !.done = TRUE]

\* handle_dhcp is called with tcpip_event, and message m if there is one, or
\* with a timer.  The lease of a panel that cannot renew it ends at some time.
HandleDhcp(tcpip, m) ==
  CASE dhcp.at = "discover" -> {Discover(tcpip)}
    [] dhcp.at = "offer" /\ m = "offer" -> {[Request(tcpip, 0) EXCEPT !.fresh = TRUE]}
    [] dhcp.at = "offer" /\ m # "offer" /\ ~dhcp.timer -> {Discover(tcpip)}
    [] dhcp.at = "request" -> {Request(tcpip, dhcp.tries)}
    [] dhcp.at \in {"ack", "extend"} /\ m = "ack" -> {Bound}
    [] dhcp.at = "ack" /\ m # "ack" /\ ~dhcp.timer ->
         {IF dhcp.tries + 1 < MaxRequests THEN Request(tcpip, dhcp.tries + 1)
          ELSE [Discover(tcpip) EXCEPT !.fresh = TRUE]}
    [] dhcp.at = "bound" /\ ~dhcp.timer -> {[Renew(tcpip) EXCEPT !.fresh = TRUE]}
    [] dhcp.at = "renew" -> {Renew(tcpip)}
    [] dhcp.at = "extend" /\ m # "ack" /\ ~dhcp.timer ->
         {Renew(tcpip), [Discover(tcpip) EXCEPT !.fresh = TRUE, !.gone = TRUE]}
    [] OTHER -> {Nothing}

\* dhcp_process: the event, and after a timer a new start every 15 s as long as
\* the panel has no address.  dhcpc_init takes a connection and gives none back.
DhcpEvent(q, tcpip, m) ==
  \E r \in HandleDhcp(tcpip, m) :
    LET again == ~tcpip /\ ~setup_done /\ ~dhcp.retry
        init  == again \/ r.gone
        conn  == IF init THEN ConnLeft ELSE dhcp.conn
        poll(c) == [ev |-> "dhcp", conn |-> c]
    IN /\ dhcp' = IF again
                    THEN [r.to EXCEPT !.at = "discover", !.tries = 0, !.conn = conn, !.retry = TRUE]
                    ELSE [r.to EXCEPT !.conn = conn]
       /\ IF init THEN TakeConn ELSE udp' = udp
       /\ replies' = r.sends \cup (IF r.fresh \/ again THEN {} ELSE replies)
       /\ setup_done' = (setup_done \/ r.done)
       /\ Post(q, [i \in 1..r.polls |-> poll(IF r.gone THEN conn ELSE dhcp.conn)]
                    \o (IF again THEN <<poll(conn)>> ELSE << >>),
               IF init THEN NoConn ELSE {})

-----------------------------------------------------------------------------
\* SCP_Device_init: the table and the number of the next question when i devices
\* have asked for their addresses.
initialSeqno(i) == Cardinality({d \in 1..i : use.urls[d] \notin Literal}) % Width
initialNames[i \in 0..Len(use.urls)] ==
  IF i = 0 THEN [e \in Entry |-> NoEntry]
  ELSE IF use.urls[i] \in Literal THEN initialNames[i - 1]
  ELSE Queried(initialNames[i - 1], initialSeqno(i - 1), use.urls[i])

Init ==
  /\ use \in Uses
  /\ LET n == Len(use.urls)
     IN /\ names = initialNames[n]
        /\ seqno = initialSeqno(n)
        /\ device = [d \in 1..n |-> NULL]
        /\ queue = (IF use.dhcp THEN <<[ev |-> "dhcp", conn |-> TRUE]>> ELSE << >>) \o
             [d \in 1..n |-> IF use.urls[d] \in Literal
                               THEN [ev |-> "literal", name |-> use.urls[d]]
                               ELSE [ev |-> "retry"]]
  /\ setup_done = ~use.dhcp
  /\ dhcp = [at |-> IF use.dhcp THEN "discover" ELSE "off", conn |-> use.dhcp,
             timer |-> FALSE, retry |-> use.dhcp, tries |-> 0]
  /\ udp = IF use.dhcp THEN 1 ELSE 0
  /\ resolver = [conn |-> "waits", timer |-> FALSE]
  /\ ntp = [at |-> "setup", server |-> 0, ip |-> NULL]
  /\ wire = {}
  /\ replies = {}
  /\ troubles = {}
  /\ crossed = {}

unchangedDhcp == UNCHANGED <<setup_done, dhcp, replies>>
unchangedNames == UNCHANGED <<names, seqno, resolver, wire, crossed>>
unchangedClients == UNCHANGED <<ntp, device>>

\* resolv_process: it is polled until the panel has an address.
ResolverStarts ==
  /\ setup_done
  /\ resolver.conn = "waits"
  /\ resolver' = [resolver EXCEPT !.conn = IF ConnLeft THEN "open" ELSE "none"]
  /\ TakeConn
  /\ Post(queue, <<[ev |-> "retry"]>>, NoConn)
  /\ UNCHANGED <<use, names, seqno, wire, crossed>>
  /\ unchangedDhcp /\ unchangedClients

\* The timer of check_entries, and those of DHCP.  The timer process tries
\* again until the queue takes its event.
RetryTimer ==
  /\ resolver.timer
  /\ Len(queue) < QueueSize
  /\ resolver' = [resolver EXCEPT !.timer = FALSE]
  /\ queue' = Append(queue, [ev |-> "retry"])
  /\ UNCHANGED <<use, names, seqno, wire, crossed, udp, troubles>>
  /\ unchangedDhcp /\ unchangedClients

DhcpTimer(d) ==
  /\ Len(queue) < QueueSize
  /\ dhcp' = d
  /\ queue' = Append(queue, [ev |-> "tick"])
  /\ UNCHANGED <<use, setup_done, replies, udp, troubles>>
  /\ unchangedNames /\ unchangedClients
TimerExpires == dhcp.timer /\ DhcpTimer([dhcp EXCEPT !.timer = FALSE])
RetryExpires == dhcp.retry /\ DhcpTimer([dhcp EXCEPT !.retry = FALSE])

-----------------------------------------------------------------------------
(* The events, each taken from the queue by do_event, after the polls: the     *)
(* resolver and the time service poll themselves until setup_done.           *)

PollsLeft ==
  /\ setup_done
  /\ resolver.conn = "waits" \/ (ntp.at = "setup" /\ use.ntp # << >>)
IsNext(ev) == ~PollsLeft /\ queue # << >> /\ Head(queue).ev = ev

\* PROCESS_EVENT_TIMER to resolv_process.  Polling no connection does nothing.
TakeRetry ==
  /\ IsNext("retry")
  /\ Post(Tail(queue), IF resolver.conn = "open" THEN <<[ev |-> "dns"]>> ELSE << >>, {})
  /\ UNCHANGED <<use, udp>>
  /\ unchangedDhcp /\ unchangedNames /\ unchangedClients

\* UDP_POLL of the resolver's connection.
TakeDns ==
  /\ IsNext("dns")
  /\ CheckEntries
  /\ Post(Tail(queue), << >>, {})
  /\ UNCHANGED <<use, seqno, crossed, udp>>
  /\ unchangedDhcp /\ unchangedClients

\* UDP_POLL of DHCP's connection, and PROCESS_EVENT_TIMER to dhcp_process.
TakeDhcp ==
  /\ IsNext("dhcp")
  /\ IF Head(queue).conn
       THEN DhcpEvent(Tail(queue), TRUE, NULL)
       ELSE Post(Tail(queue), << >>, {}) /\ udp' = udp /\ unchangedDhcp
  /\ UNCHANGED use
  /\ unchangedNames /\ unchangedClients
TakeTick ==
  /\ IsNext("tick")
  /\ DhcpEvent(Tail(queue), FALSE, NULL)
  /\ UNCHANGED use
  /\ unchangedNames /\ unchangedClients

\* The Ip of the devices after resolv_event_found for n: of those that wait
\* for n, the first one takes the address.
Told(n) ==
  LET first == {d \in Waiting : use.urls[d] = n /\ \A c \in Waiting : use.urls[c] = n => d <= c}
  IN [d \in DOMAIN device |-> IF d \in first THEN AddressOf(n) ELSE device[d]]

NtpUrl(k) == use.ntp[IF k < Len(use.ntp) THEN k + 1 ELSE Len(use.ntp)]

\* resolv_event_found, for everyone; its data points to the name.
Found(n) ==
  /\ device' = IF Known(n) THEN Told(n) ELSE device
  /\ IF ntp.at = "answer" /\ NtpUrl(ntp.server) = n /\ Known(n)
       THEN /\ ntp' = [ntp EXCEPT !.at = "found", !.ip = AddressOf(n)]
            /\ TakeConn
            /\ Post(Tail(queue), << >>, NoConn)
       ELSE UNCHANGED <<ntp, udp>> /\ Post(Tail(queue), << >>, {})
  /\ UNCHANGED use
  /\ unchangedDhcp /\ unchangedNames
TakeFound == IsNext("found") /\ Found(names[Head(queue).entry].name)
TakeLiteral == IsNext("literal") /\ Found(Head(queue).name)

-----------------------------------------------------------------------------
(* ntpd_process, until it has the address of a time server. *)

NtpAsks(k) ==
  /\ ntp' = [ntp EXCEPT !.at = "answer", !.server = k]
  /\ Ask(NtpUrl(k))
  /\ UNCHANGED <<use, resolver, wire, device, udp>>
  /\ unchangedDhcp
NtpStarts == ntp.at = "setup" /\ setup_done /\ use.ntp # << >> /\ NtpAsks(0)
NtpGivesUp == ntp.at = "answer" /\ ntp.server < MaxGiveUps /\ NtpAsks(ntp.server + 1)

-----------------------------------------------------------------------------
(* The network. *)

\* tmr and retries are not read again before resolv_query resets them.
Settled(n) == [n EXCEPT !.tmr = 0, !.retries = 0]

\* An answer is taken by its index alone, if that entry waits for one.  One
\* with an error or without a record of an address leaves the entry in error.
Answered(w, kind) ==
  LET waits == names[w.id].state = "asking" /\ kind # "empty"
      told  == IF waits /\ kind # "norecord" THEN <<[ev |-> "found", entry |-> w.id]>> ELSE << >>
      bad   == waits /\ kind # "ok" /\ WaitsFor(names[w.id].name)
  IN /\ names' = IF ~waits THEN names
                 ELSE IF kind = "ok"
                   THEN [names EXCEPT ![w.id] = [Settled(@) EXCEPT !.state = "done", !.ip = w.name]]
                   ELSE [names EXCEPT ![w.id] = [Settled(@) EXCEPT !.state = "error"]]
     /\ Post(queue, told, IF bad THEN {"error"} ELSE {})

\* newdata.
Answer(w, kind) ==
  /\ resolver.conn = "open"
  /\ w \in wire
  /\ Answered(w, kind)
  /\ UNCHANGED <<use, seqno, resolver, wire, crossed, udp>>
  /\ unchangedDhcp /\ unchangedClients

\* A reply to DHCP; or, at any time, a refusal, or what is not for this panel or
\* this xid: it is broadcast, and an event of the connection none the less.
Reply(m) ==
  /\ m \in replies
  /\ DhcpEvent(queue, TRUE, m)
  /\ UNCHANGED use
  /\ unchangedNames /\ unchangedClients
OtherReply ==
  /\ dhcp.at # "off"
  /\ DhcpEvent(queue, TRUE, NULL)
  /\ UNCHANGED use
  /\ unchangedNames /\ unchangedClients

\* clock_seconds passes the expiration of an entry.
Expires(e) ==
  /\ names[e].state = "done" /\ ~names[e].old
  /\ names' = [names EXCEPT ![e].old = TRUE]
  /\ troubles' = IF [ev |-> "found", entry |-> e] \in ToSet(queue) /\ WaitsFor(names[e].name)
                   THEN troubles \cup {"expired"} ELSE troubles
  /\ UNCHANGED <<use, seqno, resolver, wire, crossed, queue, udp>>
  /\ unchangedDhcp /\ unchangedClients

Kind == {"ok", "error", "norecord", "empty"}
Loop == TakeRetry \/ TakeDns \/ TakeDhcp \/ TakeTick \/ TakeFound \/ TakeLiteral
Next ==
  \/ Loop \/ ResolverStarts \/ NtpStarts \/ NtpGivesUp
  \/ RetryTimer \/ TimerExpires \/ RetryExpires
  \/ \E w \in wire, k \in Kind : Answer(w, k)
  \/ (\E m \in Message : Reply(m)) \/ OtherReply
  \/ \E e \in Entry : Expires(e)

\* The loop runs, timers expire, and a server that is asked again and again
\* answers at some time.  The 15 s of dhcp_process need not pass.
Spec ==
  /\ Init /\ [][Next]_vars
  /\ WF_vars(Loop) /\ WF_vars(ResolverStarts) /\ WF_vars(NtpStarts)
  /\ SF_vars(RetryTimer) /\ SF_vars(TimerExpires)
  /\ \A n \in Name \ Literal : SF_vars(\E w \in wire : w.name = n /\ names[w.id].state = "asking" /\ Answer(w, "ok"))
  /\ SF_vars(dhcp.at = "offer" /\ Reply("offer")) /\ SF_vars(dhcp.at = "ack" /\ Reply("ack"))

-----------------------------------------------------------------------------
TypeOK ==
  /\ use \in Uses
  /\ setup_done \in BOOLEAN
  /\ dhcp \in [at : DhcpAt, conn : BOOLEAN, timer : BOOLEAN, retry : BOOLEAN,
               tries : 0..MaxRequests]
  /\ names \in [Entry -> NameMap]
  /\ seqno \in 0..(Width - 1)
  /\ resolver \in [conn : {"waits", "open", "none"}, timer : BOOLEAN]
  /\ ntp \in [at : {"setup", "answer", "found"}, server : 0..MaxGiveUps, ip : Name \cup {NULL}]
  /\ device \in [DOMAIN use.urls -> Name \cup {NULL}]
  /\ Len(queue) <= QueueSize /\ ToSet(queue) \subseteq Event
  /\ udp \in 0..use.udp
  /\ wire \subseteq [id : Entry, name : Name]
  /\ replies \subseteq Message

\* Whoever has an address has that of its URL, unless the entry of the URL was
\* taken from another name for which a question had been sent
\* (resolv.c trusts the index; the name in the answer is not compared).
RightAddress ==
  /\ \A d \in DOMAIN device : device[d] \in {NULL, use.urls[d]} \/ use.urls[d] \in crossed
  /\ ntp.at = "found" => ntp.ip = NtpUrl(ntp.server) \/ NtpUrl(ntp.server) \in crossed

\* Every device gets its address, whatever datagrams are lost and however often
\* a question is repeated, if none of the troubles comes that nothing makes
\* good and no two devices have the same name (SCP_Device.c:261-270).
Distinct == \A c, d \in DOMAIN use.urls : use.urls[c] = use.urls[d] => c = d \/ use.urls[c] \in Literal
EveryDeviceTold ==
  Distinct /\ [](troubles = {}) => <>(Waiting = {})
=============================================================================
