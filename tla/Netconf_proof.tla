--------------------------- MODULE Netconf_proof ---------------------------
(***************************************************************************)
(* For any URLs, table of names, queue and server: the addresses that the  *)
(* devices and the time service take.                                      *)
(*                                                                         *)
(* An answer is matched with a question by an index of the table alone, so *)
(* what is proved rests on what the table and the questions on the wire    *)
(* have to do with each other.  A name is in the table once (GoodTable);   *)
(* and a question that was sent with the index of an entry is for the name *)
(* the entry has, or else that name has been crossed (WireRight).          *)
(***************************************************************************)
EXTENDS Netconf, DataInduction, SequenceTheorems, FiniteSetTheorems

\* A name has one entry, an entry in use has a name, and an answered one has
\* an address.
GoodTable(t) ==
  /\ t \in [Entry -> NameMap]
  /\ \A e \in Entry : t[e].state # "unused" => t[e].name \in Name
  /\ \A e \in Entry : t[e].state = "done" => t[e].ip \in Name
  /\ \A e, f \in Entry : t[e].name = t[f].name /\ t[e].name # NULL => e = f

QueueOK == queue \in Seq(Event) /\ Len(queue) <= QueueSize

DhcpType == [at : DhcpAt, conn : BOOLEAN, timer : BOOLEAN, retry : BOOLEAN,
             tries : 0..MaxRequests]

Typed ==
  /\ use \in Uses
  /\ setup_done \in BOOLEAN
  /\ dhcp \in DhcpType
  /\ GoodTable(names)
  /\ seqno \in 0..(Width - 1)
  /\ resolver \in [conn : {"waits", "open", "none"}, timer : BOOLEAN]
  /\ ntp \in [at : {"setup", "answer", "found"}, server : 0..MaxGiveUps, ip : Name \cup {NULL}]
  /\ device \in [DOMAIN use.urls -> Name \cup {NULL}]
  /\ QueueOK
  /\ udp \in 0..use.udp
  /\ wire \subseteq [id : Entry, name : Name]
  /\ replies \subseteq Message

\* What was sent with the index of an entry is a question for its name.
WireRight ==
  \A w \in wire : names[w.id].name = w.name \/ names[w.id].name \in crossed

DoneRight ==
  \A e \in Entry :
    names[e].state = "done" => names[e].ip = names[e].name \/ names[e].name \in crossed

\* The time service asks when it has servers to ask for.
NtpAsking == ntp.at # "setup" => use.ntp # << >>

IInv == Typed /\ WireRight /\ DoneRight /\ NtpAsking /\ RightAddress

-----------------------------------------------------------------------------
(* The ways the panel is set up. *)

LEMMA UseTypes ==
  ASSUME use \in Uses
  PROVE  /\ use.dhcp \in BOOLEAN /\ use.busy \in BOOLEAN
         /\ use.urls \in Seq(Name) /\ use.ntp \in Seq(Name)
         /\ Len(use.urls) \in Nat /\ DOMAIN use.urls = 1..Len(use.urls)
         /\ \A d \in DOMAIN use.urls : use.urls[d] \in Name
         /\ Len(use.urls) + (IF use.dhcp THEN 1 ELSE 0) <= QueueSize
         /\ use.entries \in 1..Width /\ use.udp \in Nat \ {0}
         /\ Entry \subseteq 0..(Width - 1)
<1>1. /\ use.dhcp \in BOOLEAN /\ use.busy \in BOOLEAN
      /\ use.urls \in Seq(Name) /\ use.ntp \in Seq(Name)
      /\ Len(use.urls) + (IF use.dhcp THEN 1 ELSE 0) <= QueueSize
      /\ use.entries \in 1..Width /\ use.udp \in Nat \ {0}
  BY UsesAssumption
<1>2. Len(use.urls) \in Nat /\ DOMAIN use.urls = 1..Len(use.urls)
  BY <1>1
<1>3. \A d \in DOMAIN use.urls : use.urls[d] \in Name
  BY <1>1
<1>4. Entry \subseteq 0..(Width - 1)
  BY <1>1, WidthAssumption DEF Entry
<1> QED
  BY <1>1, <1>2, <1>3, <1>4

-----------------------------------------------------------------------------
(* The table of names. *)

\* A name that is in the table is asked for with its own entry.
LEMMA OwnEntry ==
  ASSUME use \in Uses, NEW t, GoodTable(t), NEW q, NEW n \in Name, NEW e \in Entry,
         t[e].name = n
  PROVE  EntryFor(t, q, n) = e
<1>1. DOMAIN t = Entry
  BY DEF GoodTable
<1>2. {f \in DOMAIN t : t[f].name = n} = {e}
  BY <1>1, NullAssumption DEF GoodTable
<1>3. Min({e}) = e
  BY UseTypes DEF Min
<1> QED
  BY <1>2, <1>3 DEF EntryFor

LEMMA NoEntryTyped ==
  /\ 0 \in 0..(Width - 1)
  /\ NoEntry \in NameMap /\ NoEntry.state = "unused" /\ NoEntry.name = NULL
  /\ \A q \in 0..(Width - 1), n \in Name :
       LET r == [NoEntry EXCEPT !.name = n, !.state = "new", !.seqno = q]
       IN  r \in NameMap /\ r.name = n /\ r.state = "new"
<1>1. 0 \in 0..(Width - 1)
  BY WidthAssumption
<1>2. NoEntry \in NameMap
  BY <1>1 DEF NoEntry, NameMap
<1>3. NoEntry.state = "unused" /\ NoEntry.name = NULL
  BY DEF NoEntry
<1> HIDE DEF NoEntry
<1>4. ASSUME NEW q \in 0..(Width - 1), NEW n \in Name
      PROVE  LET r == [NoEntry EXCEPT !.name = n, !.state = "new", !.seqno = q]
             IN  r \in NameMap /\ r.name = n /\ r.state = "new"
  BY <1>2 DEF NameMap
<1> QED
  BY <1>1, <1>2, <1>3, <1>4

LEMMA QueriedGood ==
  ASSUME use \in Uses, NEW t, GoodTable(t), NEW q \in 0..(Width - 1), NEW n \in Name
  PROVE  /\ GoodTable(Queried(t, q, n))
         /\ \A e \in Entry :
              \/ /\ e # EntryFor(t, q, n) /\ Queried(t, q, n)[e] = t[e]
              \/ /\ e = EntryFor(t, q, n)
                 /\ Queried(t, q, n)[e].name = n /\ Queried(t, q, n)[e].state = "new"
<1> DEFINE k == EntryFor(t, q, n)
           r == [NoEntry EXCEPT !.name = n, !.state = "new", !.seqno = q]
           u == Queried(t, q, n)
<1>1. /\ r \in NameMap /\ r.name = n /\ r.state = "new"
  BY NoEntryTyped
<1>2. \A e \in Entry : t[e].name = n => k = e
  BY OwnEntry
<1>3. u = [t EXCEPT ![k] = r]
  BY DEF Queried
<1> HIDE DEF k, r, u
<1>4. u \in [Entry -> NameMap] /\ \A e \in Entry : u[e] = IF e = k THEN r ELSE t[e]
  BY <1>1, <1>3 DEF GoodTable
<1>5. \A e, f \in Entry : u[e].name = u[f].name /\ u[e].name # NULL => e = f
  BY <1>1, <1>2, <1>4 DEF GoodTable
<1> QED
  BY <1>1, <1>4, <1>5 DEF GoodTable, k, u

\* The table after SCP_Device_init, which asks for each device in turn.
LEMMA InitialSeqnoTyped ==
  ASSUME NEW i \in Nat
  PROVE  initialSeqno(i) \in 0..(Width - 1)
<1> DEFINE D == {d \in 1..i : use.urls[d] \notin Literal}
<1>1. IsFiniteSet(1..i)
  BY FS_Interval
<1>2. IsFiniteSet(D)
  BY <1>1, FS_Subset
<1>3. Cardinality(D) \in Nat
  BY <1>2, FS_CardinalityType
<1> HIDE DEF D
<1>4. Cardinality(D) % Width \in 0..(Width - 1)
  BY <1>3, WidthAssumption
<1> QED
  BY <1>4 DEF initialSeqno, D

LEMMA InitialNamesGood ==
  ASSUME use \in Uses
  PROVE  /\ GoodTable(initialNames[Len(use.urls)])
         /\ \A e \in Entry : initialNames[Len(use.urls)][e].state # "done"
<1> DEFINE n == Len(use.urls)
           V == {t \in [Entry -> NameMap] :
                   GoodTable(t) /\ \A e \in Entry : t[e].state # "done"}
           v0 == [e \in Entry |-> NoEntry]
           G == [i \in 1..n |-> [t \in V |->
                   IF use.urls[i] \in Literal THEN t
                   ELSE Queried(t, initialSeqno(i - 1), use.urls[i])]]
<1>1. n \in Nat /\ \A i \in 1..n : use.urls[i] \in Name
  BY UseTypes
<1>2. v0 \in V
  BY NoEntryTyped DEF GoodTable, NameMap
<1>3. G \in [1..n -> [V -> V]]
  <2> SUFFICES ASSUME NEW i \in 1..n, NEW t \in V,
                      use.urls[i] \notin Literal
               PROVE  Queried(t, initialSeqno(i - 1), use.urls[i]) \in V
    OBVIOUS
  <2>0. i - 1 \in Nat
    BY <1>1
  <2>1. initialSeqno(i - 1) \in 0..(Width - 1)
    BY <2>0, InitialSeqnoTyped
  <2> DEFINE u == Queried(t, initialSeqno(i - 1), use.urls[i])
  <2>2. GoodTable(u) /\ \A e \in Entry : u[e].state \in {"new", t[e].state}
    BY <1>1, <2>1, QueriedGood
  <2> QED
    BY <2>2 DEF GoodTable
<1> HIDE DEF n, V, v0, G
<1>4. PICK f \in [0..n -> V] : Steps(f, n, v0, G)
  BY <1>1, <1>2, <1>3, Recursion
<1>5. f = [i \in 0..n |->
             IF i = 0 THEN v0
             ELSE IF use.urls[i] \in Literal THEN f[i - 1]
             ELSE Queried(f[i - 1], initialSeqno(i - 1), use.urls[i])]
  <2>1. \A i \in 1..n : i \in 0..n /\ i # 0 /\ i - 1 \in 0..n /\ f[i - 1] \in V
    BY <1>1
  <2>2. \A i \in 1..n : f[i] = IF use.urls[i] \in Literal THEN f[i - 1]
             ELSE Queried(f[i - 1], initialSeqno(i - 1), use.urls[i])
    BY <1>1, <1>4, <2>1 DEF G, Steps
  <2>3. \A i \in 0..n : i = 0 \/ i \in 1..n
    BY <1>1
  <2>4. \A i \in 0..n : f[i] =
             IF i = 0 THEN v0
             ELSE IF use.urls[i] \in Literal THEN f[i - 1]
             ELSE Queried(f[i - 1], initialSeqno(i - 1), use.urls[i])
    BY <1>4, <2>2, <2>3 DEF Steps
  <2> QED
    BY <2>4
<1>6. initialNames = [i \in 0..n |->
             IF i = 0 THEN v0
             ELSE IF use.urls[i] \in Literal THEN initialNames[i - 1]
             ELSE Queried(initialNames[i - 1], initialSeqno(i - 1), use.urls[i])]
  BY <1>5 DEF initialNames, n, v0
<1>7. initialNames[n] \in V
  <2> DEFINE S == {i \in 0..n : initialNames[i] \in V}
  <2>1. 0 \in S
    BY <1>1, <1>2, <1>6
  <2>2. \A i \in 0..(n - 1) : i \in S => i + 1 \in S
    <3> SUFFICES ASSUME NEW i \in 0..(n - 1), i \in S
                 PROVE  i + 1 \in S
      OBVIOUS
    <3>1. i + 1 \in 1..n /\ i + 1 \in 0..n /\ i + 1 # 0 /\ (i + 1) - 1 = i
      BY <1>1
    <3>2. G[i + 1][initialNames[i]] \in V
      BY <1>3, <3>1
    <3> QED
      BY <1>6, <3>1, <3>2 DEF G
  <2> HIDE DEF S
  <2>3. \A i \in 0..n : i \in S
    BY <1>1, <2>1, <2>2, IntervalInduction
  <2> QED
    BY <1>1, <2>3 DEF S
<1> QED
  BY <1>7 DEF V, n

\* In the initial table no name has been answered.
LEMMA InitIInv == Init => IInv
<1> SUFFICES ASSUME Init PROVE IInv
  OBVIOUS
<1> DEFINE n == Len(use.urls)
<1>1. use \in Uses /\ n \in Nat /\ DOMAIN use.urls = 1..n
  BY UseTypes DEF Init
<1>2. GoodTable(names)
  BY <1>1, InitialNamesGood DEF Init
<1>3. seqno \in 0..(Width - 1)
  BY <1>1, InitialSeqnoTyped DEF Init
<1>4. dhcp \in DhcpType /\ setup_done \in BOOLEAN
  <2>1. use.dhcp \in BOOLEAN
    BY <1>1, UseTypes
  <2>2. 0 \in 0..MaxRequests
    BY WidthAssumption
  <2>3. dhcp = [at |-> IF use.dhcp THEN "discover" ELSE "off", conn |-> use.dhcp,
                timer |-> FALSE, retry |-> use.dhcp, tries |-> 0]
    BY DEF Init
  <2>4. (IF use.dhcp THEN "discover" ELSE "off") \in DhcpAt
    BY DEF DhcpAt
  <2>5. dhcp \in DhcpType
    BY <2>1, <2>2, <2>3, <2>4 DEF DhcpType
  <2> QED
    BY <2>1, <2>5 DEF Init
<1>5. resolver \in [conn : {"waits", "open", "none"}, timer : BOOLEAN]
  BY DEF Init
<1>6. ntp \in [at : {"setup", "answer", "found"}, server : 0..MaxGiveUps, ip : Name \cup {NULL}]
  <2>1. 0 \in 0..MaxGiveUps
    BY SizeAssumption
  <2> QED
    BY <2>1 DEF Init
<1>7. device \in [DOMAIN use.urls -> Name \cup {NULL}]
  BY <1>1 DEF Init
<1>8. QueueOK
  <2> DEFINE first == IF use.dhcp THEN <<[ev |-> "dhcp", conn |-> TRUE]>> ELSE << >>
             rest == [d \in 1..n |-> IF use.urls[d] \in Literal
                               THEN [ev |-> "literal", name |-> use.urls[d]]
                               ELSE [ev |-> "retry"]]
  <2>1. first \in Seq(Event) /\ Len(first) = IF use.dhcp THEN 1 ELSE 0
    <3>1. [ev |-> "dhcp", conn |-> TRUE] \in Event
      BY DEF Event
    <3>2. CASE use.dhcp
      BY <3>1, <3>2
    <3>3. CASE ~use.dhcp
      BY <3>3
    <3> QED
      BY <3>2, <3>3
  <2>2. rest \in Seq(Event) /\ Len(rest) = n
    <3>1. rest \in [1..n -> Event]
      BY <1>1, UseTypes DEF Event
    <3> HIDE DEF rest, n
    <3> QED
      BY <1>1, <3>1
  <2>3. queue = first \o rest
    BY DEF Init
  <2> HIDE DEF first, rest, n
  <2>4. queue \in Seq(Event) /\ Len(queue) = Len(first) + Len(rest)
    BY <2>1, <2>2, <2>3, ConcatProperties
  <2>5. Len(queue) <= QueueSize
    <3>1. Len(use.urls) + (IF use.dhcp THEN 1 ELSE 0) <= QueueSize
      BY <1>1, UseTypes
    <3>2. n = Len(use.urls)
      BY DEF n
    <3>3. CASE use.dhcp
      BY <1>1, <2>1, <2>2, <2>4, <3>1, <3>2, <3>3, SizeAssumption
    <3>4. CASE ~use.dhcp
      BY <1>1, <2>1, <2>2, <2>4, <3>1, <3>2, <3>4, SizeAssumption
    <3> QED
      BY <3>3, <3>4
  <2> QED
    BY <2>4, <2>5 DEF QueueOK
<1>9. udp \in 0..use.udp
  <2>1. use.udp \in Nat \ {0} /\ udp = IF use.dhcp THEN 1 ELSE 0
    BY <1>1, UseTypes DEF Init
  <2> QED
    BY <2>1
<1>10. wire = {} /\ replies = {}
  BY DEF Init
<1>11. Typed
  BY <1>1, <1>2, <1>3, <1>4, <1>5, <1>6, <1>7, <1>8, <1>9, <1>10 DEF Typed
<1>12. WireRight
  BY <1>10 DEF WireRight
<1>13. DoneRight
  BY <1>1, InitialNamesGood DEF Init, DoneRight
<1>14. NtpAsking /\ RightAddress
  BY DEF Init, NtpAsking, RightAddress
<1> QED
  BY <1>11, <1>12, <1>13, <1>14 DEF IInv

-----------------------------------------------------------------------------
(* The queue. *)

\* A handler posts events, of which the queue takes as many as there is room for.
LEMMA PostTyped ==
  ASSUME NEW q \in Seq(Event), Len(q) <= QueueSize, NEW es \in Seq(Event), NEW more,
         Post(q, es, more)
  PROVE  QueueOK'
<1>1. PICK k \in 0..Len(es) : Len(q) + k <= QueueSize /\ queue' = q \o SubSeq(es, 1, k)
  BY DEF Post
<1>2. SubSeq(es, 1, k) \in Seq(Event) /\ Len(SubSeq(es, 1, k)) = k
  BY <1>1, SubSeqProperties
<1>3. queue' \in Seq(Event) /\ Len(queue') = Len(q) + k
  BY <1>1, <1>2, ConcatProperties
<1> QED
  BY <1>1, <1>3 DEF QueueOK

\* do_event takes the first one.
LEMMA TakenTyped ==
  ASSUME QueueOK, queue # << >>
  PROVE  /\ Head(queue) \in Event
         /\ Tail(queue) \in Seq(Event) /\ Len(Tail(queue)) <= QueueSize
BY HeadTailProperties, SizeAssumption DEF QueueOK

LEMMA AppendTyped ==
  ASSUME QueueOK, Len(queue) < QueueSize, NEW e \in Event, queue' = Append(queue, e)
  PROVE  QueueOK'
BY AppendProperties, SizeAssumption DEF QueueOK

-----------------------------------------------------------------------------
(* The DHCP client. *)

ResultType == [to : DhcpType, sends : SUBSET Message, polls : 0..1,
               fresh : BOOLEAN, done : BOOLEAN, gone : BOOLEAN]

LEMMA SendAtTyped ==
  ASSUME dhcp \in DhcpType, NEW tcpip \in BOOLEAN, NEW d \in DhcpType,
         NEW waits \in DhcpAt, NEW sent \in DhcpAt, NEW m \in Message
  PROVE  SendAt(tcpip, d, waits, sent, m) \in ResultType
<1>1. Nothing \in ResultType
  BY DEF Nothing, ResultType
<1>0. \A x \in ResultType, y \in DhcpType, z \in SUBSET Message :
        /\ [x EXCEPT !.to = y, !.sends = z] \in ResultType
        /\ [x EXCEPT !.to = y, !.polls = 1] \in ResultType
  <2> SUFFICES ASSUME NEW x \in ResultType, NEW y \in DhcpType, NEW z \in SUBSET Message
               PROVE  /\ [x EXCEPT !.to = y, !.sends = z] \in ResultType
                      /\ [x EXCEPT !.to = y, !.polls = 1] \in ResultType
    OBVIOUS
  <2>1. [x EXCEPT !.to = y, !.sends = z] \in ResultType
    BY DEF ResultType
  <2>2. 1 \in 0..1
    OBVIOUS
  <2>3. [x EXCEPT !.to = y, !.polls = 1] \in ResultType
    BY <2>2 DEF ResultType
  <2> QED
    BY <2>1, <2>3
<1> HIDE DEF Nothing
<1>2. [d EXCEPT !.at = sent, !.timer = TRUE] \in DhcpType
  BY DEF DhcpType
<1>3. [d EXCEPT !.at = waits] \in DhcpType
  BY DEF DhcpType
<1>4. CASE tcpip
  <2>1. SendAt(tcpip, d, waits, sent, m) =
          [Nothing EXCEPT !.to = [d EXCEPT !.at = sent, !.timer = TRUE], !.sends = {m}]
    BY <1>4 DEF SendAt
  <2> QED
    <3>1. {m} \in SUBSET Message
      OBVIOUS
    <3> DEFINE y == [d EXCEPT !.at = sent, !.timer = TRUE]
    <3>2. y \in DhcpType /\ SendAt(tcpip, d, waits, sent, m) =
            [Nothing EXCEPT !.to = y, !.sends = {m}]
      BY <1>2, <2>1
    <3> HIDE DEF y
    <3>3. [Nothing EXCEPT !.to = y, !.sends = {m}] \in ResultType
      BY <1>0, <1>1, <3>1, <3>2
    <3> QED
      BY <3>2, <3>3
<1>5. CASE ~tcpip
  <2>1. SendAt(tcpip, d, waits, sent, m) =
          [Nothing EXCEPT !.to = [d EXCEPT !.at = waits], !.polls = 1]
    BY <1>5 DEF SendAt
  <2> QED
    BY <1>0, <1>1, <1>3, <2>1
<1> QED
  BY <1>4, <1>5

LEMMA HandleTyped ==
  ASSUME dhcp \in DhcpType, NEW tcpip \in BOOLEAN, NEW m,
         NEW r \in HandleDhcp(tcpip, m)
  PROVE  r \in ResultType
<1>1. Nothing \in ResultType
  BY DEF Nothing, ResultType
<1>2. {"discover", "offer", "request", "ack", "renew", "extend", "bound"} \subseteq DhcpAt
      /\ {"offer", "ack"} \subseteq Message /\ 0 \in 0..MaxRequests
  BY WidthAssumption DEF DhcpAt, Message
<1>3. [dhcp EXCEPT !.tries = 0] \in DhcpType
  BY <1>2 DEF DhcpType
<1>4. Discover(tcpip) \in ResultType
  BY <1>2, <1>3, SendAtTyped DEF Discover
<1>5. \A t \in 0..MaxRequests : Request(tcpip, t) \in ResultType
  <2> SUFFICES ASSUME NEW t \in 0..MaxRequests PROVE Request(tcpip, t) \in ResultType
    OBVIOUS
  <2>1. [dhcp EXCEPT !.tries = t] \in DhcpType
    BY DEF DhcpType
  <2> QED
    BY <1>2, <2>1, SendAtTyped DEF Request
<1>6. Renew(tcpip) \in ResultType
  BY <1>2, SendAtTyped DEF Renew
<1>7. Bound \in ResultType
  <2>1. [dhcp EXCEPT !.at = "bound", !.timer = TRUE, !.tries = 0] \in DhcpType
    BY <1>2 DEF DhcpType
  <2> HIDE DEF Nothing
  <2> QED
    BY <1>1, <2>1 DEF Bound, ResultType
<1>8. dhcp.tries \in 0..MaxRequests
  BY DEF DhcpType
<1>9. dhcp.tries + 1 < MaxRequests => dhcp.tries + 1 \in 0..MaxRequests
  BY <1>8, WidthAssumption
<1>10. \A x \in ResultType : /\ [x EXCEPT !.fresh = TRUE] \in ResultType
                              /\ [x EXCEPT !.fresh = TRUE, !.gone = TRUE] \in ResultType
  BY DEF ResultType
<1> HIDE DEF Nothing, Discover, Request, Renew, Bound
<1> QED
  BY <1>1, <1>2, <1>4, <1>5, <1>6, <1>7, <1>8, <1>9, <1>10 DEF HandleDhcp

\* A connection more is taken, if there is one.
LEMMA TakeConnTyped ==
  ASSUME use \in Uses, udp \in 0..use.udp, TakeConn \/ udp' = udp
  PROVE  udp' \in 0..use.udp
<1>1. use.udp \in Nat
  BY UseTypes
<1> QED
  BY <1>1 DEF TakeConn, ConnLeft

LEMMA DhcpEventTyped ==
  ASSUME Typed, NEW q \in Seq(Event), Len(q) <= QueueSize,
         NEW tcpip \in BOOLEAN, NEW m, DhcpEvent(q, tcpip, m)
  PROVE  /\ dhcp' \in DhcpType /\ udp' \in 0..use.udp /\ replies' \subseteq Message
         /\ setup_done' \in BOOLEAN /\ QueueOK'
<1> DEFINE again == ~tcpip /\ ~setup_done /\ ~dhcp.retry
<1>1. PICK r \in HandleDhcp(tcpip, m) :
        LET init  == again \/ r.gone
            conn  == IF init THEN ConnLeft ELSE dhcp.conn
            poll(c) == [ev |-> "dhcp", conn |-> c]
        IN /\ dhcp' = IF again
                        THEN [r.to EXCEPT !.at = "discover", !.tries = 0, !.conn = conn, !.retry = TRUE]
                        ELSE [r.to EXCEPT !.conn = conn]
           /\ IF init THEN TakeConn ELSE udp' = udp
           /\ replies' = r.sends \cup (IF r.fresh \/ again THEN {} ELSE replies)
           /\ setup_done' = (setup_done \/ r.done)
           /\ Post(q, [i \in 1..r.polls |-> poll(IF r.gone THEN conn ELSE dhcp.conn)]
                        \o (IF again THEN <<poll(conn)>> ELSE << >>),
                   IF init THEN NoConn ELSE {})
  BY DEF DhcpEvent
<1>2. r \in ResultType /\ dhcp \in DhcpType
  BY HandleTyped DEF Typed
<1> DEFINE conn == IF again \/ r.gone THEN ConnLeft ELSE dhcp.conn
           c == IF r.gone THEN conn ELSE dhcp.conn
           one == [i \in 1..r.polls |-> [ev |-> "dhcp", conn |-> c]]
           two == IF again THEN <<[ev |-> "dhcp", conn |-> conn]>> ELSE << >>
<1>3. conn \in BOOLEAN /\ c \in BOOLEAN
  <2>1. ConnLeft \in BOOLEAN /\ dhcp.conn \in BOOLEAN
    BY <1>2 DEF ConnLeft, DhcpType
  <2> QED
    BY <2>1
<1>4. dhcp' = IF again
                THEN [r.to EXCEPT !.at = "discover", !.tries = 0, !.conn = conn, !.retry = TRUE]
                ELSE [r.to EXCEPT !.conn = conn]
  BY <1>1
<1>5. udp' \in 0..use.udp
  BY <1>1, TakeConnTyped DEF Typed
<1>6. replies' \subseteq Message
  BY <1>1, <1>2 DEF Typed, ResultType
<1>7. setup_done' \in BOOLEAN
  BY <1>1, <1>2 DEF Typed, ResultType
<1>8. \E more : Post(q, one \o two, more)
  BY <1>1
<1> HIDE DEF conn, again
<1>9. dhcp' \in DhcpType
  <2>1. "discover" \in DhcpAt /\ 0 \in 0..MaxRequests /\ r.to \in DhcpType
    BY <1>2, WidthAssumption DEF DhcpAt, ResultType
  <2> QED
    BY <1>3, <1>4, <2>1 DEF DhcpType
<1>10. one \o two \in Seq(Event)
  <2>1. \A b \in BOOLEAN : [ev |-> "dhcp", conn |-> b] \in Event
    BY DEF Event
  <2>2. r.polls \in Nat
    BY <1>2 DEF ResultType
  <2> HIDE DEF c
  <2>3. one \in Seq(Event)
    BY <1>3, <2>1, <2>2
  <2>4. two \in Seq(Event)
    BY <1>3, <2>1
  <2> HIDE DEF one, two
  <2> QED
    BY <2>3, <2>4, ConcatProperties
<1> HIDE DEF one, two
<1>11. QueueOK'
  BY <1>8, <1>10, PostTyped
<1> QED
  BY <1>5, <1>6, <1>7, <1>9, <1>11

-----------------------------------------------------------------------------
(* What the resolver does to the entries of its table. *)

LEMMA TickedTyped ==
  ASSUME NEW n \in NameMap
  PROVE  /\ Ticked(n) \in NameMap
         /\ Ticked(n).name = n.name /\ Ticked(n).ip = n.ip /\ Ticked(n).state = n.state
<1> DEFINE tmr == (n.tmr - 1) % Width
           again == IF tmr = 0 THEN (n.retries + 1) % Width ELSE n.retries
<1>1. tmr \in 0..(Width - 1) /\ again \in 0..(Width - 1)
  <2>1. n.tmr \in 0..(Width - 1) /\ n.retries \in 0..(Width - 1) /\ Width \in Nat \ {0}
    BY WidthAssumption DEF NameMap
  <2>2. \A i \in Int : i % Width \in 0..(Width - 1)
    BY <2>1
  <2> QED
    BY <2>1, <2>2
<1>2. CASE n.state # "asking"
  BY <1>2 DEF Ticked
<1>3. CASE n.state = "asking"
  <2>1. Ticked(n) = [n EXCEPT !.tmr = tmr, !.retries = again]
    BY <1>3 DEF Ticked
  <2> HIDE DEF tmr, again
  <2> QED
    BY <1>1, <2>1 DEF NameMap
<1> QED
  BY <1>2, <1>3

LEMMA SentTyped ==
  ASSUME NEW n \in NameMap
  PROVE  /\ Sent(n) \in NameMap
         /\ Sent(n).name = n.name /\ Sent(n).ip = n.ip
         /\ Sent(n).state = n.state \/ (n.state = "new" /\ Sent(n).state = "asking")
<1>1. CASE n.state = "new"
  <2>1. 0 \in 0..(Width - 1) /\ 1 \in 0..(Width - 1)
    BY WidthAssumption
  <2> QED
    BY <1>1, <2>1 DEF Sent, NameMap
<1>2. CASE n.state # "new"
  <2> DEFINE t == Ticked(n)
             wait == (t.retries * Pace) % Width
  <2>1. t \in NameMap /\ t.name = n.name /\ t.ip = n.ip /\ t.state = n.state
    BY TickedTyped
  <2>2. Sent(n) = [t EXCEPT !.tmr = wait]
    BY <1>2 DEF Sent
  <2> HIDE DEF t
  <2>3. wait \in 0..(Width - 1)
    <3>1. t.retries \in Nat /\ Pace \in Nat /\ Width \in Nat \ {0}
      BY <2>1, WidthAssumption DEF NameMap
    <3>2. t.retries * Pace \in Nat
      BY <3>1
    <3> QED
      BY <3>1, <3>2
  <2> HIDE DEF wait
  <2> QED
    BY <2>1, <2>2, <2>3 DEF NameMap
<1> QED
  BY <1>1, <1>2

\* The entries keep their names and their addresses, and none is answered by it;
\* a question is sent for the name of its entry.
LEMMA CheckEntriesKeeps ==
  ASSUME IInv, CheckEntries, use' = use, crossed' = crossed
  PROVE  /\ GoodTable(names)' /\ wire' \subseteq [id : Entry, name : Name]
         /\ resolver' \in [conn : {"waits", "open", "none"}, timer : BOOLEAN]
         /\ WireRight' /\ DoneRight'
<1> DEFINE due == {e \in Entry : Due(names[e])}
           k == IF due = {} THEN use.entries ELSE Min(due)
<1>1. /\ names' = [e \in Entry |-> IF e < k THEN Ticked(names[e])
                                   ELSE IF e = k THEN Sent(names[e]) ELSE names[e]]
      /\ wire' = wire \cup {[id |-> e, name |-> names[e].name] : e \in Entry \cap {k}}
      /\ resolver' = [resolver EXCEPT
            !.timer = @ \/ \E e \in Entry : names[e].state \in {"new", "asking"}]
  BY DEF CheckEntries
<1>2. /\ use \in Uses /\ GoodTable(names) /\ names \in [Entry -> NameMap]
      /\ Entry' = Entry /\ wire \subseteq [id : Entry, name : Name]
  BY DEF IInv, Typed, GoodTable, Entry
<1>3. k \in Entry => k \in due
  <2>1. Entry \subseteq Nat /\ use.entries \in Nat /\ use.entries \notin Entry
    <3>1. use.entries \in 1..Width
      BY <1>2, UseTypes
    <3> QED
      BY <3>1 DEF Entry
  <2>2. CASE due # {}
    <3>1. due \in SUBSET Nat
      BY <2>1
    <3> HIDE DEF due
    <3>2. \E x \in due : \A y \in due : x <= y
      BY <2>2, <3>1, NatMin
    <3>3. Min(due) \in due
      BY <3>2 DEF Min
    <3> QED
      BY <2>2, <3>3
  <2> QED
    BY <2>1, <2>2
<1>4. k \in Entry => names[k].name \in Name
  BY <1>2, <1>3 DEF Due, GoodTable
<1> HIDE DEF k, due
<1>5. ASSUME NEW e \in Entry
      PROVE  /\ names'[e] \in NameMap /\ names'[e].name = names[e].name
             /\ names'[e].ip = names[e].ip
             /\ \/ names'[e].state = names[e].state
                \/ names[e].state = "new" /\ names'[e].state = "asking"
  <2>1. names[e] \in NameMap
    BY <1>2
  <2>2. names'[e] \in {Ticked(names[e]), Sent(names[e]), names[e]}
    BY <1>1
  <2> QED
    BY <2>1, <2>2, TickedTyped, SentTyped
<1>6. names' \in [Entry -> NameMap]
  <2>1. names' = [e \in Entry |-> names'[e]]
    BY <1>1
  <2> QED
    BY <1>5, <2>1
<1>7. GoodTable(names)'
  BY <1>2, <1>5, <1>6 DEF GoodTable
<1>8. wire' \subseteq [id : Entry, name : Name]
  BY <1>1, <1>2, <1>4
<1>9. WireRight'
  BY <1>1, <1>2, <1>5, <1>8 DEF IInv, WireRight
<1>10. DoneRight'
  BY <1>2, <1>5 DEF IInv, DoneRight
<1>11. resolver' \in [conn : {"waits", "open", "none"}, timer : BOOLEAN]
  BY <1>1 DEF IInv, Typed
<1> QED
  BY <1>7, <1>8, <1>9, <1>10, <1>11

\* n asks for its address.
LEMMA AskKeeps ==
  ASSUME IInv, NEW n \in Name, Ask(n), UNCHANGED <<use, wire>>
  PROVE  /\ GoodTable(names)' /\ seqno' \in 0..(Width - 1) /\ QueueOK'
         /\ WireRight' /\ DoneRight' /\ crossed \subseteq crossed'
<1>1. /\ use \in Uses /\ GoodTable(names) /\ seqno \in 0..(Width - 1)
      /\ queue \in Seq(Event) /\ Len(queue) <= QueueSize
      /\ Entry' = Entry /\ wire \subseteq [id : Entry, name : Name]
  BY DEF IInv, Typed, QueueOK, Entry
<1>2. CASE n \in Literal
  <2>1. [ev |-> "literal", name |-> n] \in Event
    BY DEF Event
  <2>2. Post(queue, <<[ev |-> "literal", name |-> n]>>, {}) /\ UNCHANGED <<names, seqno, crossed>>
    BY <1>2 DEF Ask
  <2>3. QueueOK'
    <3>1. <<[ev |-> "literal", name |-> n]>> \in Seq(Event)
      BY <2>1
    <3> QED
      BY <1>1, <2>2, <3>1, PostTyped
  <2> QED
    BY <1>1, <2>2, <2>3 DEF IInv, WireRight, DoneRight, GoodTable
<1>3. CASE n \notin Literal
  <2> DEFINE e == EntryFor(names, seqno, n)
  <2>1. /\ names' = Queried(names, seqno, n)
        /\ seqno' = (seqno + 1) % Width
        /\ crossed' = IF names[e].name # n /\ \E w \in wire : w.id = e
                        THEN crossed \cup {n} ELSE crossed
        /\ \E more : Post(queue, <<[ev |-> "retry"]>>, more)
    BY <1>3 DEF Ask
  <2>2. GoodTable(names')
    BY <1>1, <2>1, QueriedGood
  <2>3. GoodTable(names)'
    BY <1>1, <2>2 DEF GoodTable
  <2>4. \A f \in Entry : \/ f # e /\ names'[f] = names[f]
                         \/ f = e /\ names'[f].name = n /\ names'[f].state = "new"
    BY <1>1, <2>1, QueriedGood
  <2> HIDE DEF e
  <2>5. QueueOK'
    <3>1. [ev |-> "retry"] \in Event
      BY DEF Event
    <3>2. <<[ev |-> "retry"]>> \in Seq(Event)
      BY <3>1
    <3> QED
      BY <1>1, <2>1, <3>2, PostTyped
  <2>6. seqno' \in 0..(Width - 1)
    BY <1>1, <2>1, WidthAssumption
  <2>7. WireRight'
    <3> SUFFICES ASSUME NEW w \in wire
                 PROVE  names'[w.id].name = w.name \/ names'[w.id].name \in crossed'
      BY DEF WireRight
    <3>1. w.id \in Entry /\ (names[w.id].name = w.name \/ names[w.id].name \in crossed)
      BY <1>1 DEF IInv, WireRight
    <3>2. CASE w.id # e
      BY <2>1, <2>4, <3>1, <3>2
    <3>3. CASE w.id = e
      BY <2>1, <2>4, <3>1, <3>3
    <3> QED
      BY <3>2, <3>3
  <2>8. DoneRight'
    BY <1>1, <2>1, <2>4 DEF IInv, DoneRight
  <2> QED
    BY <2>1, <2>3, <2>5, <2>6, <2>7, <2>8
<1> QED
  BY <1>2, <1>3

\* An answer to a question that was sent.
LEMMA AnsweredKeeps ==
  ASSUME IInv, NEW w \in wire, NEW kind, Answered(w, kind),
         UNCHANGED <<use, wire, crossed>>
  PROVE  GoodTable(names)' /\ QueueOK' /\ WireRight' /\ DoneRight'
<1> DEFINE waits == names[w.id].state = "asking" /\ kind # "empty"
           done == [Settled(names[w.id]) EXCEPT !.state = "done", !.ip = w.name]
           error == [Settled(names[w.id]) EXCEPT !.state = "error"]
           told == IF waits /\ kind # "norecord" THEN <<[ev |-> "found", entry |-> w.id]>> ELSE << >>
<1>1. /\ use \in Uses /\ GoodTable(names) /\ names \in [Entry -> NameMap]
      /\ queue \in Seq(Event) /\ Len(queue) <= QueueSize
      /\ Entry' = Entry /\ w.id \in Entry /\ w.name \in Name
      /\ names[w.id] \in NameMap /\ Entry \subseteq Nat
  <2>1. Entry \subseteq Nat
    BY DEF IInv, Typed, Entry
  <2> QED
    BY <2>1 DEF IInv, Typed, QueueOK, Entry, GoodTable
<1>2. /\ names' = IF ~waits THEN names
                  ELSE IF kind = "ok" THEN [names EXCEPT ![w.id] = done]
                  ELSE [names EXCEPT ![w.id] = error]
      /\ \E more : Post(queue, told, more)
  BY DEF Answered
<1>3. QueueOK'
  <2>1. [ev |-> "found", entry |-> w.id] \in Event
    BY <1>1 DEF Event
  <2>2. told \in Seq(Event)
    BY <2>1
  <2> HIDE DEF told
  <2> QED
    BY <1>1, <1>2, <2>2, PostTyped
<1>4. /\ done \in NameMap /\ done.name = names[w.id].name
      /\ done.state = "done" /\ done.ip = w.name
      /\ error \in NameMap /\ error.name = names[w.id].name /\ error.state = "error"
  <2>1. 0 \in 0..(Width - 1)
    BY WidthAssumption
  <2>2. Settled(names[w.id]) \in NameMap /\ Settled(names[w.id]).name = names[w.id].name
    BY <1>1, <2>1 DEF Settled, NameMap
  <2> QED
    BY <1>1, <2>2 DEF NameMap
<1> HIDE DEF done, error, told
<1>5. CASE ~waits
  BY <1>1, <1>2, <1>3, <1>5 DEF IInv, WireRight, DoneRight, GoodTable
<1>6. CASE waits
  <2>1. PICK r \in {done, error} : names' = [names EXCEPT ![w.id] = r]
    BY <1>2, <1>6
  <2>2. names[w.id].name \in Name
    BY <1>1, <1>6 DEF GoodTable
  <2>3. \A e \in Entry : names'[e].name = names[e].name
    BY <1>1, <1>4, <2>1
  <2>4. GoodTable(names)'
    <3>1. names' \in [Entry -> NameMap]
      BY <1>1, <1>4, <2>1
    <3>2. \A e \in Entry : names'[e] = IF e = w.id THEN r ELSE names[e]
      BY <1>1, <2>1
    <3>3. \A e \in Entry : names'[e].state # "unused" => names'[e].name \in Name
      BY <1>1, <2>2, <2>3, <3>2 DEF GoodTable
    <3>4. \A e \in Entry : names'[e].state = "done" => names'[e].ip \in Name
      BY <1>1, <1>4, <2>1, <3>2 DEF GoodTable
    <3>5. \A e, f \in Entry : names'[e].name = names'[f].name /\ names'[e].name # NULL => e = f
      BY <1>1, <2>3 DEF GoodTable
    <3> QED
      BY <1>1, <3>1, <3>3, <3>4, <3>5 DEF GoodTable
  <2>5. WireRight'
    BY <1>1, <2>3 DEF IInv, Typed, WireRight
  <2>6. DoneRight'
    <3> SUFFICES ASSUME NEW e \in Entry, names'[e].state = "done"
                 PROVE  names'[e].ip = names[e].name \/ names[e].name \in crossed
      BY <1>1, <2>3 DEF DoneRight
    <3>1. CASE e # w.id
      BY <1>1, <2>1, <3>1 DEF IInv, DoneRight
    <3>2. CASE e = w.id
      BY <1>1, <1>4, <2>1, <3>2 DEF IInv, WireRight
    <3> QED
      BY <3>1, <3>2
  <2> QED
    BY <1>3, <2>4, <2>5, <2>6
<1> HIDE DEF waits
<1> QED
  BY <1>5, <1>6

\* The address of a name that is known is the name's, or the name was crossed.
LEMMA AddressRight ==
  ASSUME IInv, NEW n, Known(n)
  PROVE  /\ n \in Name /\ AddressOf(n) \in Name
         /\ AddressOf(n) = n \/ n \in crossed
<1>1. GoodTable(names)
  BY DEF IInv, Typed
<1>2. CASE n \in Literal
  BY <1>2, UsesAssumption DEF AddressOf
<1>3. CASE n \notin Literal
  <2>1. PICK e \in Entry : names[e].name = n /\ names[e].state = "done"
    BY <1>3 DEF Known
  <2>2. n \in Name /\ names[e].ip \in Name
    BY <1>1, <2>1 DEF GoodTable
  <2>3. \A f \in Entry : names[f].name = n => f = e
    BY <1>1, <2>1, <2>2, NullAssumption DEF GoodTable
  <2>4. (CHOOSE f \in Entry : names[f].name = n) = e
    BY <2>1, <2>3
  <2>5. AddressOf(n) = names[e].ip
    BY <1>3, <2>4 DEF AddressOf
  <2> QED
    BY <2>1, <2>2, <2>5 DEF IInv, DoneRight
<1> QED
  BY <1>2, <1>3

-----------------------------------------------------------------------------
(* The steps. *)

\* DHCP, the polls and the timers leave the names, the devices and the time
\* service alone.
LEMMA OthersKeep ==
  ASSUME IInv, UNCHANGED <<use, names, seqno, wire, crossed, ntp, device>>,
         dhcp' \in DhcpType, udp' \in 0..use.udp, replies' \subseteq Message,
         setup_done' \in BOOLEAN, QueueOK',
         resolver' \in [conn : {"waits", "open", "none"}, timer : BOOLEAN]
  PROVE  IInv'
<1>1. Entry' = Entry
  BY DEF Entry
<1>2. GoodTable(names)'
  BY <1>1 DEF IInv, Typed, GoodTable
<1>3. Typed'
  BY <1>1, <1>2 DEF IInv, Typed
<1>4. WireRight' /\ DoneRight'
  BY <1>1 DEF IInv, WireRight, DoneRight
<1>5. NtpAsking' /\ RightAddress'
  BY DEF IInv, NtpAsking, RightAddress, NtpUrl
<1> QED
  BY <1>3, <1>4, <1>5 DEF IInv

\* The resolver's steps leave the devices and the time service alone.
LEMMA ResolverKeeps ==
  ASSUME IInv, UNCHANGED <<use, setup_done, dhcp, replies, seqno, crossed, udp, ntp, device>>,
         GoodTable(names)', QueueOK', WireRight', DoneRight',
         wire' \subseteq [id : Entry, name : Name],
         resolver' \in [conn : {"waits", "open", "none"}, timer : BOOLEAN]
  PROVE  IInv'
<1>1. Entry' = Entry
  BY DEF Entry
<1>2. Typed'
  BY <1>1 DEF IInv, Typed
<1>3. NtpAsking' /\ RightAddress'
  BY DEF IInv, NtpAsking, RightAddress, NtpUrl
<1> QED
  BY <1>2, <1>3 DEF IInv

LEMMA NtpUrlTyped ==
  ASSUME use \in Uses, use.ntp # << >>, NEW k \in Nat
  PROVE  NtpUrl(k) \in Name
<1>1. use.ntp \in Seq(Name)
  BY UseTypes
<1>2. Len(use.ntp) \in Nat \ {0}
  BY <1>1, EmptySeq
<1>3. (IF k < Len(use.ntp) THEN k + 1 ELSE Len(use.ntp)) \in 1..Len(use.ntp)
  BY <1>2
<1> QED
  BY <1>1, <1>3, ElementOfSeq DEF NtpUrl

\* The time service asks for one of its servers.
LEMMA NtpAsksKeeps ==
  ASSUME IInv, NEW k \in 0..MaxGiveUps, use.ntp # << >>, NtpAsks(k)
  PROVE  IInv'
<1>1. /\ ntp' = [ntp EXCEPT !.at = "answer", !.server = k]
      /\ Ask(NtpUrl(k))
      /\ UNCHANGED <<use, resolver, wire, device, udp, setup_done, dhcp, replies>>
  BY DEF NtpAsks, unchangedDhcp
<1>2. NtpUrl(k) \in Name
  <2>1. k \in Nat
    BY SizeAssumption
  <2> QED
    BY <2>1, NtpUrlTyped DEF IInv, Typed
<1>3. /\ GoodTable(names)' /\ seqno' \in 0..(Width - 1) /\ QueueOK'
      /\ WireRight' /\ DoneRight' /\ crossed \subseteq crossed'
  BY <1>1, <1>2, AskKeeps
<1>4. /\ ntp' \in [at : {"setup", "answer", "found"}, server : 0..MaxGiveUps, ip : Name \cup {NULL}]
      /\ ntp'.at = "answer"
  BY <1>1 DEF IInv, Typed
<1>5. Typed'
  <2>1. Entry' = Entry
    BY <1>1 DEF Entry
  <2> QED
    BY <1>1, <1>3, <1>4, <2>1 DEF IInv, Typed
<1>6. NtpAsking'
  BY <1>1 DEF NtpAsking
<1>7. RightAddress'
  BY <1>1, <1>3, <1>4 DEF IInv, RightAddress
<1> QED
  BY <1>3, <1>5, <1>6, <1>7 DEF IInv

\* A name is found: a device that waits for it, and the time service, take its
\* address.
LEMMA FoundKeeps ==
  ASSUME IInv, queue # << >>, NEW n, Found(n)
  PROVE  IInv'
<1>1. /\ device' = IF Known(n) THEN Told(n) ELSE device
      /\ IF ntp.at = "answer" /\ NtpUrl(ntp.server) = n /\ Known(n)
           THEN /\ ntp' = [ntp EXCEPT !.at = "found", !.ip = AddressOf(n)]
                /\ TakeConn
                /\ Post(Tail(queue), << >>, NoConn)
           ELSE UNCHANGED <<ntp, udp>> /\ Post(Tail(queue), << >>, {})
      /\ UNCHANGED <<use, setup_done, dhcp, replies, names, seqno, resolver, wire, crossed>>
  BY DEF Found, unchangedDhcp, unchangedNames
<1>2. Typed
  BY DEF IInv
<1>3. Entry' = Entry /\ GoodTable(names)'
  BY <1>1, <1>2 DEF Typed, GoodTable, Entry
<1>4. QueueOK'
  <2>1. \E more : Post(Tail(queue), << >>, more)
    BY <1>1
  <2>2. << >> \in Seq(Event)
    OBVIOUS
  <2> QED
    BY <1>2, <2>1, <2>2, TakenTyped, PostTyped DEF Typed
<1>5. udp' \in 0..use.udp
  BY <1>1, <1>2, TakeConnTyped DEF Typed
<1>6. Known(n) => /\ n \in Name /\ AddressOf(n) \in Name
                  /\ AddressOf(n) = n \/ n \in crossed
  BY AddressRight
<1>7. /\ device' \in [DOMAIN use.urls -> Name \cup {NULL}]
      /\ \A d \in DOMAIN use.urls :
           device'[d] = device[d] \/ (Known(n) /\ use.urls[d] = n /\ device'[d] = AddressOf(n))
  <2>1. device \in [DOMAIN use.urls -> Name \cup {NULL}]
    BY <1>2 DEF Typed
  <2>2. CASE ~Known(n)
    BY <1>1, <2>1, <2>2
  <2>3. CASE Known(n)
    <3> DEFINE first == {d \in Waiting : /\ use.urls[d] = n
                                         /\ \A c \in Waiting : use.urls[c] = n => d <= c}
    <3>1. device' = [d \in DOMAIN device |-> IF d \in first THEN AddressOf(n) ELSE device[d]]
      BY <1>1, <2>3 DEF Told
    <3>2. \A d \in first : use.urls[d] = n
      OBVIOUS
    <3> HIDE DEF first
    <3> QED
      BY <1>6, <2>1, <2>3, <3>1, <3>2
  <2> QED
    BY <2>2, <2>3
<1>8. /\ ntp' \in [at : {"setup", "answer", "found"}, server : 0..MaxGiveUps, ip : Name \cup {NULL}]
      /\ ntp'.server = ntp.server
      /\ \/ ntp' = ntp
         \/ /\ ntp.at = "answer" /\ NtpUrl(ntp.server) = n /\ Known(n)
            /\ ntp'.ip = AddressOf(n)
  <2>1. ntp \in [at : {"setup", "answer", "found"}, server : 0..MaxGiveUps, ip : Name \cup {NULL}]
    BY <1>2 DEF Typed
  <2>2. CASE ntp.at = "answer" /\ NtpUrl(ntp.server) = n /\ Known(n)
    <3>1. ntp' = [ntp EXCEPT !.at = "found", !.ip = AddressOf(n)]
      BY <1>1, <2>2
    <3> QED
      BY <1>6, <2>1, <2>2, <3>1
  <2>3. CASE ~(ntp.at = "answer" /\ NtpUrl(ntp.server) = n /\ Known(n))
    BY <1>1, <2>1, <2>3
  <2> QED
    BY <2>2, <2>3
<1>9. Typed'
  BY <1>1, <1>2, <1>3, <1>4, <1>5, <1>7, <1>8 DEF Typed
<1>10. WireRight' /\ DoneRight'
  BY <1>1, <1>3 DEF IInv, WireRight, DoneRight
<1>11. NtpAsking'
  BY <1>1, <1>8 DEF IInv, NtpAsking
<1>12. RightAddress'
  <2>1. \A d \in DOMAIN device' :
          device'[d] \in {NULL, use.urls[d]} \/ use.urls[d] \in crossed
    BY <1>2, <1>6, <1>7 DEF IInv, Typed, RightAddress
  <2>2. ntp'.at = "found" =>
          \/ ntp'.ip = NtpUrl(ntp.server)
          \/ NtpUrl(ntp.server) \in crossed
    BY <1>6, <1>8 DEF IInv, RightAddress
  <2>3. NtpUrl(ntp.server)' = NtpUrl(ntp.server)
    BY <1>1, <1>8 DEF NtpUrl
  <2> QED
    BY <1>1, <2>1, <2>2, <2>3 DEF RightAddress
<1> QED
  BY <1>9, <1>10, <1>11, <1>12 DEF IInv

\* A handler that posts one event or none, after its own was taken or not.
LEMMA PostsTyped ==
  ASSUME IInv, NEW more
  PROVE  /\ \A e \in Event : Post(queue, <<e>>, more) => QueueOK'
         /\ queue # << >> => \A e \in Event : Post(Tail(queue), <<e>>, more) => QueueOK'
         /\ queue # << >> => (Post(Tail(queue), << >>, more) => QueueOK')
<1>1. QueueOK /\ queue \in Seq(Event) /\ Len(queue) <= QueueSize
  BY DEF IInv, Typed, QueueOK
<1>2. << >> \in Seq(Event) /\ \A e \in Event : <<e>> \in Seq(Event)
  OBVIOUS
<1>3. queue # << >> => Tail(queue) \in Seq(Event) /\ Len(Tail(queue)) <= QueueSize
  BY <1>1, TakenTyped
<1>4. ASSUME NEW e \in Event, Post(queue, <<e>>, more) PROVE QueueOK'
  BY <1>1, <1>2, <1>4, PostTyped
<1>5. ASSUME queue # << >>, NEW e \in Event, Post(Tail(queue), <<e>>, more) PROVE QueueOK'
  BY <1>2, <1>3, <1>5, PostTyped
<1>6. ASSUME queue # << >>, Post(Tail(queue), << >>, more) PROVE QueueOK'
  BY <1>2, <1>3, <1>6, PostTyped
<1> QED
  BY <1>4, <1>5, <1>6

LEMMA NextIInv == IInv /\ [Next]_vars => IInv'
<1> SUFFICES ASSUME IInv, [Next]_vars PROVE IInv'
  OBVIOUS
<1>0. /\ dhcp \in DhcpType /\ udp \in 0..use.udp /\ replies \subseteq Message
      /\ setup_done \in BOOLEAN /\ QueueOK /\ GoodTable(names) /\ Typed /\ use \in Uses
      /\ resolver \in [conn : {"waits", "open", "none"}, timer : BOOLEAN]
      /\ ntp.at # "setup" => use.ntp # << >>
      /\ ntp.server \in 0..MaxGiveUps
  BY DEF IInv, Typed, NtpAsking
<1>e. [ev |-> "retry"] \in Event /\ [ev |-> "dns"] \in Event /\ [ev |-> "tick"] \in Event
  BY DEF Event
<1>1. CASE ResolverStarts
  <2>1. QueueOK'
    BY <1>1, <1>e, PostsTyped DEF ResolverStarts
  <2>2. udp' \in 0..use.udp
    BY <1>0, <1>1, TakeConnTyped DEF ResolverStarts
  <2>3. resolver' \in [conn : {"waits", "open", "none"}, timer : BOOLEAN]
    BY <1>0, <1>1 DEF ResolverStarts
  <2>4. UNCHANGED <<use, names, seqno, wire, crossed, ntp, device, setup_done, dhcp, replies>>
    BY <1>1 DEF ResolverStarts, unchangedDhcp, unchangedClients
  <2> QED
    BY <1>0, <2>1, <2>2, <2>3, <2>4, OthersKeep
<1>2. CASE RetryTimer
  <2>1. QueueOK'
    BY <1>0, <1>2, <1>e, AppendTyped DEF RetryTimer
  <2>2. resolver' \in [conn : {"waits", "open", "none"}, timer : BOOLEAN]
    BY <1>0, <1>2 DEF RetryTimer
  <2>3. UNCHANGED <<use, names, seqno, wire, crossed, udp, ntp, device, setup_done, dhcp, replies>>
    BY <1>2 DEF RetryTimer, unchangedDhcp, unchangedClients
  <2> QED
    BY <1>0, <2>1, <2>2, <2>3, OthersKeep
<1>3. CASE TimerExpires \/ RetryExpires
  <2>1. PICK d \in DhcpType : DhcpTimer(d)
    <3>1. [dhcp EXCEPT !.timer = FALSE] \in DhcpType /\ [dhcp EXCEPT !.retry = FALSE] \in DhcpType
      BY <1>0 DEF DhcpType
    <3> QED
      BY <1>3, <3>1 DEF TimerExpires, RetryExpires
  <2>2. QueueOK'
    BY <1>0, <1>e, <2>1, AppendTyped DEF DhcpTimer
  <2>3. /\ dhcp' \in DhcpType
        /\ UNCHANGED <<use, names, seqno, resolver, wire, crossed, udp, ntp, device, setup_done, replies>>
    BY <2>1 DEF DhcpTimer, unchangedNames, unchangedClients
  <2> QED
    BY <1>0, <2>2, <2>3, OthersKeep
<1>4. CASE TakeRetry
  <2>1. QueueOK'
    <3>1. queue # << >>
      BY <1>4 DEF TakeRetry, IsNext
    <3>2. CASE resolver.conn = "open"
      BY <1>4, <1>e, <3>1, <3>2, PostsTyped DEF TakeRetry
    <3>3. CASE resolver.conn # "open"
      BY <1>4, <3>1, <3>3, PostsTyped DEF TakeRetry
    <3> QED
      BY <3>2, <3>3
  <2>2. UNCHANGED <<use, names, seqno, resolver, wire, crossed, udp, ntp, device, setup_done, dhcp, replies>>
    BY <1>4 DEF TakeRetry, unchangedDhcp, unchangedNames, unchangedClients
  <2> QED
    BY <1>0, <2>1, <2>2, OthersKeep
<1>5. CASE TakeDns
  <2>1. CheckEntries /\ QueueOK'
    BY <1>5, PostsTyped DEF TakeDns, IsNext
  <2>2. UNCHANGED <<use, setup_done, dhcp, replies, seqno, crossed, udp, ntp, device>>
    BY <1>5 DEF TakeDns, unchangedDhcp, unchangedClients
  <2> QED
    BY <2>1, <2>2, CheckEntriesKeeps, ResolverKeeps
<1>6. CASE \E q, tcpip, m : /\ (q = queue \/ (queue # << >> /\ q = Tail(queue)))
                             /\ tcpip \in BOOLEAN
                             /\ DhcpEvent(q, tcpip, m)
                             /\ UNCHANGED use /\ unchangedNames /\ unchangedClients
  <2>1. PICK q, tcpip, m : /\ (q = queue \/ (queue # << >> /\ q = Tail(queue)))
                           /\ tcpip \in BOOLEAN
                           /\ DhcpEvent(q, tcpip, m)
                           /\ UNCHANGED use /\ unchangedNames /\ unchangedClients
    BY <1>6
  <2>2. q \in Seq(Event) /\ Len(q) <= QueueSize
    BY <1>0, <2>1, TakenTyped DEF QueueOK
  <2>3. /\ dhcp' \in DhcpType /\ udp' \in 0..use.udp /\ replies' \subseteq Message
        /\ setup_done' \in BOOLEAN /\ QueueOK'
    BY <1>0, <2>1, <2>2, DhcpEventTyped
  <2>4. UNCHANGED <<use, names, seqno, resolver, wire, crossed, ntp, device>>
    BY <2>1 DEF unchangedNames, unchangedClients
  <2> QED
    BY <1>0, <2>3, <2>4, OthersKeep
<1>7. CASE TakeDhcp
  <2>1. queue # << >>
    BY <1>7 DEF TakeDhcp, IsNext
  <2>2. CASE Head(queue).conn
    BY <1>6, <1>7, <2>1, <2>2 DEF TakeDhcp
  <2>3. CASE ~Head(queue).conn
    <3>1. QueueOK'
      BY <1>7, <2>1, <2>3, PostsTyped DEF TakeDhcp
    <3>2. UNCHANGED <<use, names, seqno, resolver, wire, crossed, udp, ntp, device, setup_done, dhcp, replies>>
      BY <1>7, <2>3 DEF TakeDhcp, unchangedDhcp, unchangedNames, unchangedClients
    <3> QED
      BY <1>0, <3>1, <3>2, OthersKeep
  <2> QED
    BY <2>2, <2>3
<1>8. CASE TakeTick \/ OtherReply \/ \E m \in Message : Reply(m)
  BY <1>6, <1>8 DEF TakeTick, OtherReply, Reply, IsNext
<1>9. CASE TakeFound \/ TakeLiteral
  BY <1>9, FoundKeeps DEF TakeFound, TakeLiteral, IsNext
<1>10. CASE NtpStarts
  <2>1. 0 \in 0..MaxGiveUps
    BY SizeAssumption
  <2> QED
    BY <1>10, <2>1, NtpAsksKeeps DEF NtpStarts
<1>11. CASE NtpGivesUp
  <2>1. use.ntp # << >> /\ NtpAsks(ntp.server + 1)
    BY <1>0, <1>11 DEF NtpGivesUp
  <2>2. ntp.server + 1 \in 0..MaxGiveUps
    BY <1>0, <1>11, SizeAssumption DEF NtpGivesUp
  <2> QED
    BY <2>1, <2>2, NtpAsksKeeps
<1>12. CASE \E w \in wire, k \in Kind : Answer(w, k)
  <2>1. PICK w \in wire, k \in Kind : Answer(w, k)
    BY <1>12
  <2>2. /\ Answered(w, k)
        /\ UNCHANGED <<use, setup_done, dhcp, replies, seqno, resolver, wire, crossed, udp, ntp, device>>
    BY <2>1 DEF Answer, unchangedDhcp, unchangedClients
  <2>3. GoodTable(names)' /\ QueueOK' /\ WireRight' /\ DoneRight'
    BY <2>2, AnsweredKeeps
  <2>4. wire' \subseteq [id : Entry, name : Name]
    BY <2>2 DEF IInv, Typed
  <2> QED
    BY <1>0, <2>2, <2>3, <2>4, ResolverKeeps
<1>13. CASE \E e \in Entry : Expires(e)
  <2>1. PICK e \in Entry : Expires(e)
    BY <1>13
  <2>2. /\ names' = [names EXCEPT ![e].old = TRUE]
        /\ UNCHANGED <<use, setup_done, dhcp, replies, seqno, resolver, wire, crossed, queue, udp, ntp, device>>
    BY <2>1 DEF Expires, unchangedDhcp, unchangedClients
  <2>3. names \in [Entry -> NameMap] /\ Entry' = Entry /\ wire \subseteq [id : Entry, name : Name]
    BY <1>0, <2>2 DEF Typed, GoodTable, Entry
  <2>4. /\ names' \in [Entry -> NameMap]
        /\ \A f \in Entry : /\ names'[f].name = names[f].name
                            /\ names'[f].state = names[f].state
                            /\ names'[f].ip = names[f].ip
    <3> DEFINE r == [names[e] EXCEPT !.old = TRUE]
    <3>1. /\ r \in NameMap /\ r.name = names[e].name
          /\ r.state = names[e].state /\ r.ip = names[e].ip
      BY <2>3 DEF NameMap
    <3>2. names' = [names EXCEPT ![e] = r]
      BY <2>2
    <3> HIDE DEF r
    <3> QED
      BY <2>3, <3>1, <3>2
  <2>5. GoodTable(names)'
    BY <1>0, <2>3, <2>4 DEF GoodTable
  <2>6. WireRight' /\ DoneRight'
    BY <2>2, <2>3, <2>4 DEF IInv, WireRight, DoneRight
  <2>7. QueueOK'
    BY <1>0, <2>2 DEF QueueOK
  <2> QED
    BY <1>0, <2>2, <2>3, <2>5, <2>6, <2>7, ResolverKeeps
<1>14. CASE UNCHANGED vars
  <2>1. UNCHANGED <<use, names, seqno, resolver, wire, crossed, udp, ntp, device, setup_done, dhcp, replies, queue>>
    BY <1>14 DEF vars
  <2>2. QueueOK'
    BY <1>0, <2>1 DEF QueueOK
  <2> QED
    BY <1>0, <2>1, <2>2, OthersKeep
<1> QED
  BY <1>1, <1>2, <1>3, <1>4, <1>5, <1>7, <1>8, <1>9, <1>10, <1>11, <1>12, <1>13, <1>14
     DEF Next, Loop

LEMMA Inductive == Spec => []IInv
BY InitIInv, NextIInv, PTL DEF Spec

-----------------------------------------------------------------------------
(* The theorems. *)

\* The table, the queue, the numbers of questions and the connections stay
\* within what resolv.c, dhcpc.c and uip_udp_new keep them in.
THEOREM TypeCorrect == Spec => []TypeOK
<1>1. IInv => TypeOK
  <2> SUFFICES ASSUME IInv PROVE TypeOK
    OBVIOUS
  <2>1. ToSet(queue) \subseteq Event
    BY DEF IInv, Typed, QueueOK, ToSet
  <2>2. Len(queue) <= QueueSize /\ names \in [Entry -> NameMap]
    BY DEF IInv, Typed, QueueOK, GoodTable
  <2> QED
    BY <2>1, <2>2 DEF IInv, Typed, DhcpType, TypeOK
<1> QED
  BY <1>1, Inductive, PTL

\* However datagrams are lost, repeated and reordered, and whatever the sizes of
\* the table and the queue are: who takes an address takes that of its own URL,
\* or the entry of that URL was another's when its question was sent.
THEOREM RightAddressCorrect == Spec => []RightAddress
<1>1. IInv => RightAddress
  BY DEF IInv
<1> QED
  BY <1>1, Inductive, PTL
=============================================================================
