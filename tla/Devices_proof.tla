--------------------------- MODULE Devices_proof ---------------------------
(***************************************************************************)
(* Proofs about Devices: the types, and that a Device that is taken to be  *)
(* connected has a connection and a Buffer, for any number of hosts,       *)
(* servers, Devices and connections.                                       *)
(***************************************************************************)
EXTENDS Devices, DataInduction, SequenceTheorems, FiniteSetTheorems

-----------------------------------------------------------------------------
(* The constants. *)

N == Cardinality(Dev)

LEMMA DevInterval ==
  /\ N \in Nat /\ Dev = 1..N
  /\ NULL \notin Dev /\ NULL \notin Address /\ NULL \notin {"scp", "check"}
BY UsesAssumption, NullAssumption, FS_CardinalityType DEF N

LEMMA UseTypes ==
  ASSUME NEW u \in Uses
  PROVE  /\ u.servers \in Seq(Address) /\ u.inbound \subseteq Address
         /\ u.conns \in Nat /\ 1..u.conns \subseteq Nat
         /\ Len(u.servers) \in Nat /\ 1..Len(u.servers) \subseteq Dev
         /\ \A i \in 1..Len(u.servers) : u.servers[i] \in Address
<1>1. u.servers \in Seq(Address) /\ u.inbound \subseteq Address
      /\ u.conns \in 1..NumConns /\ Len(u.servers) <= N
  BY UsesAssumption DEF N
<1>2. Len(u.servers) \in Nat /\ \A i \in 1..Len(u.servers) : u.servers[i] \in Address
  BY <1>1
<1> QED
  BY <1>1, <1>2, DevInterval, SizeAssumption

-----------------------------------------------------------------------------
(* The list of devices. *)

ListOK(l) == l \in Seq(Dev) /\ IsInjective(l)

LEMMA ListFacts ==
  ASSUME NEW l \in Seq(Dev)
  PROVE  /\ Len(l) \in Nat /\ DOMAIN l = 1..Len(l)
         /\ \A i \in 1..Len(l) : l[i] \in Dev /\ l[i] \in ToSet(l)
         /\ ToSet(l) \subseteq Dev
         /\ \A d \in ToSet(l) : \E i \in 1..Len(l) : l[i] = d
BY DEF ToSet

\* A loop over the list ends at a Device of the kind it looks for, or at NULL.
LEMMA FirstBehindIn ==
  ASSUME list \in Seq(Dev), NEW d, NEW D
  PROVE  FirstBehind(d, D) \in (ToSet(list) \cap D) \cup {NULL}
<1> DEFINE from == IF d = NULL THEN 0
                   ELSE IF d \in ToSet(list) THEN CHOOSE i \in DOMAIN list : list[i] = d
                   ELSE Len(list)
           found == {i \in DOMAIN list : i > from /\ list[i] \in D}
           k == CHOOSE i \in found : \A j \in found : i <= j
<1>1. FirstBehind(d, D) = IF found = {} THEN NULL ELSE list[k]
  BY DEF FirstBehind
<1>2. found \subseteq DOMAIN list /\ found \in SUBSET Nat
      /\ \A i \in found : list[i] \in D /\ list[i] \in ToSet(list)
  BY ListFacts
<1> HIDE DEF from, found
<1>3. CASE found = {}
  BY <1>1, <1>3
<1>4. CASE found # {}
  <2>1. \E i \in found : \A j \in found : i <= j
    BY <1>2, <1>4, NatMin
  <2>2. k \in found
    BY <2>1
  <2> HIDE DEF k
  <2> QED
    BY <1>1, <1>2, <1>4, <2>2
<1> QED
  BY <1>3, <1>4

LEMMA WithoutList ==
  ASSUME ListOK(list), NEW d
  PROVE  ListOK(Without(d)) /\ ToSet(Without(d)) = ToSet(list) \ {d}
<1>1. CASE d \notin ToSet(list)
  BY <1>1 DEF Without
<1>2. CASE d \in ToSet(list)
  <2> DEFINE k == CHOOSE i \in DOMAIN list : list[i] = d
  <2>1. k \in 1..Len(list) /\ list[k] = d
    <3>1. \E i \in DOMAIN list : list[i] = d
      BY <1>2 DEF ToSet
    <3> QED
      BY <3>1 DEF ListOK
  <2>2. Without(d) = RemoveAt(list, k)
    BY <1>2 DEF Without
  <2> HIDE DEF k
  <2> QED
    BY <2>1, <2>2, RemovedAt DEF ListOK
<1> QED
  BY <1>1, <1>2

LEMMA AppendedList ==
  ASSUME ListOK(list), NEW d \in Dev \ ToSet(list)
  PROVE  /\ ListOK(Append(list, d))
         /\ ToSet(Append(list, d)) = ToSet(list) \cup {d}
<1> DEFINE l == Append(list, d)
           n == Len(list)
<1>1. /\ l \in Seq(Dev) /\ n \in Nat /\ DOMAIN l = 1..(n + 1) /\ DOMAIN list = 1..n
      /\ \A i \in 1..n : l[i] = list[i]
      /\ l[n + 1] = d
  BY AppendProperties DEF ListOK
<1>2. \A i \in 1..n : list[i] \in ToSet(list) /\ list[i] # d
  BY <1>1 DEF ToSet
<1>3. \A i, j \in 1..n : list[i] = list[j] => i = j
  BY <1>1 DEF ListOK, IsInjective
<1>4. \A i \in 1..(n + 1) : i \in 1..n \/ i = n + 1
  BY <1>1
<1>5. \A i \in 1..n : i \in 1..(n + 1)
  BY <1>1
<1> HIDE DEF l, n
<1>6. IsInjective(l)
  BY <1>1, <1>2, <1>3, <1>4 DEF IsInjective
<1>7. ToSet(l) = {l[i] : i \in 1..(n + 1)} /\ ToSet(list) = {list[i] : i \in 1..n}
  BY <1>1 DEF ToSet
<1>8. n + 1 \in 1..(n + 1)
  BY <1>1
<1>9. ToSet(l) = ToSet(list) \cup {d}
  BY <1>1, <1>4, <1>5, <1>7, <1>8
<1> QED
  BY <1>1, <1>6, <1>9 DEF ListOK, l

\* SCP_create_new_device: one Device is made, and the next of others is set.
LEMMA NewDeviceMade ==
  ASSUME NEW m \in [Dev -> Device], NEW l \in Seq(Dev), NEW d \in Dev, NEW id \in Nat,
         NEW ip \in Address \cup {NULL}
  PROVE  LET w == NewDevice(m, l, d, id, ip)
         IN  /\ w \in [Dev -> Device]
             /\ w[d].state = "unknown" /\ w[d].attempts = MaxAttempts /\ w[d].ip = ip
             /\ \A e \in Dev \ {d} : w[e] \in {m[e], [m[e] EXCEPT !.next = d]}
<1> DEFINE w == NewDevice(m, l, d, id, ip)
           same == {i \in DOMAIN l : m[l[i]].id = id}
           k == CHOOSE i \in same : \A j \in same : j <= i
           n == Len(l)
<1>1. n \in Nat /\ DOMAIN l = 1..n /\ \A i \in 1..n : l[i] \in Dev
  BY ListFacts
<1>2. same \in SUBSET (0..n) /\ same \subseteq 1..n
  BY <1>1
<1>3. Cardinality(same) \in Nat
  <2>1. IsFiniteSet(1..n)
    BY <1>1, FS_Interval
  <2> QED
    BY <1>2, <2>1, FS_Subset, FS_CardinalityType
<1>4. (IF same = {} THEN NULL ELSE l[k]) \in Dev \cup {NULL}
  <2> HIDE DEF same
  <2>1. CASE same # {}
    <3>1. k \in same
      BY <1>1, <1>2, <2>1, NatMax
    <3> HIDE DEF k
    <3> QED
      BY <1>1, <1>2, <2>1, <3>1
  <2> QED
    BY <2>1
<1> DEFINE r == [state |-> "unknown", attempts |-> MaxAttempts, buffer |-> FALSE,
                 id |-> id, ip |-> ip, order |-> Cardinality(same), next |-> NULL,
                 prev |-> IF same = {} THEN NULL ELSE l[k]]
<1>5. w = [e \in Dev |-> IF e = d THEN r
             ELSE IF \E i \in same : l[i] = e THEN [m[e] EXCEPT !.next = d] ELSE m[e]]
  BY DEF NewDevice
<1>6. r \in Device
  <2>1. "unknown" \in State /\ MaxAttempts \in 0..MaxAttempts
    BY SizeAssumption DEF State
  <2> HIDE DEF same, k
  <2> QED
    BY <1>3, <1>4, <2>1 DEF Device
<1>7. r.state = "unknown" /\ r.attempts = MaxAttempts /\ r.ip = ip
  OBVIOUS
<1>8. \A e \in Dev : [m[e] EXCEPT !.next = d] \in Device
  BY DEF Device
<1> HIDE DEF r, same
<1> QED
  BY <1>5, <1>6, <1>7, <1>8 DEF w

\* SCP_Loop_active_devices: a Device that it found has been tried in vain, or
\* has told who it is.
LEMMA NextActiveIn ==
  ASSUME list \in Seq(Dev), dev \in [Dev -> Device], NEW d0
  PROVE  /\ NextActive(d0) \in Dev \cup {NULL}
         /\ NextActive(d0) # NULL =>
              \/ dev[NextActive(d0)].attempts = 0
              \/ dev[NextActive(d0)].state # "unknown"
<1> DEFINE first == FirstBehind(d0, {e \in Dev : dev[e].order = 0})
           Ptr == Dev \cup {NULL}
           V == {s \in [at : Ptr, found : Ptr] : s.found # NULL => dev[s.found].attempts = 0}
           v0 == [at |-> first, found |-> NULL]
           Turn(s) == IF s.at # NULL /\ dev[s.at].attempts = 0
                      THEN [at |-> dev[s.at].next, found |-> s.at] ELSE s
           G == [n \in 1..N |-> [s \in V |-> Turn(s)]]
<1>1. first \in Ptr
  BY FirstBehindIn, ListFacts
<1> HIDE DEF first
<1>2. v0 \in V
  BY <1>1
<1>3. ASSUME NEW s \in V PROVE Turn(s) \in V
  <2>1. CASE s.at # NULL /\ dev[s.at].attempts = 0
    <3>1. s.at \in Dev /\ dev[s.at].next \in Ptr
      BY <2>1 DEF Device
    <3> QED
      BY <2>1, <3>1
  <2>2. CASE ~(s.at # NULL /\ dev[s.at].attempts = 0)
    BY <2>2
  <2> QED
    BY <2>1, <2>2
<1> HIDE DEF V, v0, Turn
<1>4. G \in [1..N -> [V -> V]]
  BY <1>3
<1>5. PICK f \in [0..N -> V] : Steps(f, N, v0, G)
  BY <1>2, <1>4, DevInterval, Recursion
<1>6. f = [n \in 0..N |-> IF n = 0 THEN v0 ELSE Turn(f[n - 1])]
  <2>1. \A n \in 1..N : n \in 0..N /\ n # 0 /\ n - 1 \in 0..N /\ f[n - 1] \in V
    BY DevInterval
  <2>2. \A n \in 1..N : f[n] = Turn(f[n - 1])
    BY <1>5, <2>1 DEF Steps
  <2>3. \A n \in 0..N : n = 0 \/ n \in 1..N
    BY DevInterval
  <2>4. \A n \in 0..N : f[n] = IF n = 0 THEN v0 ELSE Turn(f[n - 1])
    BY <1>5, <2>2, <2>3 DEF Steps
  <2> QED
    BY <2>4
<1> DEFINE g == CHOOSE g : g = [n \in 0..N |-> IF n = 0 THEN v0 ELSE Turn(g[n - 1])]
<1>7. g = [n \in 0..N |-> IF n = 0 THEN v0 ELSE Turn(g[n - 1])]
  BY <1>6
<1>8. Search(first) = g
  BY DEF Search, v0, Turn, N
<1> HIDE DEF g, G
<1>9. g[N] \in V
  <2> DEFINE S == {n \in 0..N : g[n] \in V}
  <2>1. 0 \in S
    BY <1>2, <1>7, DevInterval
  <2>2. \A n \in 0..(N - 1) : n \in S => n + 1 \in S
    <3> SUFFICES ASSUME NEW n \in 0..(N - 1), n \in S
                 PROVE  n + 1 \in S
      OBVIOUS
    <3>1. n + 1 \in 0..N /\ n + 1 # 0 /\ (n + 1) - 1 = n
      BY DevInterval
    <3> QED
      BY <1>3, <1>7, <3>1
  <2> HIDE DEF S
  <2>3. \A n \in 0..N : n \in S
    BY <2>1, <2>2, DevInterval, IntervalInduction
  <2> QED
    BY <2>3, DevInterval DEF S
<1> DEFINE s == g[N]
<1>10. NextActive(d0) = IF s.at # NULL /\ dev[s.at].state # "unknown" THEN s.at ELSE s.found
  BY <1>8 DEF NextActive, first, N
<1> HIDE DEF s
<1> QED
  BY <1>9, <1>10 DEF V, s

\* The servers of the file, as they are made: nothing is known of them.
LEMMA InitialUnknown ==
  ASSUME NEW u \in Seq(Address), Len(u) <= N
  PROVE  /\ initial(u)[Len(u)] \in [Dev -> Device]
         /\ \A d \in Dev : /\ initial(u)[Len(u)][d].state = "unknown"
                           /\ initial(u)[Len(u)][d].attempts = MaxAttempts
                           /\ initial(u)[Len(u)][d].ip = NULL
<1> DEFINE n == Len(u)
           V == {m \in [Dev -> Device] : \A d \in Dev :
                   m[d].state = "unknown" /\ m[d].attempts = MaxAttempts /\ m[d].ip = NULL}
           v0 == [d \in Dev |->
                   [state |-> "unknown", attempts |-> MaxAttempts, buffer |-> FALSE,
                    id |-> 0, ip |-> NULL, order |-> 0, next |-> NULL, prev |-> NULL]]
           l(i) == [j \in 1..(i - 1) |-> j]
           Turn(i, m) == NewDevice(m, l(i), i, DevIdOf[u[i]], NULL)
           G == [i \in 1..n |-> [m \in V |-> Turn(i, m)]]
<1>1. n \in Nat /\ n <= N /\ \A i \in 1..n : i \in Dev /\ u[i] \in Address
  BY DevInterval
<1>2. v0 \in V
  BY SizeAssumption DEF Device, State
<1>3. ASSUME NEW i \in 1..n, NEW m \in V PROVE Turn(i, m) \in V
  <2>1. l(i) \in Seq(Dev)
    <3>1. i - 1 \in Nat /\ \A j \in 1..(i - 1) : j \in Dev
      BY <1>1, DevInterval
    <3>2. l(i) \in [1..(i - 1) -> Dev]
      BY <3>1
    <3> QED
      BY <3>1, <3>2, IsASeq
  <2>2. i \in Dev /\ DevIdOf[u[i]] \in Nat /\ NULL \in Address \cup {NULL} /\ m \in [Dev -> Device]
    BY <1>1, DevIdAssumption
  <2> DEFINE w == Turn(i, m)
  <2> HIDE DEF l
  <2>3. /\ w \in [Dev -> Device]
        /\ w[i].state = "unknown" /\ w[i].attempts = MaxAttempts /\ w[i].ip = NULL
        /\ \A e \in Dev \ {i} : w[e] \in {m[e], [m[e] EXCEPT !.next = i]}
    BY <2>1, <2>2, NewDeviceMade
  <2> HIDE DEF w
  <2>4. ASSUME NEW e \in Dev
        PROVE  w[e].state = "unknown" /\ w[e].attempts = MaxAttempts /\ w[e].ip = NULL
    <3>1. CASE e = i
      BY <2>3, <3>1
    <3>2. CASE e # i
      <4>1. m[e] \in Device /\ m[e].state = "unknown" /\ m[e].attempts = MaxAttempts
            /\ m[e].ip = NULL
        OBVIOUS
      <4>2. w[e] = m[e] \/ w[e] = [m[e] EXCEPT !.next = i]
        BY <2>3, <3>2
      <4> QED
        BY <4>1, <4>2 DEF Device
    <3> QED
      BY <3>1, <3>2
  <2>5. w \in V
    BY <2>3, <2>4
  <2> QED
    BY <2>5 DEF w
<1> HIDE DEF V, v0, n, Turn
<1>4. G \in [1..n -> [V -> V]]
  BY <1>3
<1>5. PICK f \in [0..n -> V] : Steps(f, n, v0, G)
  BY <1>1, <1>2, <1>4, Recursion
<1>6. f = [i \in 0..n |-> IF i = 0 THEN v0 ELSE Turn(i, f[i - 1])]
  <2>1. \A i \in 1..n : i \in 0..n /\ i # 0 /\ i - 1 \in 0..n /\ f[i - 1] \in V
    BY <1>1
  <2>2. \A i \in 1..n : f[i] = Turn(i, f[i - 1])
    BY <1>5, <2>1 DEF Steps
  <2>3. \A i \in 0..n : i = 0 \/ i \in 1..n
    BY <1>1
  <2>4. \A i \in 0..n : f[i] = IF i = 0 THEN v0 ELSE Turn(i, f[i - 1])
    BY <1>5, <2>2, <2>3 DEF Steps
  <2> QED
    BY <2>4
<1> DEFINE g == CHOOSE g : g = [i \in 0..n |-> IF i = 0 THEN v0 ELSE Turn(i, g[i - 1])]
<1>7. g = [i \in 0..n |-> IF i = 0 THEN v0 ELSE Turn(i, g[i - 1])]
  BY <1>6
<1>8. initial(u) = g
  BY DEF initial, v0, Turn, n
<1> HIDE DEF g, G
<1>9. g[n] \in V
  <2> DEFINE S == {i \in 0..n : g[i] \in V}
  <2>1. 0 \in S
    BY <1>1, <1>2, <1>7
  <2>2. \A i \in 0..(n - 1) : i \in S => i + 1 \in S
    <3> SUFFICES ASSUME NEW i \in 0..(n - 1), i \in S
                 PROVE  i + 1 \in S
      OBVIOUS
    <3>1. i + 1 \in 1..n /\ i + 1 \in 0..n /\ i + 1 # 0 /\ (i + 1) - 1 = i
      BY <1>1
    <3> QED
      BY <1>3, <1>7, <3>1
  <2> HIDE DEF S
  <2>3. \A i \in 0..n : i \in S
    BY <1>1, <2>1, <2>2, IntervalInduction
  <2> QED
    BY <1>1, <2>3 DEF S
<1> QED
  BY <1>8, <1>9 DEF V, n

-----------------------------------------------------------------------------
(* The inductive invariant. *)

Typed ==
  /\ use \in Uses
  /\ dev \in [Dev -> Device]
  /\ ListOK(list)
  /\ conn \in [Conn -> Connection]
  /\ loop \in Dev \cup {NULL}
  /\ check \in [loop : Dev \cup {NULL}, waits : BOOLEAN]

\* A connection that is open has another end, and one of SCP_process has a
\* Device with an address; nothing is known of a Device without one.
Addressed ==
  /\ \A c \in Conn : conn[c].p = "scp" => conn[c].dev \in Dev /\ dev[conn[c].dev].ip # NULL
  /\ \A c \in Conn : conn[c].tcp # "closed" => conn[c].ip # NULL
  /\ \A d \in Dev :
       dev[d].ip = NULL => dev[d].state = "unknown" /\ dev[d].attempts = MaxAttempts

\* Only a host that has connected is removed from the list, while it has not
\* told who it is: a server or a Device that is probed stays.
ServersStay ==
  \A d \in Servers : d \in ToSet(list) /\ (dev[d].state = "unknown" => dev[d].ip = NULL)
ProbedStays ==
  /\ check.loop # NULL => check.loop \in ToSet(list) /\ dev[check.loop].state # "unknown"
  /\ check.waits => check.loop # NULL

\* A Device in the list that has a connection has its Buffer as well.
Fresh(r) ==
  /\ r.state = "unknown" => r.attempts = MaxAttempts
  /\ r.state \in {"unknown", "connected", "timeout"} /\ r.ip # NULL => r.buffer
ListedFresh == \A d \in ToSet(list) : Fresh(dev[d])

\* Memory that is not in the list is not connected to, unless it was told an
\* event after that.
UnlistedIdle ==
  /\ deleted \cap ToSet(list) = {}
  /\ \A d \in Dev \ (ToSet(list) \cup deleted) :
       dev[d].state = "unknown" /\ dev[d].attempts = MaxAttempts

\* What SCP_process connects to is known; and two connections of one Device
\* have been noted.
SynKnown ==
  \A c \in Conn : conn[c].tcp = "syn_sent" /\ conn[c].p = "scp" =>
     \/ conn[c].dev \in twice \cup deleted
     \/ conn[c].dev \in ToSet(list) /\ dev[conn[c].dev].state # "unknown"
SharedTwice ==
  \A d \in Dev : \A c, e \in Telling(conn, d) : c # e => d \in twice

IInv ==
  /\ Typed /\ (twice \subseteq Dev /\ dropped \subseteq Dev /\ deleted \subseteq Dev)
  /\ Addressed /\ ServersStay /\ ProbedStays /\ ListedFresh /\ UnlistedIdle
  /\ SynKnown /\ SharedTwice
  /\ ConnectionBehindState /\ BufferWhenHandled

LEMMA TypedFacts ==
  ASSUME Typed
  PROVE  /\ use \in Uses /\ Conn \subseteq Nat /\ list \in Seq(Dev)
         /\ dev \in [Dev -> Device] /\ conn \in [Conn -> Connection]
         /\ check.loop \in Dev \cup {NULL} /\ check.waits \in BOOLEAN
         /\ \A d \in Dev : dev[d] \in Device
         /\ \A c \in Conn : conn[c] \in Connection
         /\ ToSet(list) \subseteq Dev
         /\ Servers \subseteq Dev
BY UseTypes, ListFacts DEF Typed, ListOK, Conn, Servers

-----------------------------------------------------------------------------
(* What a step does, of which the invariant follows. *)

Active == {"connecting", "connected", "timeout"}
Live == {"syn_sent", "established", "last_ack", "fin_wait"}

\* A Device in the list stays there and known, or is deleted as it is unknown.
Kept(d) ==
  \/ /\ d \in ToSet(list')
     /\ dev'[d].state = "unknown" => dev[d].state = "unknown" /\ dev'[d].ip = dev[d].ip
  \/ /\ dev[d].state = "unknown" /\ dev[d].ip # NULL
     /\ dev'[d].state = "unknown" /\ dev'[d].attempts = dev[d].attempts

\* What another loop is at is not lost.
LoopKept ==
  /\ check'.loop # NULL =>
       \/ check'.loop = check.loop
       \/ check'.loop \in ToSet(list) /\ dev[check'.loop].state # "unknown"
  /\ check'.waits => check'.loop # NULL

\* A SYN is one that was sent before, or is sent to a Device that is known.
SynMade(c) ==
  LET d == conn'[c].dev IN
  conn'[c].tcp = "syn_sent" /\ conn'[c].p = "scp" =>
    \/ conn'[c] = conn[c]
    \/ d \in ToSet(list') /\ dev'[d].state # "unknown"
    \/ d \in Dev \ (ToSet(list) \cup ToSet(list')) /\ dev'[d] # dev[d]

\* A Device that is taken to be connected was before, and none of its
\* connections has ended but one that is dropped; or it has one now.
StateKept(d) ==
  dev'[d].state \in Active =>
    \/ /\ d \in ToSet(list) /\ dev[d].state \in Active
       /\ \A c \in Telling(conn, d) : conn[c].tcp \in Live =>
            \/ c \in Telling(conn', d) /\ conn'[c].tcp \in Live
            \/ conn[c].tcp = "fin_wait" /\ conn'[c].tcp = "closed"
    \/ \E c \in Telling(conn', d) : conn'[c].tcp \in Live

\* A connection that is handled was before, and its Device has not lost its
\* Buffer by another one; or its SYN is answered; or the Device is new.
HasBuffer(d) == d \in ToSet(list') /\ dev'[d].buffer
BufferKept(c) ==
  LET d == conn'[c].dev IN
  conn'[c].tcp = "established" /\ conn'[c].p = "scp" =>
    \/ HasBuffer(d)
    \/ /\ conn'[c] = conn[c]
       /\ d \in ToSet(list) /\ dev[d].buffer => d \in twice
    \/ /\ conn[c].tcp = "syn_sent" /\ conn[c].p = "scp" /\ conn[c].dev = d
       /\ d \in ToSet(list) /\ dev[d].state # "unknown" => HasBuffer(d)

\* What is new in the list has a connection.
NewHandled(d) ==
  /\ HasBuffer(d)
  /\ \E c \in Telling(conn', d) : conn'[c].tcp = "established"

StepSound ==
  /\ Typed' /\ use' = use /\ Addressed' /\ ListedFresh'
  /\ \A d \in ToSet(list) : Kept(d)
  /\ LoopKept
  /\ \A c \in Conn : SynMade(c) /\ BufferKept(c)
  /\ \A d \in ToSet(list') : StateKept(d)
  /\ \A d \in ToSet(list') \ ToSet(list) : NewHandled(d)

LEMMA StepKeeps ==
  ASSUME IInv, StepSound, Note
  PROVE  IInv'
<1>1. /\ Typed /\ Typed' /\ use' = use /\ Conn' = Conn /\ Servers' = Servers
      /\ ToSet(list) \subseteq Dev /\ Servers \subseteq Dev
      /\ \A c \in Conn : conn'[c].p = "scp" => conn'[c].dev \in Dev
  BY TypedFacts DEF IInv, StepSound, Conn, Servers, Addressed
<1>2. ToSet(list') \subseteq Dev
  BY <1>1, ListFacts DEF Typed, ListOK
<1>3. twice' \subseteq Dev /\ dropped' \subseteq Dev /\ deleted' \subseteq Dev
  BY DEF Note
<1>4. Addressed' /\ ListedFresh'
  BY DEF StepSound
<1>5. ServersStay'
  <2> SUFFICES ASSUME NEW d \in Servers
               PROVE  d \in ToSet(list') /\ (dev'[d].state = "unknown" => dev'[d].ip = NULL)
    BY <1>1 DEF ServersStay
  <2>1. d \in ToSet(list) /\ (dev[d].state = "unknown" => dev[d].ip = NULL)
    BY DEF IInv, ServersStay
  <2>2. Kept(d)
    BY <2>1 DEF StepSound
  <2> QED
    BY <2>1, <2>2 DEF Kept
<1>6. ASSUME NEW d \in ToSet(list), dev[d].state # "unknown"
      PROVE  d \in ToSet(list') /\ dev'[d].state # "unknown"
  BY <1>6 DEF StepSound, Kept
<1>7. ProbedStays'
  BY <1>6 DEF ProbedStays, IInv, StepSound, LoopKept
<1>8. ASSUME NEW c \in Conn, conn'[c].tcp # "closed", conn'[c].p = "scp",
             conn'[c].dev \in twice
      PROVE  conn'[c].dev \in twice'
  BY <1>1, <1>8 DEF Note, Telling
<1>9. \A d \in deleted : d \in Dev \ ToSet(list) /\ (d \in deleted' \/ d \in ToSet(list'))
  BY DEF IInv, UnlistedIdle, Note
<1>10. UnlistedIdle'
  <2>1. deleted' \cap ToSet(list') = {}
    BY DEF Note
  <2>2. ASSUME NEW d \in Dev \ (ToSet(list') \cup deleted')
        PROVE  dev'[d].state = "unknown" /\ dev'[d].attempts = MaxAttempts
    <3>1. CASE d \in ToSet(list)
      <4>1. Kept(d) /\ Fresh(dev[d])
        BY <3>1 DEF StepSound, IInv, ListedFresh
      <4> QED
        BY <2>2, <4>1 DEF Kept, Fresh
    <3>2. CASE d \notin ToSet(list)
      <4>1. d \notin deleted /\ dev'[d] = dev[d]
        BY <2>2, <3>2 DEF Note
      <4> QED
        BY <2>2, <3>2, <4>1 DEF IInv, UnlistedIdle
    <3> QED
      BY <3>1, <3>2
  <2> QED
    BY <2>1, <2>2 DEF UnlistedIdle
<1>11. SharedTwice'
  <2> SUFFICES ASSUME NEW d \in Dev, NEW c \in Telling(conn', d), NEW e \in Telling(conn', d), c # e
               PROVE  d \in twice'
    BY <1>1 DEF SharedTwice, Telling
  <2> QED
    BY DEF Note, Shared
<1>12. SynKnown'
  <2> SUFFICES ASSUME NEW c \in Conn, conn'[c].tcp = "syn_sent", conn'[c].p = "scp"
               PROVE  \/ conn'[c].dev \in twice' \cup deleted'
                      \/ conn'[c].dev \in ToSet(list') /\ dev'[conn'[c].dev].state # "unknown"
    BY <1>1 DEF SynKnown
  <2> DEFINE d == conn'[c].dev
  <2>1. d \in Dev /\ c \in Telling(conn', d) /\ SynMade(c)
    BY <1>1 DEF Telling, StepSound
  <2>2. CASE conn'[c] = conn[c]
    <3>1. \/ d \in twice \/ d \in deleted
          \/ d \in ToSet(list) /\ dev[d].state # "unknown"
      BY <2>2 DEF IInv, SynKnown
    <3>2. CASE d \in twice
      BY <1>8, <3>2
    <3>3. CASE d \in deleted
      <4>1. CASE d \in ToSet(list')
        <5>1. NewHandled(d)
          BY <1>9, <3>3, <4>1 DEF StepSound
        <5>2. PICK e \in Telling(conn', d) : conn'[e].tcp = "established"
          BY <5>1 DEF NewHandled
        <5> QED
          BY <2>1, <5>2 DEF Note, Shared
      <4> QED
        BY <1>9, <3>3, <4>1
    <3>4. CASE d \in ToSet(list) /\ dev[d].state # "unknown"
      BY <1>6, <3>4
    <3> QED
      BY <3>1, <3>2, <3>3, <3>4
  <2>3. CASE d \in Dev \ (ToSet(list) \cup ToSet(list')) /\ dev'[d] # dev[d]
    BY <2>3 DEF Note
  <2> QED
    BY <2>1, <2>2, <2>3 DEF SynMade
<1>13. ConnectionBehindState'
  <2> SUFFICES ASSUME NEW d \in ToSet(list'), dev'[d].state \in Active
               PROVE  d \in dropped' \/ \E c \in Telling(conn', d) : conn'[c].tcp \in Live
    BY <1>1 DEF ConnectionBehindState, Active, Live, Telling
  <2>1. StateKept(d) /\ d \in Dev
    BY <1>2 DEF StepSound
  <2>2. CASE /\ d \in ToSet(list) /\ dev[d].state \in Active
             /\ \A c \in Telling(conn, d) : conn[c].tcp \in Live =>
                  \/ c \in Telling(conn', d) /\ conn'[c].tcp \in Live
                  \/ conn[c].tcp = "fin_wait" /\ conn'[c].tcp = "closed"
    <3>1. CASE d \in dropped
      BY <2>1, <3>1 DEF Note, Active
    <3>2. CASE d \notin dropped
      <4>1. PICK c \in Telling(conn, d) : conn[c].tcp \in Live
        BY <2>2, <3>2 DEF IInv, ConnectionBehindState, Active, Live
      <4>2. CASE conn[c].tcp = "fin_wait" /\ conn'[c].tcp = "closed"
        BY <2>1, <4>2 DEF Note, Active
      <4> QED
        BY <2>2, <4>1, <4>2
    <3> QED
      BY <3>1, <3>2
  <2> QED
    BY <2>1, <2>2 DEF StateKept
<1>14. BufferWhenHandled'
  <2> SUFFICES ASSUME NEW c \in Conn, conn'[c].tcp = "established", conn'[c].p = "scp"
               PROVE  \/ conn'[c].dev \in twice' \cup deleted'
                      \/ HasBuffer(conn'[c].dev)
    BY <1>1 DEF BufferWhenHandled, HasBuffer
  <2> DEFINE d == conn'[c].dev
  <2>1. d \in Dev /\ BufferKept(c)
    BY <1>1 DEF StepSound
  <2>2. CASE d \in twice
    BY <1>8, <2>2
  <2>3. CASE d \in deleted
    <3>1. CASE d \in ToSet(list')
      BY <1>9, <2>3, <3>1 DEF StepSound, NewHandled
    <3> QED
      BY <1>9, <2>3, <3>1
  <2>4. CASE d \notin twice /\ d \notin deleted
    <3>1. CASE conn'[c] = conn[c] /\ (d \in ToSet(list) /\ dev[d].buffer => d \in twice)
      BY <2>4, <3>1 DEF IInv, BufferWhenHandled
    <3>2. CASE /\ conn[c].tcp = "syn_sent" /\ conn[c].p = "scp" /\ conn[c].dev = d
               /\ d \in ToSet(list) /\ dev[d].state # "unknown" => HasBuffer(d)
      BY <2>4, <3>2 DEF IInv, SynKnown
    <3> QED
      BY <2>1, <3>1, <3>2 DEF BufferKept
  <2> QED
    BY <2>2, <2>3, <2>4
<1> QED
  BY <1>1, <1>3, <1>4, <1>5, <1>7, <1>10, <1>11, <1>12, <1>13, <1>14 DEF IInv

-----------------------------------------------------------------------------
(* Most steps move single Devices and connections. *)

\* A Device is as it was, or takes part in the step and is known then, or is
\* deleted.  It loses its Buffer only when a connection of it is not handled
\* any more.
DevMoves(d) ==
  \/ dev'[d] = dev[d] /\ (d \in ToSet(list) => d \in ToSet(list'))
  \/ /\ dev'[d].ip # NULL
     /\ d \in ToSet(list) =>
          \/ d \in ToSet(list') /\ dev'[d].state # "unknown" /\ Fresh(dev'[d])
          \/ /\ d \notin ToSet(list')
             /\ dev[d].state = "unknown" /\ dev[d].ip # NULL
             /\ dev'[d].state = "unknown" /\ dev'[d].attempts = dev[d].attempts
     /\ d \in ToSet(list') /\ dev'[d].state \in Active =>
          dev[d].state \in Active \/ \E c \in Telling(conn', d) : conn'[c].tcp \in Live
     /\ d \in ToSet(list) /\ dev[d].buffer =>
          \/ HasBuffer(d)
          \/ \E c \in Telling(conn, d) : conn'[c].tcp # "established"

\* A connection is as it was, or is in another state of TCP,
Advances(c) ==
  /\ conn[c].tcp # "closed" /\ conn'[c].tcp # "syn_sent"
  /\ conn'[c].p = "scp" => conn[c].p = "scp" /\ conn'[c].dev = conn[c].dev
  /\ conn'[c].tcp # "closed" =>
       conn'[c].ip = conn[c].ip /\ conn'[c].p = conn[c].p /\ conn'[c].dev = conn[c].dev
  /\ conn[c].tcp \in Live /\ conn[c].p = "scp" =>
       \/ conn'[c].tcp \in Live
       \/ conn[c].tcp = "fin_wait" /\ conn'[c].tcp = "closed"
       \/ dev'[conn[c].dev].state \notin Active
  /\ conn'[c].tcp = "established" /\ conn[c].p = "scp" =>
       /\ conn[c].tcp = "syn_sent"
       /\ conn[c].dev \in ToSet(list) /\ dev[conn[c].dev].state # "unknown" =>
            HasBuffer(conn[c].dev)

\* or is opened,
Opens(c) ==
  /\ conn[c].tcp \in {"closed", "time_wait"}
  /\ conn'[c].tcp \in {"syn_sent", "syn_rcvd"} /\ conn'[c].ip # NULL
  /\ conn'[c].p = "scp" =>
       \/ conn[c].p = "scp" /\ conn'[c].dev = conn[c].dev
       \/ conn'[c].dev \in Dev /\ dev'[conn'[c].dev].ip # NULL
  /\ SynMade(c)

\* or is given to a Device that is known.
Given(c) ==
  /\ conn[c].tcp = "syn_rcvd" /\ conn'[c].tcp = "established" /\ conn'[c].ip = conn[c].ip
  /\ conn'[c].dev \in Dev /\ dev'[conn'[c].dev].ip # NULL /\ HasBuffer(conn'[c].dev)

ConnMoves(c) == conn'[c] = conn[c] \/ Advances(c) \/ Opens(c) \/ Given(c)

LEMMA MovesSound ==
  ASSUME IInv, use' = use, Typed', LoopKept,
         ToSet(list') \subseteq ToSet(list),
         \A d \in Dev : DevMoves(d),
         \A c \in Conn : ConnMoves(c)
  PROVE  StepSound
<1>1. /\ Typed /\ Conn' = Conn /\ list \in Seq(Dev) /\ ToSet(list) \subseteq Dev
      /\ Addressed /\ ListedFresh /\ SharedTwice
  BY TypedFacts DEF IInv, Conn
<1>2. \A d \in Dev : dev[d].ip # NULL => dev'[d].ip # NULL
  BY DEF DevMoves
<1>3. Addressed'
  <2>1. \A c \in Conn : conn'[c].p = "scp" => conn'[c].dev \in Dev /\ dev'[conn'[c].dev].ip # NULL
    BY <1>1, <1>2 DEF ConnMoves, Advances, Opens, Given, Addressed
  <2>2. \A c \in Conn : conn'[c].tcp # "closed" => conn'[c].ip # NULL
    BY <1>1 DEF ConnMoves, Advances, Opens, Given, Addressed
  <2>3. \A d \in Dev :
          dev'[d].ip = NULL => dev'[d].state = "unknown" /\ dev'[d].attempts = MaxAttempts
    BY <1>1 DEF DevMoves, Addressed
  <2> QED
    BY <1>1, <2>1, <2>2, <2>3 DEF Addressed
<1>4. ListedFresh'
  BY <1>1 DEF ListedFresh, DevMoves
<1>5. \A d \in ToSet(list) : Kept(d)
  BY <1>1 DEF DevMoves, Kept
<1>6. \A c \in Conn : SynMade(c)
  BY DEF ConnMoves, Advances, Opens, Given, SynMade
<1>7. ASSUME NEW c \in Conn PROVE BufferKept(c)
  <2> DEFINE d == conn'[c].dev
  <2> SUFFICES ASSUME conn'[c].tcp = "established", conn'[c].p = "scp"
               PROVE  \/ HasBuffer(d)
                      \/ /\ conn'[c] = conn[c]
                         /\ d \in ToSet(list) /\ dev[d].buffer => d \in twice
                      \/ /\ conn[c].tcp = "syn_sent" /\ conn[c].p = "scp" /\ conn[c].dev = d
                         /\ d \in ToSet(list) /\ dev[d].state # "unknown" => HasBuffer(d)
    BY DEF BufferKept
  <2>1. CASE conn'[c] = conn[c]
    <3> SUFFICES ASSUME d \in ToSet(list), dev[d].buffer, ~HasBuffer(d) PROVE d \in twice
      BY <2>1
    <3>1. d \in Dev /\ DevMoves(d) /\ c \in Telling(conn, d)
      BY <1>1, <2>1 DEF Telling
    <3>2. PICK e \in Telling(conn, d) : conn'[e].tcp # "established"
      BY <3>1 DEF DevMoves, HasBuffer
    <3> QED
      BY <1>1, <3>1, <3>2 DEF SharedTwice
  <2>2. CASE Advances(c)
    BY <2>2 DEF Advances
  <2>3. CASE Opens(c)
    BY <2>3 DEF Opens
  <2>4. CASE Given(c)
    BY <2>4 DEF Given
  <2> QED
    BY <2>1, <2>2, <2>3, <2>4 DEF ConnMoves
<1>8. ASSUME NEW d \in ToSet(list') PROVE StateKept(d)
  <2> SUFFICES ASSUME dev'[d].state \in Active,
                      ~(\E c \in Telling(conn', d) : conn'[c].tcp \in Live)
               PROVE  /\ d \in ToSet(list) /\ dev[d].state \in Active
                      /\ \A c \in Telling(conn, d) : conn[c].tcp \in Live =>
                           \/ c \in Telling(conn', d) /\ conn'[c].tcp \in Live
                           \/ conn[c].tcp = "fin_wait" /\ conn'[c].tcp = "closed"
    BY DEF StateKept
  <2>1. d \in ToSet(list) /\ d \in Dev /\ DevMoves(d)
    BY <1>1
  <2>2. dev[d].state \in Active
    BY <2>1 DEF DevMoves
  <2>3. ASSUME NEW c \in Telling(conn, d), conn[c].tcp \in Live
        PROVE  \/ c \in Telling(conn', d) /\ conn'[c].tcp \in Live
               \/ conn[c].tcp = "fin_wait" /\ conn'[c].tcp = "closed"
    <3>1. c \in Conn /\ conn[c].p = "scp" /\ conn[c].dev = d /\ conn[c].tcp # "closed"
      BY DEF Telling
    <3>2. CASE conn'[c] = conn[c]
      BY <2>3, <3>1, <3>2 DEF Telling
    <3>3. CASE Advances(c)
      BY <2>3, <3>1, <3>3 DEF Advances, Telling, Live
    <3>4. CASE Opens(c) \/ Given(c)
      BY <2>3, <3>1, <3>4 DEF Opens, Given, Live
    <3> QED
      BY <3>1, <3>2, <3>3, <3>4 DEF ConnMoves
  <2> QED
    BY <2>1, <2>2, <2>3
<1> QED
  BY <1>3, <1>4, <1>5, <1>6, <1>7, <1>8 DEF StepSound

-----------------------------------------------------------------------------
(* The connections. *)

LEMMA BecomeMoves ==
  ASSUME Typed, NEW c \in Conn, NEW tcp \in Tcp, Become(c, tcp)
  PROVE  /\ conn' \in [Conn -> Connection]
         /\ \A e \in Conn \ {c} : conn'[e] = conn[e]
         /\ conn'[c].tcp = tcp
         /\ conn'[c].p = "scp" => conn[c].p = "scp" /\ conn'[c].dev = conn[c].dev
         /\ tcp # "closed" => /\ conn'[c].ip = conn[c].ip
                              /\ conn'[c].p = conn[c].p /\ conn'[c].dev = conn[c].dev
<1>1. conn \in [Conn -> Connection] /\ conn[c] \in Connection /\ "closed" \in Tcp
  BY TypedFacts DEF Tcp
<1>2. NULL \notin {"scp", "check"}
  BY DevInterval
<1>3. CASE tcp # "closed"
  <2>1. conn' = [conn EXCEPT ![c] = [@ EXCEPT !.tcp = tcp]]
    BY <1>3 DEF Become
  <2> QED
    BY <1>1, <1>3, <2>1 DEF Connection
<1>4. CASE tcp = "closed" /\ use.inbound = {}
  <2>1. conn' = [conn EXCEPT ![c] = Unused]
    BY <1>4 DEF Become
  <2>2. Unused \in Connection
    BY <1>1 DEF Unused, Connection
  <2> QED
    BY <1>1, <1>2, <1>4, <2>1, <2>2 DEF Unused
<1>5. CASE tcp = "closed" /\ use.inbound # {}
  <2>1. conn' = [conn EXCEPT ![c] = [@ EXCEPT !.tcp = tcp, !.ip = NULL]]
    BY <1>5 DEF Become
  <2> QED
    BY <1>1, <1>5, <2>1 DEF Connection
<1> QED
  BY <1>3, <1>4, <1>5

\* A connection that is taken is closed, or in TIME_WAIT.
LEMMA FreeConnIs ==
  ASSUME Typed, NEW c \in FreeConn
  PROVE  c \in Conn /\ conn[c].tcp \in {"closed", "time_wait"}
<1> DEFINE closed == {k \in Conn : conn[k].tcp = "closed"}
           k0 == CHOOSE k \in closed : \A e \in closed : k <= e
<1>1. closed \in SUBSET Nat
  BY TypedFacts
<1>2. CASE closed # {}
  <2>1. \E k \in closed : \A e \in closed : k <= e
    BY <1>1, <1>2, NatMin
  <2>2. k0 \in closed
    BY <2>1
  <2>3. c = k0
    BY <1>2 DEF FreeConn
  <2> HIDE DEF k0
  <2> QED
    BY <2>2, <2>3
<1>3. CASE closed = {}
  BY <1>3 DEF FreeConn
<1> QED
  BY <1>2, <1>3

-----------------------------------------------------------------------------
(* The end of a connection is told. *)

LEMMA EndedDevice ==
  ASSUME NEW r \in Device, NEW end \in {"closed", "aborted", "timedout"}
  PROVE  /\ Ended(end, r) \in Device
         /\ Ended(end, r).ip = r.ip /\ Ended(end, r).state \notin Active
         /\ end # "closed" => Ended(end, r).state # "unknown"
         /\ end = "closed" => /\ Ended(end, r).attempts = r.attempts
                              /\ Ended(end, r).state = "unknown" <=> r.state = "unknown"
<1>1. /\ r.attempts \in 0..MaxAttempts /\ r.state \in State /\ r.buffer \in BOOLEAN
      /\ MaxAttempts \in Nat
  BY SizeAssumption DEF Device
<1>2. CASE end = "closed"
  <2>1. Ended(end, r) = Closed(r)
    BY <1>2 DEF Ended
  <2>2. CASE r.state = "disconnected"
    BY <1>2, <2>1, <2>2 DEF Closed, Active
  <2>3. CASE r.state # "disconnected"
    <3>1. Closed(r) = [r EXCEPT !.buffer = FALSE,
                          !.state = IF r.state = "unknown" THEN r.state ELSE "disconnected"]
      BY <2>3 DEF Closed
    <3>2. Closed(r) \in Device
      BY <1>1, <3>1 DEF Device, State
    <3>3. /\ Closed(r).state = IF r.state = "unknown" THEN r.state ELSE "disconnected"
          /\ Closed(r).ip = r.ip /\ Closed(r).attempts = r.attempts
      BY <3>1 DEF Device
    <3> QED
      BY <1>2, <2>1, <3>2, <3>3 DEF Active
  <2> QED
    BY <2>2, <2>3
<1>3. CASE end = "aborted"
  <2> DEFINE b == r.buffer /\ r.state \notin {"connected", "timeout"}
             s == IF r.attempts = 0 THEN "offline" ELSE "retry"
             n == IF r.attempts = 0 THEN 0 ELSE r.attempts - 1
  <2>1. Ended(end, r) = [r EXCEPT !.buffer = b, !.state = s, !.attempts = n]
    BY <1>3 DEF Ended, Aborted
  <2>2. b \in BOOLEAN /\ s \in State \ Active /\ s # "unknown" /\ n \in 0..MaxAttempts
    BY <1>1 DEF State, Active
  <2> HIDE DEF b, s, n
  <2>3. Ended(end, r) \in Device
    BY <2>1, <2>2 DEF Device
  <2>4. Ended(end, r).ip = r.ip /\ Ended(end, r).state = s
    BY <2>1 DEF Device
  <2> QED
    BY <1>3, <2>2, <2>3, <2>4
<1>4. CASE end = "timedout"
  <2> DEFINE b == r.buffer /\ r.state \notin {"connected", "timeout"}
  <2>1. Ended(end, r) = [r EXCEPT !.buffer = b, !.state = "offline", !.attempts = 0]
    BY <1>4 DEF Ended, TimedOut
  <2>2. b \in BOOLEAN /\ "offline" \in State \ Active /\ 0 \in 0..MaxAttempts
    BY <1>1 DEF State, Active
  <2> HIDE DEF b
  <2> QED
    BY <1>4, <2>1, <2>2 DEF Device
<1> QED
  BY <1>2, <1>3, <1>4

\* The device that SCP_check_process waits for is offline.
LEMMA TellCheckMoves ==
  ASSUME IInv, TellCheck
  PROVE  /\ dev' \in [Dev -> Device] /\ list' = list
         /\ check' \in [loop : Dev \cup {NULL}, waits : BOOLEAN] /\ LoopKept
         /\ \A d \in Dev : DevMoves(d)
         /\ \A d \in Dev : dev'[d].state \in Active => dev'[d] = dev[d]
<1>1. /\ Typed /\ dev \in [Dev -> Device] /\ ToSet(list) \subseteq Dev
      /\ check \in [loop : Dev \cup {NULL}, waits : BOOLEAN]
  BY TypedFacts DEF IInv, Typed
<1>2. list' = list /\ check' = [check EXCEPT !.waits = FALSE]
  BY DEF TellCheck
<1>3. check' \in [loop : Dev \cup {NULL}, waits : BOOLEAN] /\ LoopKept
  BY <1>1, <1>2 DEF LoopKept
<1>4. CASE ~check.waits
  <2>1. dev' = dev
    BY <1>4 DEF TellCheck
  <2> QED
    BY <1>1, <1>2, <1>3, <2>1 DEF DevMoves
<1>5. CASE check.waits
  <2> DEFINE d0 == check.loop
  <2>1. d0 \in ToSet(list) /\ d0 \in Dev /\ dev[d0].state # "unknown" /\ dev[d0] \in Device
    BY <1>1, <1>5 DEF IInv, ProbedStays
  <2>2. dev' = [dev EXCEPT ![d0] = [dev[d0] EXCEPT !.state = "offline"]]
    BY <1>5 DEF TellCheck
  <2>3. dev[d0].ip # NULL
    BY <2>1 DEF IInv, Addressed
  <2> DEFINE r == [dev[d0] EXCEPT !.state = "offline"]
  <2>4. /\ r \in Device /\ r.ip # NULL /\ r.state = "offline"
        /\ r.buffer = dev[d0].buffer
    BY <2>1, <2>3 DEF Device, State
  <2> HIDE DEF r, d0
  <2>5. dev' \in [Dev -> Device] /\ dev'[d0] = r /\ \A d \in Dev \ {d0} : dev'[d] = dev[d]
    BY <1>1, <2>1, <2>2, <2>4 DEF r
  <2>6. DevMoves(d0)
    BY <1>2, <2>1, <2>4, <2>5 DEF DevMoves, Fresh, HasBuffer, Active
  <2>7. \A d \in Dev \ {d0} : DevMoves(d)
    BY <1>2, <2>5 DEF DevMoves
  <2> QED
    BY <1>2, <1>3, <2>4, <2>5, <2>6, <2>7 DEF Active
<1> QED
  BY <1>1, <1>4, <1>5

LEMMA EndTold ==
  ASSUME IInv, UNCHANGED <<use, loop>>,
         NEW c \in Conn, conn[c].tcp # "closed",
         NEW tcp \in {"closed", "last_ack", "time_wait"}, Become(c, tcp),
         NEW end \in {"closed", "aborted", "timedout"}, TellEnd(c, end)
  PROVE  StepSound
<1>1. /\ Typed /\ dev \in [Dev -> Device] /\ ToSet(list) \subseteq Dev /\ ListOK(list)
      /\ check \in [loop : Dev \cup {NULL}, waits : BOOLEAN]
      /\ Conn' = Conn
      /\ conn[c].p = "scp" => conn[c].dev \in Dev /\ dev[conn[c].dev].ip # NULL
  BY TypedFacts DEF IInv, Typed, Conn, Addressed
<1>2. /\ conn' \in [Conn -> Connection] /\ tcp \in Tcp
      /\ \A e \in Conn \ {c} : conn'[e] = conn[e]
      /\ conn'[c].tcp = tcp
      /\ conn'[c].p = "scp" => conn[c].p = "scp" /\ conn'[c].dev = conn[c].dev
      /\ tcp # "closed" => /\ conn'[c].ip = conn[c].ip
                           /\ conn'[c].p = conn[c].p /\ conn'[c].dev = conn[c].dev
  <2>1. tcp \in Tcp
    BY DEF Tcp
  <2> QED
    BY <1>1, <2>1, BecomeMoves
<1>3. CASE conn[c].p = "scp" /\ TellScp(c, end)
  <2> DEFINE d0 == conn[c].dev
             r == Ended(end, dev[d0])
  <2>1. d0 \in Dev /\ dev[d0] \in Device /\ dev[d0].ip # NULL
    BY <1>1, <1>3
  <2>2. dev' = [dev EXCEPT ![d0] = r] /\ check' = check
    BY <1>3 DEF TellScp
  <2>3. list' = IF end = "closed" /\ dev[d0].state = "unknown" THEN Without(d0) ELSE list
    BY <1>3 DEF TellScp
  <2>4. /\ r \in Device /\ r.ip # NULL /\ r.state \notin Active
        /\ end # "closed" => r.state # "unknown"
        /\ end = "closed" => /\ r.attempts = dev[d0].attempts
                             /\ r.state = "unknown" <=> dev[d0].state = "unknown"
    BY <2>1, EndedDevice
  <2> HIDE DEF r, d0
  <2>5. dev' \in [Dev -> Device] /\ dev'[d0] = r /\ \A d \in Dev \ {d0} : dev'[d] = dev[d]
    BY <1>1, <2>1, <2>2, <2>4
  <2>6. /\ ListOK(list') /\ ToSet(list) \ {d0} \subseteq ToSet(list')
        /\ ToSet(list') \subseteq ToSet(list)
        /\ IF end = "closed" /\ dev[d0].state = "unknown"
             THEN d0 \notin ToSet(list') ELSE list' = list
    BY <1>1, <2>3, WithoutList
  <2>7. c \in Telling(conn, d0) /\ conn'[c].tcp # "established"
    BY <1>2, <1>3 DEF Telling, d0
  <2>8. DevMoves(d0)
    <3>1. d0 \in ToSet(list) =>
          \/ d0 \in ToSet(list') /\ r.state # "unknown" /\ Fresh(r)
          \/ /\ d0 \notin ToSet(list')
             /\ dev[d0].state = "unknown" /\ dev[d0].ip # NULL
             /\ r.state = "unknown" /\ r.attempts = dev[d0].attempts
      BY <2>1, <2>4, <2>6 DEF Fresh, Active
    <3> QED
      BY <2>4, <2>5, <2>7, <3>1 DEF DevMoves
  <2>9. \A d \in Dev \ {d0} : DevMoves(d)
    BY <2>5, <2>6 DEF DevMoves
  <2>10. ConnMoves(c)
    BY <1>2, <2>4, <2>5 DEF ConnMoves, Advances, d0
  <2>11. \A e \in Conn : ConnMoves(e)
    BY <1>2, <2>10 DEF ConnMoves
  <2>12. LoopKept
    BY <2>2 DEF LoopKept, IInv, ProbedStays
  <2>13. Typed'
    BY <1>1, <1>2, <2>2, <2>5, <2>6 DEF Typed
  <2> QED
    BY <2>6, <2>8, <2>9, <2>11, <2>12, <2>13, MovesSound
<1>4. CASE conn[c].p # "scp"
  <2>1. /\ dev' \in [Dev -> Device] /\ list' = list
        /\ check' \in [loop : Dev \cup {NULL}, waits : BOOLEAN] /\ LoopKept
        /\ \A d \in Dev : DevMoves(d)
    <3>1. CASE TellCheck
      BY <3>1, TellCheckMoves
    <3>2. CASE UNCHANGED <<dev, list, check>>
      BY <1>1, <3>2 DEF DevMoves, LoopKept, IInv, ProbedStays
    <3> QED
      BY <1>4, <3>1, <3>2 DEF TellEnd
  <2>2. ConnMoves(c)
    BY <1>2, <1>4 DEF ConnMoves, Advances
  <2>3. \A e \in Conn : ConnMoves(e)
    BY <1>2, <2>2 DEF ConnMoves
  <2>4. Typed'
    BY <1>1, <1>2, <2>1 DEF Typed
  <2> QED
    BY <2>1, <2>3, <2>4, MovesSound
<1> QED
  BY <1>3, <1>4, DevInterval DEF TellEnd

-----------------------------------------------------------------------------
(* The other steps of the connections. *)

\* A step that leaves the list and the loops as they are.
LEMMA OthersSound ==
  ASSUME IInv, UNCHANGED <<use, list, loop, check>>,
         dev' \in [Dev -> Device], conn' \in [Conn -> Connection],
         \A d \in Dev : dev'[d] = dev[d] \/ DevMoves(d),
         \A c \in Conn : ConnMoves(c)
  PROVE  StepSound
<1>1. Typed'
  BY DEF IInv, Typed, Conn
<1>2. LoopKept
  BY DEF LoopKept, IInv, ProbedStays
<1>3. \A d \in Dev : DevMoves(d)
  BY DEF DevMoves
<1> QED
  BY <1>1, <1>2, <1>3, MovesSound

\* One that sets one Device, which is known then.
LEMMA OneDeviceMoves ==
  ASSUME IInv, list' = list, NEW d0 \in Dev, NEW r \in Device,
         dev' = [dev EXCEPT ![d0] = r],
         r.ip # NULL, r.state # "unknown", d0 \in ToSet(list) => Fresh(r),
         r.state \in Active =>
           dev[d0].state \in Active \/ \E c \in Telling(conn', d0) : conn'[c].tcp \in Live,
         d0 \in ToSet(list) /\ dev[d0].buffer => r.buffer
  PROVE  /\ dev' \in [Dev -> Device]
         /\ dev'[d0] = r /\ \A d \in Dev \ {d0} : dev'[d] = dev[d]
         /\ \A d \in Dev : DevMoves(d)
<1>1. dev \in [Dev -> Device]
  BY DEF IInv, Typed
<1>2. dev' \in [Dev -> Device] /\ dev'[d0] = r /\ \A d \in Dev \ {d0} : dev'[d] = dev[d]
  BY <1>1
<1>3. DevMoves(d0)
  BY <1>2 DEF DevMoves, HasBuffer
<1>4. \A d \in Dev \ {d0} : DevMoves(d)
  BY <1>2 DEF DevMoves
<1> QED
  BY <1>2, <1>3, <1>4

LEMMA ResolvedSound ==
  ASSUME IInv, NEW d \in Dev, Resolved(d)
  PROVE  StepSound
<1> DEFINE r == [dev[d] EXCEPT !.ip = use.servers[d], !.state = "disconnected"]
<1>1. Typed /\ use \in Uses /\ dev \in [Dev -> Device] /\ d \in 1..Len(use.servers)
      /\ dev[d] \in Device
  BY DevInterval, TypedFacts DEF IInv, Resolved
<1>2. use.servers[d] \in Address /\ use.servers[d] # NULL
  BY <1>1, UseTypes, DevInterval
<1>3. /\ r \in Device /\ r.ip # NULL /\ r.state = "disconnected"
      /\ r.buffer = dev[d].buffer
  BY <1>1, <1>2 DEF Device, State
<1>4. dev' = [dev EXCEPT ![d] = r] /\ UNCHANGED <<use, list, conn, loop, check>>
  BY <1>1 DEF Resolved
<1> HIDE DEF r
<1>5. dev' \in [Dev -> Device] /\ \A e \in Dev : DevMoves(e)
  BY <1>3, <1>4, OneDeviceMoves DEF Fresh, Active
<1>6. conn' \in [Conn -> Connection] /\ \A c \in Conn : ConnMoves(c)
  BY <1>1, <1>4, TypedFacts DEF ConnMoves
<1> QED
  BY <1>4, <1>5, <1>6, OthersSound

LEMMA TimedOutDevices ==
  ASSUME NEW m \in [Dev -> Device], NEW D
  PROVE  LET w == TimedOutPackets(m, D)
         IN  /\ w \in [Dev -> Device]
             /\ \A d \in Dev : \/ w[d] = m[d]
                               \/ /\ m[d].state = "connected" /\ w[d].state = "timeout"
                                  /\ w[d].ip = m[d].ip /\ w[d].buffer = m[d].buffer
<1> DEFINE w == TimedOutPackets(m, D)
           to(d) == [m[d] EXCEPT !.state = "timeout"]
<1>1. \A d \in Dev : /\ to(d) \in Device /\ to(d).state = "timeout"
                     /\ to(d).ip = m[d].ip /\ to(d).buffer = m[d].buffer
  BY DEF Device, State
<1>2. w = [d \in Dev |-> IF d \in D /\ m[d].state = "connected" THEN to(d) ELSE m[d]]
  BY DEF TimedOutPackets
<1> HIDE DEF to
<1> QED
  BY <1>1, <1>2 DEF w

LEMMA PacketEvictedSound ==
  ASSUME IInv, NEW d \in Dev, PacketEvicted(d)
  PROVE  StepSound
<1>1. dev \in [Dev -> Device] /\ Typed
  BY TypedFacts DEF IInv
<1>2. dev' = TimedOutPackets(dev, {d}) /\ UNCHANGED <<use, list, conn, loop, check>>
  BY DEF PacketEvicted
<1>3. /\ dev' \in [Dev -> Device]
      /\ \A e \in Dev : \/ dev'[e] = dev[e]
                        \/ /\ dev[e].state = "connected" /\ dev'[e].state = "timeout"
                           /\ dev'[e].ip = dev[e].ip /\ dev'[e].buffer = dev[e].buffer
  BY <1>1, <1>2, TimedOutDevices
<1>4. \A e \in Dev : dev[e].state = "connected" => dev[e].ip # NULL
  BY DEF IInv, Addressed
<1>5. ASSUME NEW e \in Dev PROVE DevMoves(e)
  BY <1>2, <1>3, <1>4 DEF DevMoves, Fresh, HasBuffer, Active, IInv, ListedFresh
<1>6. conn' \in [Conn -> Connection] /\ \A c \in Conn : ConnMoves(c)
  BY <1>1, <1>2, TypedFacts DEF ConnMoves
<1> QED
  BY <1>2, <1>3, <1>5, <1>6, OthersSound

\* A Device that is begun has a Buffer: had it been connected before, it had one.
LEMMA BegunDevice ==
  ASSUME IInv, NEW d \in Dev, dev[d].ip # NULL
  PROVE  /\ Begun(dev[d]) \in Device /\ Begun(dev[d]).ip # NULL
         /\ Begun(dev[d]).state = "connected"
         /\ d \in ToSet(list) => Begun(dev[d]).buffer
<1> DEFINE r == dev[d]
           b == r.buffer \/ r.state # "connected"
<1>1. r \in Device /\ r.buffer \in BOOLEAN /\ MaxAttempts \in 0..MaxAttempts
  BY TypedFacts, SizeAssumption DEF IInv, Device
<1>2. Begun(r) = [r EXCEPT !.attempts = MaxAttempts, !.state = "connected", !.buffer = b]
  BY DEF Begun
<1>3. b \in BOOLEAN /\ "connected" \in State
  BY DEF State
<1>4. d \in ToSet(list) => b
  BY <1>1 DEF IInv, ListedFresh, Fresh
<1> HIDE DEF b
<1>5. Begun(r) \in Device
  BY <1>1, <1>2, <1>3 DEF Device
<1>6. Begun(r).ip = r.ip /\ Begun(r).state = "connected" /\ Begun(r).buffer = b
  BY <1>1, <1>2 DEF Device
<1> QED
  BY <1>4, <1>5, <1>6

LEMMA ScpConnectedSound ==
  ASSUME IInv, NEW c \in Conn, ScpConnected(c)
  PROVE  StepSound
<1> DEFINE d == conn[c].dev
           r == Begun(dev[d])
<1>1. /\ Typed /\ conn[c].tcp = "syn_sent" /\ conn[c].p = "scp"
      /\ d \in Dev /\ dev[d].ip # NULL
  BY DEF IInv, Addressed, ScpConnected
<1>2. /\ r \in Device /\ r.ip # NULL /\ r.state = "connected"
      /\ d \in ToSet(list) => r.buffer
  BY <1>1, BegunDevice
<1>3. /\ conn' \in [Conn -> Connection]
      /\ \A e \in Conn \ {c} : conn'[e] = conn[e]
      /\ conn'[c].tcp = "established" /\ conn'[c].p = "scp" /\ conn'[c].dev = d
      /\ conn'[c].ip = conn[c].ip
  <2>1. "established" \in Tcp /\ Become(c, "established")
    BY DEF Tcp, ScpConnected
  <2> QED
    BY <1>1, <2>1, BecomeMoves
<1>4. dev' = [dev EXCEPT ![d] = r] /\ UNCHANGED <<use, list, loop, check>>
  BY DEF ScpConnected
<1>5. c \in Telling(conn', d) /\ conn'[c].tcp \in Live
  BY <1>3 DEF Telling, Live
<1> HIDE DEF r, d
<1>6. /\ dev' \in [Dev -> Device] /\ \A e \in Dev : DevMoves(e)
      /\ dev'[d] = r
  <2>1. d \in ToSet(list) => Fresh(r)
    BY <1>2 DEF Fresh
  <2>2. \E e \in Telling(conn', d) : conn'[e].tcp \in Live
    BY <1>5
  <2> QED
    BY <1>1, <1>2, <1>4, <2>1, <2>2, OneDeviceMoves
<1>7. ConnMoves(c)
  BY <1>1, <1>2, <1>3, <1>4, <1>6 DEF ConnMoves, Advances, Live, HasBuffer, d
<1>8. \A e \in Conn : ConnMoves(e)
  BY <1>3, <1>7 DEF ConnMoves
<1> QED
  BY <1>3, <1>4, <1>6, <1>8, OthersSound

LEMMA CheckConnectedSound ==
  ASSUME IInv, NEW c \in Conn, CheckConnected(c)
  PROVE  StepSound
<1>1. /\ Typed /\ dev \in [Dev -> Device] /\ ToSet(list) \subseteq Dev
      /\ check \in [loop : Dev \cup {NULL}, waits : BOOLEAN]
      /\ conn[c].tcp = "syn_sent" /\ conn[c].p = "check"
      /\ list' = list /\ use' = use /\ loop' = loop
      /\ check' = [check EXCEPT !.waits = FALSE]
  BY TypedFacts DEF IInv, Typed, CheckConnected
<1>2. check' \in [loop : Dev \cup {NULL}, waits : BOOLEAN] /\ LoopKept
  BY <1>1 DEF LoopKept
<1>3. PICK tcp \in {"fin_wait", "established"} : Become(c, tcp)
  BY DEF CheckConnected
<1>4. /\ conn' \in [Conn -> Connection]
      /\ \A e \in Conn \ {c} : conn'[e] = conn[e]
      /\ conn'[c].tcp = tcp /\ conn'[c].p = "check"
      /\ conn'[c].ip = conn[c].ip /\ conn'[c].dev = conn[c].dev
  <2>1. tcp \in Tcp /\ tcp # "closed"
    BY DEF Tcp
  <2> QED
    BY <1>1, <1>3, <2>1, BecomeMoves
<1>5. ConnMoves(c)
  BY <1>1, <1>4 DEF ConnMoves, Advances
<1>6. \A e \in Conn : ConnMoves(e)
  BY <1>4, <1>5 DEF ConnMoves
<1>7. dev' \in [Dev -> Device] /\ \A d \in Dev : DevMoves(d)
  <2>1. CASE ~check.waits
    <3>1. dev' = dev
      BY <2>1 DEF CheckConnected
    <3> QED
      BY <1>1, <3>1 DEF DevMoves
  <2>2. CASE check.waits
    <3> DEFINE d == check.loop
               r == [dev[d] EXCEPT !.attempts = MaxAttempts, !.state = "disconnected"]
    <3>1. d \in Dev /\ dev[d] \in Device /\ dev[d].ip # NULL
      BY <1>1, <2>2 DEF IInv, ProbedStays, Addressed
    <3>2. dev' = [dev EXCEPT ![d] = r]
      BY <2>2 DEF CheckConnected
    <3>3. MaxAttempts \in 0..MaxAttempts /\ "disconnected" \in State
      BY SizeAssumption DEF State
    <3>4. r \in Device /\ r.ip # NULL /\ r.state = "disconnected" /\ r.buffer = dev[d].buffer
      BY <3>1, <3>3 DEF Device
    <3> HIDE DEF r, d
    <3> QED
      BY <1>1, <3>1, <3>2, <3>4, OneDeviceMoves DEF Fresh, Active
  <2> QED
    BY <2>1, <2>2
<1>8. Typed' /\ ToSet(list') = ToSet(list)
  BY <1>1, <1>2, <1>4, <1>7 DEF Typed, ListOK, Conn
<1> QED
  BY <1>1, <1>2, <1>6, <1>7, <1>8, MovesSound

\* SCP_process closes a connection: it waits for the other end to do so.
LEMMA ClosesSound ==
  ASSUME IInv, NEW c \in Conn, TimeoutCloses(c) \/ BackupCloses(c) \/ GarbageCloses(c)
  PROVE  StepSound
<1> DEFINE d == conn[c].dev
           r == [dev[d] EXCEPT !.state = "disconnected"]
<1>1. /\ Typed /\ dev \in [Dev -> Device] /\ conn[c].tcp = "established" /\ conn[c].p = "scp"
      /\ d \in Dev /\ dev[d].ip # NULL /\ dev[d] \in Device
      /\ Become(c, "fin_wait") /\ UNCHANGED <<use, list, loop, check>>
      /\ dev' = dev \/ dev' = [dev EXCEPT ![d] = r]
  BY TypedFacts DEF IInv, Addressed, TimeoutCloses, BackupCloses, GarbageCloses
<1>2. r \in Device /\ r.ip # NULL /\ r.state = "disconnected" /\ r.buffer = dev[d].buffer
  BY <1>1 DEF Device, State
<1> HIDE DEF r, d
<1>3. /\ conn' \in [Conn -> Connection]
      /\ \A e \in Conn \ {c} : conn'[e] = conn[e]
      /\ conn'[c].tcp = "fin_wait" /\ conn'[c].p = "scp" /\ conn'[c].dev = conn[c].dev
      /\ conn'[c].ip = conn[c].ip
  <2>1. "fin_wait" \in Tcp
    BY DEF Tcp
  <2> QED
    BY <1>1, <2>1, BecomeMoves
<1>4. ConnMoves(c)
  BY <1>1, <1>3 DEF ConnMoves, Advances, Live
<1>5. \A e \in Conn : ConnMoves(e)
  BY <1>3, <1>4 DEF ConnMoves
<1>6. dev' \in [Dev -> Device] /\ \A e \in Dev : dev'[e] = dev[e] \/ DevMoves(e)
  <2>1. CASE dev' = dev
    BY <1>1, <2>1
  <2>2. CASE dev' = [dev EXCEPT ![d] = r]
    BY <1>1, <1>2, <2>2, OneDeviceMoves DEF Fresh, Active
  <2> QED
    BY <1>1, <2>1, <2>2
<1> QED
  BY <1>1, <1>3, <1>5, <1>6, OthersSound

LEMMA IdentifiedSound ==
  ASSUME IInv, NEW c \in Conn, Identified(c)
  PROVE  StepSound
<1> DEFINE d == conn[c].dev
           id == DevIdOf[conn[c].ip]
           D == {e \in ToSet(list) \ {d} : dev[e].id = id}
           known == [dev[d] EXCEPT !.id = id, !.state = "connected", !.order = Cardinality(D)]
           renamed == [dev[d] EXCEPT !.id = id]
<1>1. /\ Typed /\ dev \in [Dev -> Device] /\ ToSet(list) \subseteq Dev
      /\ conn[c].tcp = "established" /\ conn[c].p = "scp"
      /\ conn[c] \in Connection
      /\ d \in Dev /\ dev[d].ip # NULL /\ dev[d] \in Device
      /\ UNCHANGED <<use, list, conn, loop, check>>
  BY TypedFacts DEF IInv, Addressed, Identified
<1>2. id \in Nat
  <2>1. conn[c].ip \in Address
    BY <1>1 DEF IInv, Addressed, Connection
  <2> QED
    BY <2>1, DevIdAssumption
<1>3. Cardinality(D) \in Nat
  <2>1. IsFiniteSet(Dev) /\ D \in SUBSET Dev
    BY <1>1, UsesAssumption
  <2>2. IsFiniteSet(D)
    BY <2>1, FS_Subset
  <2> HIDE DEF D
  <2> QED
    BY <2>2, FS_CardinalityType
<1>4. \/ dev' = [dev EXCEPT ![d] = known]
      \/ dev[d].state # "unknown" /\ dev' = [dev EXCEPT ![d] = renamed]
  BY DEF Identified
<1>5. d \in ToSet(list) => Fresh(dev[d])
  BY DEF IInv, ListedFresh
<1>6. conn' \in [Conn -> Connection] /\ \A e \in Conn : ConnMoves(e)
  BY <1>1, TypedFacts DEF ConnMoves
<1>7. c \in Telling(conn', d) /\ conn'[c].tcp \in Live
  BY <1>1 DEF Telling, Live
<1>8. CASE dev' = [dev EXCEPT ![d] = known] /\ dev[d].state = "unknown"
  <2>1. /\ known \in Device /\ known.ip # NULL /\ known.state = "connected"
        /\ known.buffer = dev[d].buffer
    <3> HIDE DEF id, D
    <3> QED
      BY <1>1, <1>2, <1>3 DEF Device, State
  <2>2. d \in ToSet(list) => Fresh(known)
    BY <1>1, <1>5, <1>8, <2>1 DEF Fresh
  <2>3. \E e \in Telling(conn', d) : conn'[e].tcp \in Live
    BY <1>7
  <2> DEFINE k == known
             d0 == d
  <2>4. dev' = [dev EXCEPT ![d0] = k]
    BY <1>8
  <2> HIDE DEF known, d, k, d0
  <2>5. dev' \in [Dev -> Device] /\ \A e \in Dev : DevMoves(e)
    BY <1>1, <2>1, <2>2, <2>3, <2>4, OneDeviceMoves DEF k, d0
  <2> QED
    BY <1>1, <1>6, <2>5, OthersSound
<1>9. CASE dev[d].state # "unknown" /\ dev' = [dev EXCEPT ![d] = renamed]
  <2>1. /\ renamed \in Device /\ renamed.ip # NULL /\ renamed.state = dev[d].state
        /\ renamed.buffer = dev[d].buffer /\ renamed.ip = dev[d].ip
    <3> HIDE DEF id
    <3> QED
      BY <1>1, <1>2 DEF Device
  <2>2. d \in ToSet(list) => Fresh(renamed)
    BY <1>5, <1>9, <2>1 DEF Fresh
  <2> DEFINE k == renamed
             d0 == d
  <2>3. dev' = [dev EXCEPT ![d0] = k]
    BY <1>9
  <2> HIDE DEF renamed, d, k, d0
  <2>4. dev' \in [Dev -> Device] /\ \A e \in Dev : DevMoves(e)
    BY <1>1, <1>9, <2>1, <2>2, <2>3, OneDeviceMoves DEF k, d0
  <2> QED
    BY <1>1, <1>6, <2>4, OthersSound
<1> QED
  BY <1>4, <1>8, <1>9 DEF Identified

LEMMA CheckPolledSound ==
  ASSUME IInv, NEW c \in Conn, CheckPolled(c)
  PROVE  StepSound
<1>1. TellCheck /\ UNCHANGED <<use, conn, loop>>
  BY DEF CheckPolled
<1>2. /\ dev' \in [Dev -> Device] /\ list' = list
      /\ check' \in [loop : Dev \cup {NULL}, waits : BOOLEAN] /\ LoopKept
      /\ \A d \in Dev : DevMoves(d)
  BY <1>1, TellCheckMoves
<1>3. Typed' /\ ToSet(list') = ToSet(list) /\ \A e \in Conn : ConnMoves(e)
  BY <1>1, <1>2 DEF IInv, Typed, ListOK, Conn, ConnMoves
<1> QED
  BY <1>1, <1>2, <1>3, MovesSound

\* uIP stops waiting for the other end, and nobody is told.
LEMMA ForgottenSound ==
  ASSUME IInv, NEW c \in Conn, FinDropped(c) \/ TimeWaitOver(c)
  PROVE  StepSound
<1>1. /\ Typed /\ conn[c].tcp \in {"fin_wait", "time_wait"} /\ Become(c, "closed")
      /\ UNCHANGED <<use, dev, list, loop, check>> /\ "closed" \in Tcp
  BY DEF IInv, FinDropped, TimeWaitOver, Tcp
<1>2. /\ conn' \in [Conn -> Connection]
      /\ \A e \in Conn \ {c} : conn'[e] = conn[e]
      /\ conn'[c].tcp = "closed"
      /\ conn'[c].p = "scp" => conn[c].p = "scp" /\ conn'[c].dev = conn[c].dev
  BY <1>1, BecomeMoves
<1>3. ConnMoves(c)
  BY <1>1, <1>2 DEF ConnMoves, Advances, Live
<1>4. \A e \in Conn : ConnMoves(e)
  BY <1>2, <1>3 DEF ConnMoves
<1>5. dev' \in [Dev -> Device]
  BY <1>1 DEF Typed
<1> QED
  BY <1>1, <1>2, <1>4, <1>5, OthersSound

\* A host connects: the appstate of the connection is still the former one's.
LEMMA SynReceivedSound ==
  ASSUME IInv, NEW a \in Address, SynReceived(a)
  PROVE  StepSound
<1>1. PICK c \in FreeConn : conn' = [conn EXCEPT ![c].tcp = "syn_rcvd", ![c].ip = a]
  BY DEF SynReceived
<1>2. /\ Typed /\ UNCHANGED <<use, dev, list, loop, check>>
      /\ c \in Conn /\ conn[c].tcp \in {"closed", "time_wait"}
      /\ conn \in [Conn -> Connection] /\ conn[c] \in Connection
  BY FreeConnIs, TypedFacts DEF IInv, SynReceived
<1>3. a # NULL
  BY DevInterval
<1>4. /\ conn' \in [Conn -> Connection]
      /\ \A e \in Conn \ {c} : conn'[e] = conn[e]
      /\ conn'[c].tcp = "syn_rcvd" /\ conn'[c].ip = a
      /\ conn'[c].p = conn[c].p /\ conn'[c].dev = conn[c].dev
  BY <1>1, <1>2 DEF Connection, Tcp
<1>5. ConnMoves(c)
  BY <1>2, <1>3, <1>4 DEF ConnMoves, Opens, SynMade
<1>6. \A e \in Conn : ConnMoves(e)
  BY <1>4, <1>5 DEF ConnMoves
<1>7. dev' \in [Dev -> Device]
  BY <1>2 DEF Typed
<1> QED
  BY <1>2, <1>4, <1>6, <1>7, OthersSound

-----------------------------------------------------------------------------
(* The timers. *)

LEMMA CheckTimerSound ==
  ASSUME IInv, CheckTimer
  PROVE  StepSound
<1> DEFINE d == NextKnown(check.loop)
<1>1. /\ Typed /\ list \in Seq(Dev) /\ ToSet(list) \subseteq Dev
      /\ dev \in [Dev -> Device] /\ conn \in [Conn -> Connection]
      /\ UNCHANGED <<use, dev, list, loop>>
      /\ check' = Probing(d)
  BY TypedFacts DEF IInv, CheckTimer
<1>2. d = NULL \/ (d \in ToSet(list) /\ d \in Dev /\ dev[d].state # "unknown")
  BY <1>1, FirstBehindIn DEF NextKnown
<1>3. d # NULL => dev[d].ip # NULL /\ dev[d].ip \in Address \cup {NULL}
  BY <1>1, <1>2 DEF IInv, Addressed, Device
<1> HIDE DEF d
<1>4. /\ check' \in [loop : Dev \cup {NULL}, waits : BOOLEAN] /\ LoopKept
      /\ check'.waits => d # NULL
  BY <1>1, <1>2 DEF Probing, ToProbe, LoopKept
<1>5. ASSUME NEW c \in FreeConn, d # NULL,
             conn' = [conn EXCEPT ![c] = [tcp |-> "syn_sent",
                        ip |-> dev[d].ip, p |-> "check", dev |-> NULL]]
      PROVE  conn' \in [Conn -> Connection] /\ \A e \in Conn : ConnMoves(e)
  <2> DEFINE k == [tcp |-> "syn_sent", ip |-> dev[d].ip, p |-> "check", dev |-> NULL]
  <2>1. c \in Conn /\ conn[c].tcp \in {"closed", "time_wait"}
    BY <1>1, FreeConnIs
  <2>2. k \in Connection /\ k.ip # NULL /\ k.tcp = "syn_sent" /\ k.p = "check"
    BY <1>3, <1>5 DEF Connection, Tcp
  <2>3. conn' = [conn EXCEPT ![c] = k]
    BY <1>5
  <2> HIDE DEF k
  <2>4. conn' \in [Conn -> Connection] /\ conn'[c] = k /\ \A e \in Conn \ {c} : conn'[e] = conn[e]
    BY <1>1, <2>1, <2>2, <2>3
  <2>5. ConnMoves(c)
    BY <2>1, <2>2, <2>4 DEF ConnMoves, Opens, SynMade
  <2> QED
    BY <2>4, <2>5 DEF ConnMoves
<1>6. conn' \in [Conn -> Connection] /\ \A e \in Conn : ConnMoves(e)
  <2>1. CASE conn' = conn
    BY <1>1, <2>1 DEF ConnMoves
  <2>2. CASE conn' # conn
    <3>1. \E c \in FreeConn : /\ d # NULL
             /\ conn' = [conn EXCEPT ![c] = [tcp |-> "syn_sent",
                           ip |-> dev[d].ip, p |-> "check", dev |-> NULL]]
      BY <2>2 DEF CheckTimer, ToProbe, d
    <3> QED
      BY <1>5, <3>1
  <2> QED
    BY <2>1, <2>2
<1>7. Typed' /\ ToSet(list') = ToSet(list) /\ \A e \in Dev : DevMoves(e)
  BY <1>1, <1>4, <1>6 DEF Typed, ListOK, Conn, DevMoves
<1> QED
  BY <1>1, <1>4, <1>6, <1>7, MovesSound

LEMMA TimerSound ==
  ASSUME IInv, Timer
  PROVE  StepSound
<1> DEFINE d == NextActive(loop)
<1>1. /\ Typed /\ list \in Seq(Dev) /\ dev \in [Dev -> Device] /\ conn \in [Conn -> Connection]
      /\ ToSet(list) \subseteq Dev
      /\ UNCHANGED <<use, list, check>> /\ loop' = d
  BY TypedFacts DEF IInv, Timer
<1>2. /\ d \in Dev \cup {NULL}
      /\ d # NULL => dev[d].attempts = 0 \/ dev[d].state # "unknown"
  BY <1>1, NextActiveIn
<1>3. PICK D \in SUBSET {e \in Dev : dev[e].state = "connected"} :
        \/ /\ ToConnect(d)
           /\ \/ /\ FreeConn = {}
                 /\ dev' = TimedOutPackets([dev EXCEPT ![d].state = "offline"], D)
                 /\ UNCHANGED conn
              \/ \E c \in FreeConn :
                   /\ conn' = [conn EXCEPT ![c] = [tcp |-> "syn_sent",
                                 ip |-> dev[d].ip, p |-> "scp", dev |-> d]]
                   /\ dev' = TimedOutPackets([dev EXCEPT ![d].state = "connecting"], D)
        \/ /\ ~ToConnect(d)
           /\ dev' = TimedOutPackets(dev, D)
           /\ UNCHANGED conn
  BY DEF Timer
<1>4. \A e \in Dev : dev[e].ip = NULL => dev[e].state = "unknown" /\ dev[e].attempts = MaxAttempts
  BY DEF IInv, Addressed
<1>5. d # NULL => d \in Dev /\ dev[d].ip # NULL /\ dev[d].ip \in Address \cup {NULL}
  BY <1>1, <1>2, <1>4, SizeAssumption DEF Device
<1> HIDE DEF d
<1>6. ASSUME NEW m \in [Dev -> Device], dev' = TimedOutPackets(m, D),
             \A e \in Dev : \/ m[e] = dev[e]
                            \/ /\ m[e].ip # NULL /\ m[e].buffer = dev[e].buffer
                               /\ \/ m[e].state = "offline"
                                  \/ /\ m[e].state = "connecting"
                                     /\ \E c \in Telling(conn', e) : conn'[c].tcp \in Live
      PROVE  dev' \in [Dev -> Device] /\ \A e \in Dev : DevMoves(e)
  <2>1. /\ dev' \in [Dev -> Device]
        /\ \A e \in Dev : \/ dev'[e] = m[e]
                          \/ /\ m[e].state = "connected" /\ dev'[e].state = "timeout"
                             /\ dev'[e].ip = m[e].ip /\ dev'[e].buffer = m[e].buffer
    BY <1>6, TimedOutDevices
  <2>2. ASSUME NEW e \in Dev PROVE DevMoves(e)
    <3>1. CASE m[e] = dev[e]
      BY <1>1, <1>4, <2>1, <3>1
         DEF DevMoves, Fresh, HasBuffer, Active, IInv, ListedFresh
    <3>2. CASE /\ m[e].ip # NULL /\ m[e].buffer = dev[e].buffer
               /\ \/ m[e].state = "offline"
                  \/ /\ m[e].state = "connecting"
                     /\ \E c \in Telling(conn', e) : conn'[c].tcp \in Live
      <4>1. dev'[e] = m[e]
        BY <2>1, <3>2
      <4> QED
        BY <1>1, <3>2, <4>1 DEF DevMoves, Fresh, HasBuffer, Active
    <3> QED
      BY <1>6, <3>1, <3>2
  <2> QED
    BY <2>1, <2>2
<1>7. ASSUME NEW s \in {"offline", "connecting"}, d # NULL
      PROVE  /\ [dev EXCEPT ![d].state = s] \in [Dev -> Device]
             /\ [dev EXCEPT ![d].state = s][d].state = s
             /\ [dev EXCEPT ![d].state = s][d].ip # NULL
             /\ [dev EXCEPT ![d].state = s][d].buffer = dev[d].buffer
             /\ \A e \in Dev \ {d} : [dev EXCEPT ![d].state = s][e] = dev[e]
  <2> DEFINE r == [dev[d] EXCEPT !.state = s]
  <2>1. r \in Device /\ r.state = s /\ r.ip = dev[d].ip /\ r.buffer = dev[d].buffer
    BY <1>1, <1>5, <1>7 DEF Device, State
  <2>2. [dev EXCEPT ![d].state = s] = [dev EXCEPT ![d] = r]
    OBVIOUS
  <2> HIDE DEF r
  <2> QED
    BY <1>1, <1>5, <1>7, <2>1, <2>2
<1>8. /\ dev' \in [Dev -> Device] /\ conn' \in [Conn -> Connection]
      /\ \A e \in Dev : DevMoves(e)
      /\ \A c \in Conn : ConnMoves(c)
  <2>1. CASE /\ ToConnect(d) /\ FreeConn = {}
             /\ dev' = TimedOutPackets([dev EXCEPT ![d].state = "offline"], D)
             /\ UNCHANGED conn
    <3> DEFINE m == [dev EXCEPT ![d].state = "offline"]
    <3>1. d # NULL
      BY <2>1 DEF ToConnect
    <3>2. /\ m \in [Dev -> Device] /\ m[d].state = "offline" /\ m[d].ip # NULL
          /\ m[d].buffer = dev[d].buffer /\ \A e \in Dev \ {d} : m[e] = dev[e]
      BY <1>7, <3>1
    <3>3. dev' = TimedOutPackets(m, D)
      BY <2>1
    <3> HIDE DEF m
    <3>4. dev' \in [Dev -> Device] /\ \A e \in Dev : DevMoves(e)
      BY <1>6, <3>2, <3>3
    <3> QED
      BY <1>1, <2>1, <3>4 DEF ConnMoves
  <2>2. ASSUME ToConnect(d), NEW c \in FreeConn,
               conn' = [conn EXCEPT ![c] = [tcp |-> "syn_sent",
                          ip |-> dev[d].ip, p |-> "scp", dev |-> d]],
               dev' = TimedOutPackets([dev EXCEPT ![d].state = "connecting"], D)
        PROVE  /\ dev' \in [Dev -> Device] /\ conn' \in [Conn -> Connection]
               /\ \A e \in Dev : DevMoves(e)
               /\ \A e \in Conn : ConnMoves(e)
    <3> DEFINE m == [dev EXCEPT ![d].state = "connecting"]
               k == [tcp |-> "syn_sent", ip |-> dev[d].ip, p |-> "scp", dev |-> d]
    <3>1. d # NULL /\ dev[d].state \notin Active
      BY <2>2 DEF ToConnect, Active
    <3>2. /\ m \in [Dev -> Device] /\ m[d].state = "connecting" /\ m[d].ip # NULL
          /\ m[d].buffer = dev[d].buffer /\ \A e \in Dev \ {d} : m[e] = dev[e]
      BY <1>7, <3>1
    <3>3. dev' = TimedOutPackets(m, D) /\ conn' = [conn EXCEPT ![c] = k]
      BY <2>2
    <3>4. k \in Connection /\ k.tcp = "syn_sent" /\ k.p = "scp" /\ k.dev = d /\ k.ip # NULL
      BY <1>5, <3>1 DEF Connection, Tcp
    <3>5. c \in Conn /\ conn[c].tcp \in {"closed", "time_wait"}
      BY <1>1, FreeConnIs
    <3> HIDE DEF m, k
    <3>6. conn' \in [Conn -> Connection] /\ conn'[c] = k
          /\ \A e \in Conn \ {c} : conn'[e] = conn[e]
      BY <1>1, <3>3, <3>4, <3>5
    <3>7. c \in Telling(conn', d) /\ conn'[c].tcp \in Live
      BY <3>4, <3>5, <3>6 DEF Telling, Live
    <3>8. dev' \in [Dev -> Device] /\ \A e \in Dev : DevMoves(e)
      <4>1. \A e \in Dev : \/ m[e] = dev[e]
                           \/ /\ m[e].ip # NULL /\ m[e].buffer = dev[e].buffer
                              /\ \/ m[e].state = "offline"
                                 \/ /\ m[e].state = "connecting"
                                    /\ \E i \in Telling(conn', e) : conn'[i].tcp \in Live
        BY <1>5, <3>2, <3>7
      <4> QED
        BY <1>6, <3>2, <3>3, <4>1
    <3>9. dev'[d].state = "connecting" /\ dev'[d].ip # NULL
      BY <1>5, <3>1, <3>2, <3>3, TimedOutDevices
    <3>10. SynMade(c)
      BY <1>1, <1>5, <3>1, <3>4, <3>6, <3>9 DEF SynMade, Active
    <3>11. ConnMoves(c)
      BY <1>5, <3>1, <3>4, <3>5, <3>6, <3>9, <3>10 DEF ConnMoves, Opens
    <3> QED
      BY <3>6, <3>8, <3>11 DEF ConnMoves
  <2>3. CASE ~ToConnect(d) /\ dev' = TimedOutPackets(dev, D) /\ UNCHANGED conn
    <3>1. dev' \in [Dev -> Device] /\ \A e \in Dev : DevMoves(e)
      BY <1>1, <1>6, <2>3
    <3> QED
      BY <1>1, <2>3, <3>1 DEF ConnMoves
  <2> QED
    BY <1>3, <2>1, <2>2, <2>3
<1>9. LoopKept
  BY <1>1 DEF LoopKept, IInv, ProbedStays
<1>10. Typed' /\ ToSet(list') = ToSet(list)
  BY <1>1, <1>2, <1>8 DEF Typed, ListOK, Conn
<1> QED
  BY <1>1, <1>8, <1>9, <1>10, MovesSound

-----------------------------------------------------------------------------
(* A connection is given to SCP_process. *)

LEMMA AcceptedMoves ==
  ASSUME IInv, NEW c \in Conn, conn[c].tcp = "syn_rcvd", NEW d \in Dev,
         conn' = [conn EXCEPT ![c].tcp = "established", ![c].p = "scp", ![c].dev = d]
  PROVE  /\ conn' \in [Conn -> Connection]
         /\ \A e \in Conn \ {c} : conn'[e] = conn[e]
         /\ conn'[c].tcp = "established" /\ conn'[c].p = "scp" /\ conn'[c].dev = d
         /\ conn'[c].ip = conn[c].ip /\ conn[c].ip \in Address
         /\ c \in Telling(conn', d)
<1>1. /\ conn \in [Conn -> Connection] /\ conn[c] \in Connection /\ conn[c].ip # NULL
  BY TypedFacts DEF IInv, Addressed
<1>2. /\ conn' \in [Conn -> Connection]
      /\ \A e \in Conn \ {c} : conn'[e] = conn[e]
      /\ conn'[c].tcp = "established" /\ conn'[c].p = "scp" /\ conn'[c].dev = d
      /\ conn'[c].ip = conn[c].ip /\ conn[c].ip \in Address
  BY <1>1 DEF Connection, Tcp
<1> QED
  BY <1>2 DEF Telling

\* The host has a Device.
LEMMA KnownAccepted ==
  ASSUME IInv, NEW c \in Conn, conn[c].tcp = "syn_rcvd",
         NEW d \in ToSet(list), dev[d].ip = conn[c].ip,
         conn' = [conn EXCEPT ![c].tcp = "established", ![c].p = "scp", ![c].dev = d],
         dev' = [dev EXCEPT ![d] = Begun(@)],
         UNCHANGED <<use, list, loop, check>>
  PROVE  StepSound
<1> DEFINE r == Begun(dev[d])
<1>1. Typed /\ d \in Dev /\ dev[d].ip # NULL
  BY TypedFacts DEF IInv, Addressed
<1>2. /\ r \in Device /\ r.ip # NULL /\ r.state = "connected" /\ r.buffer
  BY <1>1, BegunDevice
<1>3. dev' = [dev EXCEPT ![d] = r]
  OBVIOUS
<1>4. /\ conn' \in [Conn -> Connection]
      /\ \A e \in Conn \ {c} : conn'[e] = conn[e]
      /\ conn'[c].tcp = "established" /\ conn'[c].p = "scp" /\ conn'[c].dev = d
      /\ conn'[c].ip = conn[c].ip
      /\ c \in Telling(conn', d)
  BY <1>1, AcceptedMoves
<1> HIDE DEF r
<1>5. dev' \in [Dev -> Device] /\ dev'[d] = r /\ \A e \in Dev : DevMoves(e)
  <2>1. Fresh(r)
    BY <1>2 DEF Fresh
  <2>2. \E e \in Telling(conn', d) : conn'[e].tcp \in Live
    BY <1>4 DEF Live
  <2> QED
    BY <1>1, <1>2, <1>3, <2>1, <2>2, OneDeviceMoves
<1>6. ConnMoves(c)
  BY <1>1, <1>2, <1>4, <1>5 DEF ConnMoves, Given, HasBuffer
<1>7. \A e \in Conn : ConnMoves(e)
  BY <1>4, <1>6 DEF ConnMoves
<1> QED
  BY <1>4, <1>5, <1>7, OthersSound

\* A Device is made for it, in memory that is not in the list, although some
\* connection may still lead to that.
LEMMA NewAccepted ==
  ASSUME IInv, NEW c \in Conn, conn[c].tcp = "syn_rcvd", NEW d \in Dev \ ToSet(list),
         conn' = [conn EXCEPT ![c].tcp = "established", ![c].p = "scp", ![c].dev = d],
         dev' = [NewDevice(dev, list, d, Unknown, conn[c].ip) EXCEPT ![d].buffer = TRUE],
         list' = Append(list, d),
         UNCHANGED <<use, loop, check>>
  PROVE  StepSound
<1>1. /\ Typed /\ list \in Seq(Dev) /\ dev \in [Dev -> Device] /\ ToSet(list) \subseteq Dev
      /\ Addressed /\ ListedFresh /\ conn \in [Conn -> Connection] /\ ListOK(list)
      /\ Conn' = Conn
  BY TypedFacts DEF IInv, Typed, Conn
<1>2. /\ conn' \in [Conn -> Connection]
      /\ \A e \in Conn \ {c} : conn'[e] = conn[e]
      /\ conn'[c].tcp = "established" /\ conn'[c].p = "scp" /\ conn'[c].dev = d
      /\ conn'[c].ip = conn[c].ip /\ conn[c].ip \in Address
      /\ c \in Telling(conn', d)
  BY AcceptedMoves
<1>3. conn[c].ip # NULL
  BY <1>2, DevInterval
<1> DEFINE w == NewDevice(dev, list, d, Unknown, conn[c].ip)
<1>4. /\ w \in [Dev -> Device]
      /\ w[d].state = "unknown" /\ w[d].attempts = MaxAttempts /\ w[d].ip = conn[c].ip
      /\ \A e \in Dev \ {d} : w[e] \in {dev[e], [dev[e] EXCEPT !.next = d]}
  <2>1. Unknown \in Nat /\ conn[c].ip \in Address \cup {NULL} /\ d \in Dev
    BY <1>2 DEF Unknown
  <2> QED
    BY <1>1, <2>1, NewDeviceMade
<1>5. dev' = [w EXCEPT ![d].buffer = TRUE]
  OBVIOUS
<1> HIDE DEF w
<1>6. /\ dev' \in [Dev -> Device] /\ dev'[d].buffer
      /\ dev'[d].state = "unknown" /\ dev'[d].attempts = MaxAttempts /\ dev'[d].ip = conn[c].ip
      /\ \A e \in Dev \ {d} : dev'[e] = w[e]
  <2> DEFINE v == w[d]
             r == [v EXCEPT !.buffer = TRUE]
  <2>0. v \in Device
    BY <1>4
  <2>1. /\ r \in Device /\ r.buffer = TRUE /\ r.state = w[d].state
        /\ r.attempts = w[d].attempts /\ r.ip = w[d].ip
    <3> HIDE DEF v
    <3>1. r \in Device
      BY <2>0 DEF Device
    <3>2. r.buffer /\ r.state = v.state /\ r.attempts = v.attempts /\ r.ip = v.ip
      BY <2>0 DEF Device
    <3> QED
      BY <3>1, <3>2 DEF v
  <2>2. dev' = [w EXCEPT ![d] = r]
    BY <1>5
  <2> HIDE DEF r
  <2> QED
    BY <1>4, <2>1, <2>2
<1>7. \A e \in Dev \ {d} : /\ dev'[e].state = dev[e].state /\ dev'[e].attempts = dev[e].attempts
                           /\ dev'[e].ip = dev[e].ip /\ dev'[e].buffer = dev[e].buffer
  <2> SUFFICES ASSUME NEW e \in Dev \ {d}
               PROVE  /\ dev'[e].state = dev[e].state /\ dev'[e].attempts = dev[e].attempts
                      /\ dev'[e].ip = dev[e].ip /\ dev'[e].buffer = dev[e].buffer
    OBVIOUS
  <2>1. dev'[e] = dev[e] \/ dev'[e] = [dev[e] EXCEPT !.next = d]
    BY <1>4, <1>6
  <2>2. dev[e] \in Device
    BY <1>1
  <2> QED
    BY <2>1, <2>2 DEF Device
<1>8. ListOK(list') /\ ToSet(list') = ToSet(list) \cup {d}
  BY <1>1, AppendedList
<1>9. Typed'
  BY <1>1, <1>2, <1>6, <1>8 DEF Typed
<1>10. Addressed'
  <2>1. \A e \in Dev : dev[e].ip # NULL \/ e = d => dev'[e].ip # NULL
    BY <1>3, <1>6, <1>7
  <2>2. \A e \in Conn : conn'[e].p = "scp" => conn'[e].dev \in Dev /\ dev'[conn'[e].dev].ip # NULL
    BY <1>1, <1>2, <2>1 DEF Addressed
  <2>3. \A e \in Conn : conn'[e].tcp # "closed" => conn'[e].ip # NULL
    BY <1>1, <1>2, <1>3 DEF Addressed
  <2>4. \A e \in Dev :
          dev'[e].ip = NULL => dev'[e].state = "unknown" /\ dev'[e].attempts = MaxAttempts
    BY <1>1, <1>3, <1>6, <1>7 DEF Addressed
  <2> QED
    BY <1>1, <2>2, <2>3, <2>4 DEF Addressed
<1>11. ListedFresh'
  <2>1. Fresh(dev'[d])
    BY <1>6 DEF Fresh
  <2>2. ASSUME NEW e \in ToSet(list) PROVE Fresh(dev'[e])
    <3>1. e \in Dev \ {d} /\ Fresh(dev[e])
      BY <1>1 DEF ListedFresh
    <3> QED
      BY <1>7, <3>1 DEF Fresh
  <2> QED
    BY <1>8, <2>1, <2>2 DEF ListedFresh
<1>12. \A e \in ToSet(list) : Kept(e)
  BY <1>1, <1>7, <1>8 DEF Kept
<1>13. LoopKept
  BY DEF LoopKept, IInv, ProbedStays
<1>14. NewHandled(d)
  BY <1>2, <1>6, <1>8 DEF NewHandled, HasBuffer
<1>15. ASSUME NEW e \in Conn PROVE SynMade(e) /\ BufferKept(e)
  <2>1. CASE e = c
    BY <1>2, <1>14, <2>1 DEF SynMade, BufferKept, NewHandled
  <2>2. CASE e # c
    <3>1. conn'[e] = conn[e]
      BY <1>2, <2>2
    <3>2. SynMade(e)
      BY <3>1 DEF SynMade
    <3>3. conn[e].p = "scp" => conn[e].dev \in Dev
      BY <1>1 DEF Addressed
    <3>4. ASSUME conn[e].p = "scp", conn[e].dev \in ToSet(list), dev[conn[e].dev].buffer
          PROVE  HasBuffer(conn[e].dev)
      BY <1>7, <1>8, <3>3, <3>4 DEF HasBuffer
    <3> QED
      BY <3>1, <3>2, <3>4 DEF BufferKept
  <2> QED
    BY <2>1, <2>2
<1>16. ASSUME NEW e \in ToSet(list') PROVE StateKept(e)
  <2>1. CASE e = d
    BY <1>6, <2>1 DEF StateKept, Active
  <2>2. CASE e # d
    <3>1. e \in ToSet(list) /\ e \in Dev /\ dev'[e].state = dev[e].state
      BY <1>1, <1>7, <1>8, <2>2
    <3>2. ASSUME NEW k \in Telling(conn, e), conn[k].tcp \in Live
          PROVE  k \in Telling(conn', e) /\ conn'[k].tcp \in Live
      <4>1. k \in Conn /\ k # c
        BY <3>2 DEF Telling, Live
      <4> QED
        BY <1>2, <3>2, <4>1 DEF Telling
    <3> QED
      BY <3>1, <3>2 DEF StateKept
  <2> QED
    BY <2>1, <2>2
<1> QED
  BY <1>8, <1>9, <1>10, <1>11, <1>12, <1>13, <1>14, <1>15, <1>16 DEF StepSound

LEMMA AcceptedSound ==
  ASSUME IInv, NEW c \in Conn, Accepted(c)
  PROVE  StepSound
<1> DEFINE D == {e \in Dev : dev[e].ip = conn[c].ip}
           known == FirstBehind(NULL, D)
<1>1. list \in Seq(Dev) /\ ToSet(list) \subseteq Dev
  BY TypedFacts DEF IInv
<1>2. known \in (ToSet(list) \cap D) \cup {NULL}
  BY <1>1, FirstBehindIn
<1> HIDE DEF known
<1>3. conn[c].tcp = "syn_rcvd" /\ UNCHANGED <<use, loop, check>>
  BY DEF Accepted
<1>4. CASE known # NULL
  <2>1. /\ conn' = [conn EXCEPT ![c].tcp = "established", ![c].p = "scp", ![c].dev = known]
        /\ dev' = [dev EXCEPT ![known] = Begun(@)] /\ list' = list
    BY <1>4 DEF Accepted, known, D
  <2>2. known \in ToSet(list) /\ dev[known].ip = conn[c].ip
    BY <1>2, <1>4
  <2> QED
    BY <1>3, <2>1, <2>2, KnownAccepted
<1>5. CASE known = NULL
  <2>1. PICK d \in Dev \ ToSet(list) :
          /\ conn' = [conn EXCEPT ![c].tcp = "established", ![c].p = "scp", ![c].dev = d]
          /\ dev' = [NewDevice(dev, list, d, Unknown, conn[c].ip) EXCEPT ![d].buffer = TRUE]
          /\ list' = Append(list, d)
    BY <1>5 DEF Accepted, known, D
  <2> QED
    BY <1>3, <2>1, NewAccepted
<1> QED
  BY <1>4, <1>5

-----------------------------------------------------------------------------
(* The invariant. *)

LEMMA InitIInv == Init => IInv
<1> SUFFICES ASSUME Init PROVE IInv
  OBVIOUS
<1> DEFINE n == Len(use.servers)
<1>1. /\ use \in Uses /\ n \in Nat /\ 1..n \subseteq Dev /\ use.servers \in Seq(Address)
      /\ n <= N
  BY UseTypes, UsesAssumption DEF Init, N
<1>2. /\ list = [i \in 1..n |-> i] /\ list \in Seq(Dev) /\ IsInjective(list)
      /\ ToSet(list) = 1..n
  <2>1. list = [i \in 1..n |-> i]
    BY DEF Init
  <2>2. list \in [1..n -> Dev]
    BY <1>1, <2>1
  <2>3. list \in Seq(Dev)
    BY <1>1, <2>2, IsASeq
  <2> QED
    BY <1>1, <2>1, <2>3 DEF IsInjective, ToSet
<1>3. /\ dev \in [Dev -> Device]
      /\ \A d \in Dev : dev[d].state = "unknown" /\ dev[d].attempts = MaxAttempts /\ dev[d].ip = NULL
  BY <1>1, InitialUnknown DEF Init
<1>4. conn = [c \in Conn |-> Unused] /\ Unused \in Connection
      /\ Unused.p # "scp" /\ Unused.tcp = "closed"
  BY DevInterval DEF Init, Unused, Connection, Tcp
<1>5. /\ loop = NULL /\ check = [loop |-> NULL, waits |-> FALSE]
      /\ twice = {} /\ dropped = {} /\ deleted = {}
  BY DEF Init
<1>6. Typed
  BY <1>1, <1>2, <1>3, <1>4, <1>5 DEF Typed, ListOK
<1>7. Addressed /\ ServersStay /\ ProbedStays /\ ListedFresh /\ UnlistedIdle
  BY <1>2, <1>3, <1>4, <1>5
     DEF Addressed, ServersStay, ProbedStays, ListedFresh, Fresh, UnlistedIdle, Servers
<1>8. \A c \in Conn : conn[c].tcp = "closed" /\ conn[c].p # "scp"
  BY <1>4
<1>9. SynKnown /\ SharedTwice /\ ConnectionBehindState /\ BufferWhenHandled
  <2>1. \A d \in ToSet(list) : dev[d].state \notin {"connecting", "connected", "timeout"}
    BY <1>1, <1>2, <1>3
  <2> QED
    BY <1>8, <2>1
       DEF SynKnown, SharedTwice, ConnectionBehindState, BufferWhenHandled, Telling
<1> QED
  BY <1>5, <1>6, <1>7, <1>9 DEF IInv

LEMMA StepIsSound ==
  ASSUME IInv, Step
  PROVE  StepSound
<1>1. CASE Timer
  BY <1>1, TimerSound
<1>2. CASE CheckTimer
  BY <1>2, CheckTimerSound
<1>3. CASE \E d \in Dev : Resolved(d) \/ PacketEvicted(d)
  BY <1>3, ResolvedSound, PacketEvictedSound
<1>4. CASE \E a \in Address : SynReceived(a)
  BY <1>4, SynReceivedSound
<1>5. ASSUME NEW c \in Conn,
             \/ SynAnswered(c) \/ SynFails(c) \/ Accepted(c) \/ SynGone(c)
             \/ TimeoutCloses(c) \/ BackupCloses(c) \/ GarbageCloses(c) \/ Identified(c)
             \/ CheckPolled(c) \/ FinReceived(c) \/ Broken(c) \/ Closing(c)
      PROVE  StepSound
  <2>1. CASE SynAnswered(c)
    BY <2>1, ScpConnectedSound, CheckConnectedSound DEF SynAnswered
  <2>2. CASE SynFails(c) \/ SynGone(c) \/ Broken(c)
    <3>1. /\ conn[c].tcp # "closed" /\ Become(c, "closed") /\ UNCHANGED <<use, loop>>
          /\ \E end \in {"aborted", "timedout"} : TellEnd(c, end)
      BY <2>2 DEF SynFails, SynGone, Broken
    <3> QED
      BY <3>1, EndTold
  <2>3. CASE FinReceived(c) \/ LastAck(c) \/ FinAnswered(c)
    <3>1. /\ conn[c].tcp # "closed" /\ UNCHANGED <<use, loop>> /\ TellEnd(c, "closed")
          /\ \E tcp \in {"closed", "last_ack", "time_wait"} : Become(c, tcp)
      BY <2>3 DEF FinReceived, LastAck, FinAnswered
    <3> QED
      BY <3>1, EndTold
  <2>4. CASE FinDropped(c) \/ TimeWaitOver(c)
    BY <2>4, ForgottenSound
  <2>5. CASE Accepted(c)
    BY <2>5, AcceptedSound
  <2>6. CASE TimeoutCloses(c) \/ BackupCloses(c) \/ GarbageCloses(c)
    BY <2>6, ClosesSound
  <2>7. CASE Identified(c)
    BY <2>7, IdentifiedSound
  <2>8. CASE CheckPolled(c)
    BY <2>8, CheckPolledSound
  <2> QED
    BY <1>5, <2>1, <2>2, <2>3, <2>4, <2>5, <2>6, <2>7, <2>8 DEF Closing
<1> QED
  BY <1>1, <1>2, <1>3, <1>4, <1>5 DEF Step

LEMMA NextIInv == IInv /\ [Next]_vars => IInv'
<1> SUFFICES ASSUME IInv, [Next]_vars PROVE IInv'
  OBVIOUS
<1>1. CASE Next
  BY <1>1, StepIsSound, StepKeeps DEF Next
<1>2. CASE UNCHANGED vars
  BY <1>2 DEF vars, IInv, Typed, ListOK, Addressed, ServersStay, ProbedStays, ListedFresh,
              Fresh, UnlistedIdle, SynKnown, SharedTwice, Telling, ConnectionBehindState,
              BufferWhenHandled, Conn, Servers
<1> QED
  BY <1>1, <1>2

LEMMA Inductive == Spec => []IInv
BY InitIInv, NextIInv, PTL DEF Spec

-----------------------------------------------------------------------------
(* The theorems. *)

\* A server of the file stays in the list, and SCP_check_process holds on to
\* a Device of the list; Attempts counts down to 0 only.
THEOREM TypeCorrect == Spec => []TypeOK
<1>1. IInv => TypeOK
  <2> SUFFICES ASSUME IInv PROVE TypeOK
    OBVIOUS
  <2>1. 1..Len(use.servers) \subseteq ToSet(list)
    BY DEF IInv, ServersStay, Servers
  <2>2. check \in [loop : ToSet(list) \cup {NULL}, waits : BOOLEAN]
    BY DEF IInv, Typed, ProbedStays
  <2> QED
    BY <2>1, <2>2 DEF IInv, Typed, ListOK, TypeOK
<1> QED
  BY <1>1, Inductive, PTL

\* Whatever connections are opened, closed, reset, lost or forgotten by uIP, in
\* whatever order the two processes are told: a Device that is taken to be
\* connected has a connection, and one that is handled has its Buffer.
THEOREM StateSoundCorrect == Spec => []StateSound
<1>1. IInv => StateSound
  BY DEF IInv, StateSound
<1> QED
  BY <1>1, Inductive, PTL
=============================================================================
