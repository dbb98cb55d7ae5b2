----------------------------- MODULE Scp_proof -----------------------------
(***************************************************************************)
(* Invariants of the packet buffer and its connections (Scp), proved: the  *)
(* types of all that is under way, for every use; which packets are lost   *)
(* to nobody, while processes put packets from outside of the library's    *)
(* calls only; and that connections and processes point to packets that    *)
(* can still end, while they put from inside of these calls as well, if    *)
(* devices make no requests and nothing is to be kept on the SD card; and  *)
(* what is sent once only, though the one device makes requests.           *)
(***************************************************************************)
EXTENDS Scp, DataInduction, SequenceTheorems

Pointer == Slot \cup {SD, NULL}
Readable == [k : Message, id : Nat]
Frame ==
  [k : {"run"}, p : Client, want : Pointer, got : Pointer,
   why : {"own", "timeout"} \cup Message]
  \cup [k : {"put"}, proc : Client \cup {NULL}, important : BOOLEAN, d : Device]
  \cup [k : {"putin"}, d : Device, id : Nat, ignored : BOOLEAN]
  \cup [k : {"timeout"}, s : Slot, told : BOOLEAN]
  \cup [k : {"thread"}, d : Device, data : Readable \cup {NoData, Data("garbage", -1)}]
  \cup [k : {"answered", "ignored", "send"}, d : Device]
ThreadKind == {"thread", "putin", "answered", "ignored", "send"}

\* What a frame may lie on, and what may be the first call.
Under(f, g) ==
  \/ f.k = "run" /\ f.why = "timeout" /\ g.k = "timeout" /\ g.told
  \/ f.k = "run" /\ f.why \in Message /\ g.k = "answered"
  \/ f.k = "put" /\ g.k = "run" /\ f.proc \in {NULL, g.p}
  \/ f.k = "timeout" /\ g.k \in {"put", "putin"}
Fits(f, S) == IF S = << >> THEN f.k # "put" ELSE Under(f, S[1])
Nested(S) ==
  /\ \A i \in 1..(Len(S) - 1) : Under(S[i], S[i + 1])
  /\ S # << >> => S[Len(S)].k # "put"

ThreadAtWait == \A f \in ToSet(stack) : f.k \in ThreadKind => place[f.d] = "wait"
SendHasPacket ==
  \A d \in Device : state[d] = "connected" /\ place[d] = "send" => cur[d] # NULL
StackOK == stack \in Seq(Frame) /\ Nested(stack)
TypeInv == TypeOK /\ StackOK /\ ThreadAtWait /\ SendHasPacket

-----------------------------------------------------------------------------
(* The stack. *)

LEMMA Pushed ==
  ASSUME NEW F, NEW S \in Seq(F), NEW f \in F
  PROVE  LET T == <<f>> \o S
         IN  /\ T \in Seq(F) /\ T # << >> /\ Len(T) = Len(S) + 1 /\ T[1] = f
             /\ \A i \in 1..Len(S) : T[i + 1] = S[i]
             /\ ToSet(T) = {f} \cup ToSet(S)
<1> DEFINE T == <<f>> \o S
<1>1. /\ T \in Seq(F) /\ Len(T) = Len(S) + 1 /\ T[1] = f
      /\ \A i \in 1..Len(S) : T[i + 1] = S[i]
  <2>1. /\ <<f>> \in Seq(F) /\ Len(<<f>>) = 1 /\ <<f>>[1] = f
    OBVIOUS
  <2>2. /\ T \in Seq(F) /\ Len(T) = 1 + Len(S)
        /\ \A i \in 1..(1 + Len(S)) :
             T[i] = IF i <= 1 THEN <<f>>[i] ELSE S[i - 1]
    BY <2>1, ConcatProperties
  <2>3. Len(S) \in Nat
    OBVIOUS
  <2>4. 1 \in 1..(1 + Len(S)) /\ 1 <= 1
        /\ \A i \in 1..Len(S) : i + 1 \in 1..(1 + Len(S)) /\ ~(i + 1 <= 1) /\ (i + 1) - 1 = i
    BY <2>3
  <2> HIDE DEF T
  <2> QED
    BY <2>1, <2>2, <2>3, <2>4
<1>2. DOMAIN T = 1..(Len(S) + 1) /\ DOMAIN S = 1..Len(S) /\ Len(S) \in Nat
  BY <1>1
<1> HIDE DEF T
<1>3. ToSet(T) \subseteq {f} \cup ToSet(S)
  <2> SUFFICES ASSUME NEW i \in 1..(Len(S) + 1), i # 1 PROVE T[i] \in ToSet(S)
    BY <1>1, <1>2 DEF ToSet
  <2>1. i - 1 \in 1..Len(S) /\ (i - 1) + 1 = i
    BY <1>2
  <2> QED
    BY <1>1, <1>2, <2>1 DEF ToSet
<1>4. {f} \cup ToSet(S) \subseteq ToSet(T)
  <2>1. 1 \in DOMAIN T /\ \A i \in 1..Len(S) : i + 1 \in DOMAIN T
    BY <1>2
  <2> QED
    BY <1>1, <1>2, <2>1 DEF ToSet
<1>5. T # << >>
  BY <1>1, <1>2
<1> QED
  BY <1>1, <1>3, <1>4, <1>5 DEF T

LEMMA PushedAlone ==
  ASSUME NEW f \in Frame
  PROVE  LET S == <<f>> \o << >>
         IN  S \in Seq(Frame) /\ ToSet(S) = {f} \cup ToSet(<< >>) /\ S[1] = f
<1>1. <<f>> \o << >> = <<f>>
  <2>1. <<f>> \in Seq(Frame)
    OBVIOUS
  <2> QED
    BY <2>1, ConcatEmptySeq
<1>2. <<f>> \in Seq(Frame) /\ <<f>>[1] = f
  OBVIOUS
<1>3. ToSet(<<f>>) = {f} /\ ToSet(<< >>) = {}
  BY DEF ToSet
<1>4. {f} = {f} \cup {}
  OBVIOUS
<1> QED
  BY <1>1, <1>2, <1>3, <1>4

LEMMA Popped ==
  ASSUME NEW F, NEW S \in Seq(F), S # << >>
  PROVE  LET T == Tail(S)
         IN  /\ T \in Seq(F) /\ Len(T) = Len(S) - 1 /\ S[1] \in F /\ Len(S) \in Nat \ {0}
             /\ \A i \in 1..(Len(S) - 1) : T[i] = S[i + 1]
             /\ T = << >> <=> Len(S) = 1
             /\ ToSet(S) = {S[1]} \cup ToSet(T)
<1> DEFINE T == Tail(S)
<1>1. /\ T \in Seq(F) /\ Len(T) = Len(S) - 1 /\ \A i \in 1..Len(T) : T[i] = S[i + 1]
      /\ S[1] \in F /\ Len(S) \in Nat \ {0}
  BY HeadTailProperties, EmptySeq
<1>2. DOMAIN T = 1..(Len(S) - 1) /\ DOMAIN S = 1..Len(S) /\ Len(S) \in Nat \ {0}
      /\ (T = << >> <=> Len(S) = 1)
  BY <1>1
<1> HIDE DEF T
<1>3. ToSet(S) \subseteq {S[1]} \cup ToSet(T)
  <2> SUFFICES ASSUME NEW i \in 1..Len(S), i # 1 PROVE S[i] \in ToSet(T)
    BY <1>2 DEF ToSet
  <2>1. i - 1 \in 1..(Len(S) - 1) /\ (i - 1) + 1 = i
    BY <1>2
  <2> QED
    BY <1>1, <1>2, <2>1 DEF ToSet
<1>4. {S[1]} \cup ToSet(T) \subseteq ToSet(S)
  <2>1. 1 \in DOMAIN S /\ \A i \in 1..(Len(S) - 1) : i + 1 \in DOMAIN S
    BY <1>2
  <2> QED
    BY <1>1, <1>2, <2>1 DEF ToSet
<1> QED
  BY <1>1, <1>2, <1>3, <1>4 DEF T

LEMMA PushNested ==
  ASSUME NEW S \in Seq(Frame), Nested(S), NEW f \in Frame, Fits(f, S)
  PROVE  Nested(<<f>> \o S) /\ <<f>> \o S \in Seq(Frame)
<1> DEFINE T == <<f>> \o S
<1>1. /\ T \in Seq(Frame) /\ T # << >> /\ Len(T) = Len(S) + 1 /\ T[1] = f
      /\ \A i \in 1..Len(S) : T[i + 1] = S[i]
  BY Pushed
<1>2. Len(S) \in Nat /\ (S = << >> <=> Len(S) = 0)
  BY EmptySeq
<1> HIDE DEF T
<1>3. ASSUME NEW i \in 1..(Len(T) - 1) PROVE Under(T[i], T[i + 1])
  <2>1. i \in 1..Len(S) /\ T[i + 1] = S[i]
    BY <1>1, <1>2
  <2>2. CASE i = 1
    BY <1>1, <1>2, <2>1, <2>2 DEF Fits
  <2>3. CASE i # 1
    <3>1. i - 1 \in 1..(Len(S) - 1) /\ i - 1 \in 1..Len(S) /\ (i - 1) + 1 = i
      BY <1>2, <2>1, <2>3
    <3>2. T[i] = S[i - 1]
      BY <1>1, <3>1
    <3> QED
      BY <2>1, <3>1, <3>2 DEF Nested
  <2> QED
    BY <2>2, <2>3
<1>4. T[Len(T)].k # "put"
  <2>1. CASE S = << >>
    BY <1>1, <1>2, <2>1 DEF Fits
  <2>2. CASE S # << >>
    <3>1. Len(S) \in 1..Len(S)
      BY <1>2, <2>2
    <3> QED
      BY <1>1, <2>2, <3>1 DEF Nested
  <2> QED
    BY <2>1, <2>2
<1> QED
  BY <1>1, <1>3, <1>4 DEF Nested, T

LEMMA PopNested ==
  ASSUME NEW S \in Seq(Frame), Nested(S), S # << >>
  PROVE  /\ Nested(Tail(S)) /\ Tail(S) \in Seq(Frame) /\ S[1] \in Frame
         /\ Tail(S) # << >> => Under(S[1], Tail(S)[1])
         /\ Tail(S) = << >> => S[1].k # "put"
         /\ ToSet(S) = {S[1]} \cup ToSet(Tail(S))
<1> DEFINE T == Tail(S)
<1>1. /\ T \in Seq(Frame) /\ Len(T) = Len(S) - 1 /\ S[1] \in Frame /\ Len(S) \in Nat \ {0}
      /\ \A i \in 1..(Len(S) - 1) : T[i] = S[i + 1]
      /\ T = << >> <=> Len(S) = 1
      /\ ToSet(S) = {S[1]} \cup ToSet(T)
  BY Popped
<1> HIDE DEF T
<1>2. ASSUME NEW i \in 1..(Len(T) - 1) PROVE Under(T[i], T[i + 1])
  <2>1. /\ i + 1 \in 1..(Len(S) - 1) /\ i \in 1..(Len(S) - 1)
        /\ T[i] = S[i + 1] /\ T[i + 1] = S[(i + 1) + 1]
    BY <1>1
  <2> QED
    BY <2>1 DEF Nested
<1>3. T # << >> => T[Len(T)].k # "put" /\ Under(S[1], T[1])
  <2> SUFFICES ASSUME T # << >> PROVE T[Len(T)].k # "put" /\ Under(S[1], T[1])
    OBVIOUS
  <2>1. Len(T) \in 1..(Len(S) - 1) /\ 1 \in 1..(Len(S) - 1) /\ Len(T) + 1 = Len(S)
    BY <1>1
  <2>2. T[Len(T)] = S[Len(S)] /\ T[1] = S[1 + 1]
    BY <1>1, <2>1
  <2> QED
    BY <1>1, <2>1, <2>2 DEF Nested
<1>4. T = << >> => S[1].k # "put"
  BY <1>1 DEF Nested
<1> QED
  BY <1>1, <1>2, <1>3, <1>4 DEF Nested, T

-----------------------------------------------------------------------------
(* The list of the buffer. *)

LEMMA WithoutList ==
  ASSUME buffer \in Seq(Slot), IsInjective(buffer), NEW s
  PROVE  /\ Without(s) \in Seq(Slot) /\ IsInjective(Without(s))
         /\ ToSet(Without(s)) = Buffered \ {s}
<1>1. CASE s \notin Buffered
  BY <1>1 DEF Without, Buffered
<1>2. CASE s \in Buffered
  <2> DEFINE k == CHOOSE i \in DOMAIN buffer : buffer[i] = s
  <2>1. k \in 1..Len(buffer) /\ buffer[k] = s
    <3>1. \E i \in DOMAIN buffer : buffer[i] = s
      BY <1>2 DEF Buffered, ToSet
    <3> QED
      BY <3>1
  <2>2. Without(s) = RemoveAt(buffer, k)
    BY <1>2 DEF Without
  <2> HIDE DEF k
  <2> QED
    BY <2>1, <2>2, RemovedAt DEF Buffered
<1> QED
  BY <1>1, <1>2

LEMMA FilledList ==
  ASSUME buffer \in Seq(Slot), IsInjective(buffer), NEW s \in Slot, s \notin Buffered,
         NEW first, NEW b, b = IF first THEN <<s>> \o buffer ELSE Append(buffer, s)
  PROVE  b \in Seq(Slot) /\ IsInjective(b) /\ ToSet(b) = Buffered \cup {s}
<1> DEFINE n == Len(buffer)
<1>1. n \in Nat /\ DOMAIN buffer = 1..n /\ \A i \in 1..n : buffer[i] \in Slot /\ buffer[i] # s
  BY DEF Buffered, ToSet
<1>2. \A i, j \in 1..n : buffer[i] = buffer[j] => i = j
  BY <1>1 DEF IsInjective
<1>3. CASE first
  <2>1. /\ b \in Seq(Slot) /\ Len(b) = n + 1 /\ b[1] = s
        /\ \A i \in 1..n : b[i + 1] = buffer[i]
        /\ ToSet(b) = {s} \cup ToSet(buffer)
    BY <1>3, Pushed
  <2>2. IsInjective(b)
    <3> SUFFICES ASSUME NEW i \in 1..(n + 1), NEW j \in 1..(n + 1), b[i] = b[j] PROVE i = j
      BY <2>1 DEF IsInjective
    <3>1. \A k \in 1..(n + 1) : k = 1 \/ (k - 1 \in 1..n /\ (k - 1) + 1 = k)
      BY <1>1
    <3>2. \A k \in 1..(n + 1) :
            \/ k = 1 /\ b[k] = s
            \/ k - 1 \in 1..n /\ b[k] = buffer[k - 1]
      BY <2>1, <3>1
    <3> QED
      BY <1>1, <1>2, <3>2
  <2> QED
    BY <2>1, <2>2 DEF Buffered
<1>4. CASE ~first
  <2>1. /\ b \in Seq(Slot) /\ Len(b) = n + 1 /\ b[n + 1] = s /\ DOMAIN b = 1..(n + 1)
        /\ \A i \in 1..n : b[i] = buffer[i]
    BY <1>1, <1>4, AppendProperties
  <2>2. \A k \in 1..(n + 1) : k = n + 1 \/ k \in 1..n
    BY <1>1
  <2>3. IsInjective(b)
    <3> SUFFICES ASSUME NEW i \in 1..(n + 1), NEW j \in 1..(n + 1), b[i] = b[j] PROVE i = j
      BY <2>1 DEF IsInjective
    <3> QED
      BY <1>1, <1>2, <2>1, <2>2
  <2>4. ToSet(b) = {s} \cup ToSet(buffer)
    <3>1. n + 1 \in 1..(n + 1) /\ \A i \in 1..n : i \in 1..(n + 1)
      BY <1>1
    <3>2. ToSet(b) \subseteq {s} \cup ToSet(buffer)
      BY <1>1, <2>1, <2>2 DEF ToSet
    <3>3. {s} \cup ToSet(buffer) \subseteq ToSet(b)
      BY <1>1, <2>1, <3>1 DEF ToSet
    <3> QED
      BY <3>2, <3>3
  <2> QED
    BY <2>1, <2>3, <2>4 DEF Buffered
<1> QED
  BY <1>3, <1>4

-----------------------------------------------------------------------------
(* Frames, and what a step may do to the stack. *)

LEMMA FrameFields ==
  ASSUME NEW f \in Frame
  PROVE  /\ f.k \in {"run", "put", "timeout"} \cup ThreadKind
         /\ f.k = "run" => /\ f.p \in Client /\ f.want \in Pointer /\ f.got \in Pointer
                           /\ f.why \in {"own", "timeout"} \cup Message
         /\ f.k = "put" => /\ f.proc \in Client \cup {NULL}
                           /\ f.important \in BOOLEAN /\ f.d \in Device
         /\ f.k = "putin" => f.id \in Nat /\ f.ignored \in BOOLEAN
         /\ f.k = "timeout" => f.s \in Slot /\ f.told \in BOOLEAN
         /\ f.k = "thread" => f.data \in Readable \cup {NoData, Data("garbage", -1)}
         /\ f.k \in ThreadKind => f.d \in Device
BY DEF Frame, ThreadKind

LEMMA FramesBuilt ==
  /\ \A p \in Client, w, g \in Pointer, y \in {"own", "timeout"} \cup Message :
       Run(p, w, g, y) \in Frame
  /\ \A p \in Client \cup {NULL}, i \in BOOLEAN, d \in Device : Put(p, i, d) \in Frame
  /\ \A d \in Device, id \in Nat, i \in BOOLEAN : PutIn(d, id, i) \in Frame
  /\ \A s \in Slot, t \in BOOLEAN : Timeout(s, t) \in Frame
  /\ \A d \in Device, x \in Readable \cup {NoData, Data("garbage", -1)} :
       Thread(d, x) \in Frame
  /\ \A d \in Device : Answered(d) \in Frame /\ Ignored(d) \in Frame /\ Send(d) \in Frame
BY DEF Frame, Run, Put, PutIn, Timeout, Thread, Answered, Ignored, Send

LEMMA SameFrames == UNCHANGED use => Frame' = Frame /\ Slot' = Slot /\ Pointer' = Pointer
BY DEF Frame, Slot, Pointer

LEMMA TopFrame ==
  ASSUME StackOK, stack # << >>
  PROVE  /\ stack[1] \in Frame /\ stack[1] \in ToSet(stack)
         /\ Tail(stack) \in Seq(Frame) /\ Nested(Tail(stack))
         /\ ToSet(stack) = {stack[1]} \cup ToSet(Tail(stack))
         /\ Tail(stack) # << >> => Under(stack[1], Tail(stack)[1])
         /\ Tail(stack) = << >> => ToSet(Tail(stack)) = {} /\ stack[1].k # "put"
         /\ stack[1].k \in ThreadKind => Tail(stack) = << >>
<1>1. /\ stack[1] \in Frame
      /\ Tail(stack) \in Seq(Frame) /\ Nested(Tail(stack))
      /\ ToSet(stack) = {stack[1]} \cup ToSet(Tail(stack))
      /\ Tail(stack) # << >> => Under(stack[1], Tail(stack)[1])
      /\ Tail(stack) = << >> => stack[1].k # "put"
  BY PopNested DEF StackOK
<1>2. Tail(stack) = << >> => ToSet(Tail(stack)) = {}
  BY DEF ToSet
<1> QED
  BY <1>1, <1>2 DEF Under, ThreadKind

LEMMA CallStack ==
  ASSUME StackOK, UNCHANGED use, NEW f \in Frame, Fits(f, stack), Call(f)
  PROVE  StackOK' /\ stack' # << >> /\ stack'[1] = f /\ ToSet(stack') = {f} \cup ToSet(stack)
<1>1. stack' = <<f>> \o stack
  BY DEF Call
<1>2. Nested(stack') /\ stack' \in Seq(Frame)
  BY <1>1, PushNested DEF StackOK
<1>3. stack' # << >> /\ stack'[1] = f /\ ToSet(stack') = {f} \cup ToSet(stack)
  BY <1>1, Pushed DEF StackOK
<1> QED
  BY <1>2, <1>3, SameFrames DEF StackOK

LEMMA BecomeStack ==
  ASSUME StackOK, UNCHANGED use, stack # << >>, NEW f \in Frame,
         Fits(f, Tail(stack)), Become(f)
  PROVE  /\ StackOK' /\ stack' # << >> /\ stack'[1] = f
         /\ ToSet(stack') = {f} \cup ToSet(Tail(stack))
<1> DEFINE S == Tail(stack)
           T == <<f>> \o S
<1>1. stack' = T
  BY DEF Become
<1>2. S \in Seq(Frame) /\ Nested(S) /\ Fits(f, S)
  BY TopFrame
<1> HIDE DEF S
<1>3. Nested(T) /\ T \in Seq(Frame)
  BY <1>2, PushNested
<1>4. T # << >> /\ T[1] = f /\ ToSet(T) = {f} \cup ToSet(S)
  BY <1>2, Pushed
<1> HIDE DEF T
<1> QED
  BY <1>1, <1>3, <1>4, SameFrames DEF StackOK, S

LEMMA ReturnStack ==
  ASSUME StackOK, UNCHANGED use, stack # << >>, Return
  PROVE  StackOK' /\ ToSet(stack') = ToSet(Tail(stack))
BY TopFrame, SameFrames DEF Return, StackOK

\* A process that is resumed runs above the one that posted.
LEMMA PostStack ==
  ASSUME StackOK, UNCHANGED use, stack # << >>, NEW p \in Client, awaits[p] \in Pointer,
         NEW s \in Pointer, NEW why \in {"timeout"} \cup Message, NEW f \in Frame,
         Fits(f, Tail(stack)), Fits(Run(p, awaits[p], s, why), <<f>>),
         Post(p, s, why, f)
  PROVE  /\ StackOK' /\ stack' # << >>
         /\ ToSet(stack') \subseteq
              {Run(p, awaits[p], s, why), f} \cup ToSet(Tail(stack))
         /\ f \in ToSet(stack') /\ ToSet(Tail(stack)) \subseteq ToSet(stack')
<1>1. CASE awaits[p] = NULL
  BY <1>1, BecomeStack DEF Post
<1>2. CASE awaits[p] # NULL
  <2> DEFINE S == <<f>> \o Tail(stack)
             r == Run(p, awaits[p], s, why)
  <2>1. stack' = <<r>> \o S
    BY <1>2 DEF Post
  <2>2. Tail(stack) \in Seq(Frame) /\ Nested(Tail(stack))
    BY TopFrame
  <2>3. Nested(S) /\ S \in Seq(Frame)
    BY <2>2, PushNested
  <2>4. S # << >> /\ S[1] = f /\ ToSet(S) = {f} \cup ToSet(Tail(stack))
    BY <2>2, Pushed
  <2>5. r \in Frame
    BY FramesBuilt
  <2> HIDE DEF S
  <2>6. Fits(r, S)
    BY <2>4 DEF Fits, Under
  <2> HIDE DEF r
  <2>7. Nested(stack') /\ stack' \in Seq(Frame)
    BY <2>1, <2>3, <2>5, <2>6, PushNested
  <2>8. stack' # << >> /\ ToSet(stack') = {r} \cup ToSet(S)
    BY <2>1, <2>3, <2>5, Pushed
  <2> QED
    BY <2>4, <2>7, <2>8, SameFrames DEF StackOK, r
<1> QED
  BY <1>1, <1>2

-----------------------------------------------------------------------------
(* Types. *)

LEMMA TypeFields ==
  ASSUME TypeOK
  PROVE  /\ use.slots \in Nat \ {0} /\ use.devices \subseteq Device
         /\ use.puts \subseteq Kind /\ use.nested \subseteq Kind
         /\ 1 \in Slot /\ Slot \subseteq Nat /\ SD \notin Slot /\ NULL \notin Slot
         /\ NULL # SD /\ NULL \notin Client
         /\ \A s \in Slot \cup {SD} : mem[s] \in Packet
         /\ Buffered \subseteq Slot /\ Free \subseteq Slot
<1>1. use \in [slots : Nat \ {0}, devices : SUBSET Device, puts : SUBSET Kind, nested : SUBSET Kind]
  BY UsesAssumption DEF TypeOK
<1>2. Buffered \subseteq Slot /\ Free \subseteq Slot
  BY DEF TypeOK, Buffered, ToSet, Free
<1>3. use.slots \in Nat \ {0} /\ 1 \in Slot /\ Slot \subseteq Nat
  BY <1>1 DEF Slot
<1>4. SD \notin Slot /\ NULL \notin Slot /\ NULL # SD /\ NULL \notin Client
  BY <1>3, NullAssumption
<1>5. \A s \in Slot \cup {SD} : mem[s] \in Packet
  BY DEF TypeOK
<1> QED
  BY <1>1, <1>2, <1>3, <1>4, <1>5

\* A step that only moves frames.
LEMMA OnlyStack ==
  ASSUME TypeInv, UNCHANGED use, UNCHANGED <<packetVars, sd, deviceVars>>,
         awaits' \in [Client -> Slot \cup {NULL}], StackOK',
         \A f \in ToSet(stack') : f.k \in ThreadKind =>
            f \in ToSet(stack) \/ place[f.d] = "wait"
  PROVE  TypeInv'
<1>1. TypeOK'
  BY SameFrames DEF TypeInv, TypeOK, packetVars, deviceVars
<1>2. ThreadAtWait'
  BY DEF TypeInv, ThreadAtWait, deviceVars
<1>3. SendHasPacket'
  BY DEF TypeInv, SendHasPacket, deviceVars
<1> QED
  BY <1>1, <1>2, <1>3 DEF TypeInv

LEMMA ClientRunsTyped ==
  ASSUME TypeInv, UNCHANGED use, NEW p \in Client, ClientRuns(p)
  PROVE  TypeInv'
<1> DEFINE f == Run(p, NULL, NULL, "own")
<1>1. f \in Frame
  BY FramesBuilt DEF Pointer
<1>2. Fits(f, stack) /\ Call(f)
  BY DEF ClientRuns, Idle, Fits, Run
<1>3. StackOK' /\ ToSet(stack') = {f} \cup ToSet(stack)
  BY <1>1, <1>2, CallStack DEF TypeInv
<1>4. f.k \notin ThreadKind
  BY DEF Run, ThreadKind
<1> QED
  BY <1>3, <1>4, OnlyStack DEF ClientRuns, TypeInv, TypeOK

LEMMA ClientPutsTyped ==
  ASSUME TypeInv, UNCHANGED use, NEW kind \in Kind, NEW d \in Device, ClientPuts(kind, d)
  PROVE  TypeInv'
<1> DEFINE f == Put(IF kind = "send" THEN stack[1].p ELSE NULL, kind # "buffer", d)
<1>1. stack # << >> /\ stack[1].k = "run" /\ stack[1].p \in Client
  BY TopFrame, FrameFields DEF ClientPuts, Top, TypeInv
<1>2. f \in Frame
  BY <1>1, FramesBuilt
<1>3. Fits(f, stack) /\ Call(f)
  BY <1>1 DEF ClientPuts, Fits, Put, Under
<1>4. StackOK' /\ ToSet(stack') = {f} \cup ToSet(stack)
  BY <1>2, <1>3, CallStack DEF TypeInv
<1>5. f.k \notin ThreadKind
  BY DEF Put, ThreadKind
<1> QED
  BY <1>4, <1>5, OnlyStack DEF ClientPuts, TypeInv, TypeOK

LEMMA ClientReturnsTyped ==
  ASSUME TypeInv, UNCHANGED use, ClientReturns
  PROVE  TypeInv'
<1>1. stack # << >> /\ Return
  BY DEF ClientReturns, Top
<1>2. StackOK' /\ ToSet(stack') \subseteq ToSet(stack)
  BY <1>1, ReturnStack, TopFrame DEF TypeInv
<1> QED
  BY <1>2, OnlyStack DEF ClientReturns, TypeInv, TypeOK

LEMMA PutEvictsTyped ==
  ASSUME TypeInv, UNCHANGED use, PutEvicts
  PROVE  TypeInv'
<1>1. stack # << >> /\ stack[1].k \in {"put", "putin"} /\ stack[1] \in Frame
  BY TopFrame DEF PutEvicts, Top, TypeInv
<1>2. 1 \in Slot /\ Evict \in Frame
  BY TypeFields, FramesBuilt DEF Evict, TypeInv
<1>3. Fits(Evict, stack) /\ Call(Evict)
  BY <1>1 DEF PutEvicts, Fits, Evict, Timeout, Under
<1>4. StackOK' /\ ToSet(stack') = {Evict} \cup ToSet(stack)
  BY <1>2, <1>3, CallStack DEF TypeInv
<1>5. /\ cur' \in [Device -> Slot \cup {SD, NULL}]
      /\ \A d \in Device : cur[d] # NULL => cur'[d] # NULL
  <2>1. cur' = cur \/ \E d \in Device : cur' = [cur EXCEPT ![d] = 1]
    BY <1>1, FrameFields DEF PutEvicts, ThreadKind
  <2> QED
    BY <1>2, <2>1, TypeFields DEF TypeInv, TypeOK
<1>6. TypeOK'
  BY <1>5, SameFrames DEF PutEvicts, packetVars, TypeInv, TypeOK
<1>7. ThreadAtWait'
  BY <1>4 DEF PutEvicts, TypeInv, ThreadAtWait, Evict, Timeout, ThreadKind
<1>8. SendHasPacket'
  BY <1>5 DEF PutEvicts, TypeInv, SendHasPacket
<1> QED
  BY <1>4, <1>6, <1>7, <1>8 DEF TypeInv

\* What the two ways to fill a slot have in common.
LEMMA FillTyped ==
  ASSUME TypeOK, UNCHANGED use, NEW s \in Slot, s \in Free, NEW x \in Packet,
         NEW first \in BOOLEAN, Fill(s, x, first)
  PROVE  /\ mem' \in [Slot \cup {SD} -> Packet] /\ timer' \in [Slot \cup {SD} -> -1..Ticks]
         /\ buffer' \in Seq(Slot) /\ IsInjective(buffer')
         /\ ToSet(buffer') = Buffered \cup {s}
         /\ mem' = [mem EXCEPT ![s] = x]
<1>1. Ticks \in -1..Ticks
  BY SizeAssumption
<1>2. buffer' \in Seq(Slot) /\ IsInjective(buffer') /\ ToSet(buffer') = Buffered \cup {s}
  <2>1. s \notin Buffered /\ buffer \in Seq(Slot) /\ IsInjective(buffer)
    BY DEF Free, TypeOK
  <2>2. buffer' = IF first THEN <<s>> \o buffer ELSE Append(buffer, s)
    BY DEF Fill
  <2> QED
    BY <2>1, <2>2, FilledList
<1> QED
  BY <1>1, <1>2 DEF Fill, TypeOK

LEMMA PutFillsStack ==
  ASSUME StackOK, UNCHANGED use, TypeOK, PutFills
  PROVE  /\ StackOK' /\ stack # << >> /\ stack[1] \in Frame /\ stack[1].k = "put"
         /\ stack[1].proc \in Client \cup {NULL} /\ stack[1].d \in Device
         /\ stack[1].important \in BOOLEAN
         /\ stack[1].proc = NULL => stack' = Tail(stack)
         /\ stack[1].proc # NULL =>
              /\ stack' = Tail(Tail(stack)) /\ Tail(stack) # << >>
              /\ Tail(stack)[1].k = "run" /\ Tail(stack)[1].p = stack[1].proc
         /\ ToSet(stack') \subseteq ToSet(stack)
<1>1. stack # << >> /\ stack[1].k = "put"
  BY DEF PutFills, Top
<1>2. /\ stack[1] \in Frame /\ stack[1].proc \in Client \cup {NULL} /\ stack[1].d \in Device
      /\ stack[1].important \in BOOLEAN
  BY <1>1, TopFrame, FrameFields
<1>3. Tail(stack) # << >> /\ Tail(stack)[1].k = "run" /\ stack[1].proc \in {NULL, Tail(stack)[1].p}
  BY <1>1, TopFrame DEF Under
<1>4. /\ Tail(stack) \in Seq(Frame) /\ Nested(Tail(stack))
      /\ ToSet(stack) = {stack[1]} \cup ToSet(Tail(stack))
  BY <1>1, TopFrame
<1>5. /\ Tail(Tail(stack)) \in Seq(Frame) /\ Nested(Tail(Tail(stack)))
      /\ ToSet(Tail(Tail(stack))) \subseteq ToSet(Tail(stack))
  BY <1>3, <1>4, PopNested
<1>6. /\ stack[1].proc = NULL => stack' = Tail(stack)
      /\ stack[1].proc # NULL => stack' = Tail(Tail(stack))
  BY DEF PutFills, Return
<1> QED
  BY <1>1, <1>2, <1>3, <1>4, <1>5, <1>6, SameFrames DEF StackOK

LEMMA PutFillsData ==
  ASSUME TypeOK, StackOK, UNCHANGED use, PutFills
  PROVE  \E s \in Slot, id \in Nat :
           LET x == [proc |-> stack[1].proc, id |-> id, dest |-> stack[1].d,
                     send |-> FALSE, incoming |-> FALSE, important |-> stack[1].important]
           IN  /\ s \in Free /\ NewId(id) /\ x \in Packet
               /\ mem' \in [Slot \cup {SD} -> Packet]
               /\ timer' \in [Slot \cup {SD} -> -1..Ticks]
               /\ buffer' \in Seq(Slot) /\ IsInjective(buffer')
               /\ ToSet(buffer') = Buffered \cup {s}
               /\ mem' = [mem EXCEPT ![s] = x]
               /\ awaits' = IF stack[1].proc = NULL THEN awaits
                            ELSE [awaits EXCEPT ![stack[1].proc] = s]
<1> DEFINE x(id) == [proc |-> stack[1].proc, id |-> id, dest |-> stack[1].d,
                     send |-> FALSE, incoming |-> FALSE, important |-> stack[1].important]
<1>1. PICK s \in Slot, id \in 0..(NumIds - 1) :
        /\ FirstFree(s) /\ NewId(id) /\ Fill(s, x(id), stack[1].important)
        /\ \/ stack[1].proc = NULL /\ UNCHANGED awaits
           \/ stack[1].proc # NULL /\ awaits' = [awaits EXCEPT ![stack[1].proc] = s]
  BY DEF PutFills
<1>2. id \in Nat /\ s \in Free
  BY <1>1 DEF FirstFree
<1>3. x(id) \in Packet /\ stack[1].important \in BOOLEAN
  BY <1>2, PutFillsStack DEF Packet
<1> HIDE DEF x
<1>4. /\ mem' \in [Slot \cup {SD} -> Packet]
      /\ timer' \in [Slot \cup {SD} -> -1..Ticks]
      /\ buffer' \in Seq(Slot) /\ IsInjective(buffer')
      /\ ToSet(buffer') = Buffered \cup {s}
      /\ mem' = [mem EXCEPT ![s] = x(id)]
  <2> DEFINE y == x(id)
             first == stack[1].important
  <2>1. y \in Packet /\ first \in BOOLEAN /\ Fill(s, y, first)
    BY <1>1, <1>3
  <2> HIDE DEF y, first
  <2>2. /\ mem' \in [Slot \cup {SD} -> Packet]
        /\ timer' \in [Slot \cup {SD} -> -1..Ticks]
        /\ buffer' \in Seq(Slot) /\ IsInjective(buffer')
        /\ ToSet(buffer') = Buffered \cup {s}
        /\ mem' = [mem EXCEPT ![s] = y]
    <3>1. CASE first = TRUE
      BY <1>2, <2>1, <3>1, FillTyped
    <3>2. CASE first = FALSE
      BY <1>2, <2>1, <3>2, FillTyped
    <3> QED
      BY <2>1, <3>1, <3>2
  <2> QED
    BY <2>2 DEF y
<1>5. awaits' = IF stack[1].proc = NULL THEN awaits ELSE [awaits EXCEPT ![stack[1].proc] = s]
  BY <1>1
<1> QED
  BY <1>1, <1>2, <1>3, <1>4, <1>5 DEF x

LEMMA PutFillsTyped ==
  ASSUME TypeInv, UNCHANGED use, PutFills
  PROVE  TypeInv'
<1>1. StackOK' /\ ToSet(stack') \subseteq ToSet(stack) /\ stack[1].proc \in Client \cup {NULL}
  BY PutFillsStack DEF TypeInv
<1>2. /\ mem' \in [Slot \cup {SD} -> Packet]
      /\ timer' \in [Slot \cup {SD} -> -1..Ticks]
      /\ buffer' \in Seq(Slot) /\ IsInjective(buffer')
      /\ awaits' \in [Client -> Slot \cup {NULL}]
  <2>1. PICK s \in Slot :
          /\ mem' \in [Slot \cup {SD} -> Packet]
          /\ timer' \in [Slot \cup {SD} -> -1..Ticks]
          /\ buffer' \in Seq(Slot) /\ IsInjective(buffer')
          /\ awaits' = IF stack[1].proc = NULL THEN awaits
                       ELSE [awaits EXCEPT ![stack[1].proc] = s]
    BY PutFillsData DEF TypeInv
  <2> QED
    BY <1>1, <2>1 DEF TypeInv, TypeOK
<1>3. TypeOK'
  BY <1>2, SameFrames DEF PutFills, deviceVars, TypeInv, TypeOK
<1> QED
  BY <1>1, <1>3 DEF PutFills, deviceVars, TypeInv, ThreadAtWait, SendHasPacket

LEMMA ThreadTop ==
  ASSUME TypeInv, stack # << >>, stack[1].k \in ThreadKind
  PROVE  /\ stack[1] \in Frame /\ stack[1].d \in Device /\ place[stack[1].d] = "wait"
         /\ stack[1] \in ToSet(stack)
         /\ Tail(stack) = << >> /\ ToSet(Tail(stack)) = {} /\ ToSet(stack) = {stack[1]}
<1>1. /\ stack[1] \in Frame /\ stack[1] \in ToSet(stack) /\ Tail(stack) = << >>
      /\ ToSet(Tail(stack)) = {} /\ ToSet(stack) = {stack[1]} \cup ToSet(Tail(stack))
  BY TopFrame DEF TypeInv
<1> QED
  BY <1>1, FrameFields DEF TypeInv, ThreadAtWait

\* A step of SCP_handle_connection to another of its places.
LEMMA ThreadMoves ==
  ASSUME TypeInv, UNCHANGED use, stack # << >>, stack[1].k \in ThreadKind,
         NEW f \in Frame, f.k \in ThreadKind, Become(f)
  PROVE  StackOK' /\ stack' = <<f>> /\ ToSet(stack') = {f}
<1>1. Tail(stack) = << >> /\ ToSet(Tail(stack)) = {}
  BY ThreadTop
<1>2. Fits(f, Tail(stack))
  BY <1>1 DEF Fits, ThreadKind
<1>3. StackOK' /\ ToSet(stack') = {f}
  BY <1>1, <1>2, BecomeStack DEF TypeInv
<1>4. <<f>> \in Seq({f})
  OBVIOUS
<1>5. stack' = <<f>>
  BY <1>1, <1>4, ConcatEmptySeq DEF Become
<1> QED
  BY <1>3, <1>5

LEMMA PutInFillsData ==
  ASSUME TypeInv, UNCHANGED use, PutInFills
  PROVE  /\ stack # << >> /\ stack[1].k = "putin" /\ stack[1].d \in Device
         /\ place[stack[1].d] = "wait"
         /\ StackOK'
         /\ ToSet(stack') = {IF stack[1].ignored THEN Ignored(stack[1].d) ELSE Send(stack[1].d)}
         /\ \E s \in Slot :
              LET x == [proc |-> NULL, id |-> stack[1].id, dest |-> stack[1].d,
                        send |-> FALSE, incoming |-> TRUE, important |-> mem[s].important]
              IN  /\ s \in Free /\ x \in Packet
                  /\ mem' \in [Slot \cup {SD} -> Packet]
                  /\ timer' \in [Slot \cup {SD} -> -1..Ticks]
                  /\ buffer' \in Seq(Slot) /\ IsInjective(buffer')
                  /\ ToSet(buffer') = Buffered \cup {s}
                  /\ mem' = [mem EXCEPT ![s] = x]
                  /\ cur' = [cur EXCEPT ![stack[1].d] = s]
<1>1. stack # << >> /\ stack[1].k = "putin"
  BY DEF PutInFills, Top
<1>2. /\ stack[1].d \in Device /\ place[stack[1].d] = "wait" /\ stack[1].id \in Nat
      /\ stack[1] \in Frame
  BY <1>1, ThreadTop, FrameFields DEF ThreadKind
<1> DEFINE f == IF stack[1].ignored THEN Ignored(stack[1].d) ELSE Send(stack[1].d)
<1>3. f \in Frame /\ f.k \in ThreadKind
  <2>1. Ignored(stack[1].d) \in Frame /\ Send(stack[1].d) \in Frame
    BY <1>2, FramesBuilt
  <2>2. Ignored(stack[1].d).k \in ThreadKind /\ Send(stack[1].d).k \in ThreadKind
    BY DEF Ignored, Send, ThreadKind
  <2> QED
    BY <2>1, <2>2
<1>4. Become(f)
  BY DEF PutInFills
<1> HIDE DEF f
<1>5. StackOK' /\ ToSet(stack') = {f}
  BY <1>1, <1>3, <1>4, ThreadMoves DEF ThreadKind
<1> DEFINE x(s) == [proc |-> NULL, id |-> stack[1].id, dest |-> stack[1].d,
                    send |-> FALSE, incoming |-> TRUE, important |-> mem[s].important]
<1>6. PICK s \in Slot : FirstFree(s) /\ Fill(s, x(s), TRUE) /\ cur' = [cur EXCEPT ![stack[1].d] = s]
  BY DEF PutInFills
<1>7. x(s) \in Packet /\ s \in Free
  BY <1>2, <1>6, TypeFields DEF Packet, FirstFree, TypeInv
<1> HIDE DEF x
<1>8. /\ mem' \in [Slot \cup {SD} -> Packet]
      /\ timer' \in [Slot \cup {SD} -> -1..Ticks]
      /\ buffer' \in Seq(Slot) /\ IsInjective(buffer')
      /\ ToSet(buffer') = Buffered \cup {s}
      /\ mem' = [mem EXCEPT ![s] = x(s)]
  BY <1>6, <1>7, FillTyped DEF TypeInv
<1> QED
  BY <1>1, <1>2, <1>5, <1>6, <1>7, <1>8 DEF x, f

LEMMA PutInFillsTyped ==
  ASSUME TypeInv, UNCHANGED use, PutInFills
  PROVE  TypeInv'
<1>1. PICK s \in Slot :
        /\ mem' \in [Slot \cup {SD} -> Packet]
        /\ timer' \in [Slot \cup {SD} -> -1..Ticks]
        /\ buffer' \in Seq(Slot) /\ IsInjective(buffer')
        /\ cur' = [cur EXCEPT ![stack[1].d] = s]
  BY PutInFillsData
<1>2. /\ stack[1].d \in Device /\ place[stack[1].d] = "wait" /\ StackOK'
      /\ ToSet(stack') = {IF stack[1].ignored THEN Ignored(stack[1].d) ELSE Send(stack[1].d)}
  BY PutInFillsData
<1>3. \A f \in ToSet(stack') : f.d = stack[1].d
  BY <1>2 DEF Ignored, Send
<1>4. TypeOK'
  BY <1>1, <1>2, SameFrames DEF PutInFills, TypeInv, TypeOK
<1>5. ThreadAtWait'
  BY <1>2, <1>3 DEF PutInFills, ThreadAtWait
<1>6. SendHasPacket'
  <2>1. NULL \notin Slot
    BY TypeFields DEF TypeInv
  <2> QED
    BY <1>1, <2>1 DEF PutInFills, TypeInv, TypeOK, SendHasPacket
<1> QED
  BY <1>2, <1>4, <1>5, <1>6 DEF TypeInv

LEMMA TimeoutTop ==
  ASSUME TypeInv, Top("timeout")
  PROVE  /\ stack # << >> /\ stack[1].s \in Slot /\ stack[1].told \in BOOLEAN
         /\ stack[1] = Timeout(stack[1].s, stack[1].told)
         /\ mem[stack[1].s].proc \in Client \cup {NULL}
         /\ Fits(Timeout(stack[1].s, TRUE), Tail(stack))
<1>1. stack # << >> /\ stack[1].k = "timeout" /\ stack[1] \in Frame
  BY TopFrame DEF Top, TypeInv
<1>2. stack[1] = Timeout(stack[1].s, stack[1].told)
  BY <1>1 DEF Frame, Timeout
<1>3. stack[1].s \in Slot /\ stack[1].told \in BOOLEAN
  BY <1>1, FrameFields
<1>4. mem[stack[1].s].proc \in Client \cup {NULL}
  BY <1>3, TypeFields DEF TypeInv, Packet
<1>5. Fits(Timeout(stack[1].s, TRUE), Tail(stack))
  BY <1>1, TopFrame DEF Fits, Under, Timeout, TypeInv
<1> QED
  BY <1>1, <1>2, <1>3, <1>4, <1>5

LEMMA TimeoutTellsStack ==
  ASSUME TypeInv, UNCHANGED use, TimeoutTells
  PROVE  LET s == stack[1].s
             p == mem[s].proc
         IN  /\ p \in Client /\ StackOK'
             /\ ToSet(stack') \subseteq
                  {Run(p, awaits[p], s, "timeout"), Timeout(s, TRUE)} \cup ToSet(Tail(stack))
             /\ Timeout(s, TRUE) \in ToSet(stack') /\ ToSet(Tail(stack)) \subseteq ToSet(stack')
             /\ awaits' = [awaits EXCEPT ![p] = NULL]
<1> DEFINE s == stack[1].s
           p == mem[s].proc
           f == Timeout(s, TRUE)
<1>1. /\ stack # << >> /\ s \in Slot /\ p \in Client
      /\ Post(p, s, "timeout", f) /\ Fits(f, Tail(stack))
  BY TimeoutTop DEF TimeoutTells, Tell
<1>2. awaits[p] \in Pointer /\ s \in Pointer
  BY <1>1 DEF TypeInv, TypeOK, Pointer
<1>3. f \in Frame /\ Fits(Run(p, awaits[p], s, "timeout"), <<f>>)
  <2>1. f \in Frame
    BY <1>1, FramesBuilt
  <2> QED
    BY <2>1 DEF Fits, Under, Timeout, Run
<1>4. awaits' = [awaits EXCEPT ![p] = NULL]
  BY <1>1 DEF Post, TypeInv, TypeOK
<1> HIDE DEF s, p, f
<1>5. /\ StackOK'
      /\ ToSet(stack') \subseteq {Run(p, awaits[p], s, "timeout"), f} \cup ToSet(Tail(stack))
      /\ f \in ToSet(stack') /\ ToSet(Tail(stack)) \subseteq ToSet(stack')
  BY <1>1, <1>2, <1>3, PostStack DEF TypeInv
<1> QED
  BY <1>1, <1>4, <1>5 DEF s, p, f

LEMMA TimeoutTellsTyped ==
  ASSUME TypeInv, UNCHANGED use, TimeoutTells
  PROVE  TypeInv'
<1> DEFINE s == stack[1].s
           p == mem[s].proc
<1>1. /\ p \in Client /\ StackOK'
      /\ ToSet(stack') \subseteq
           {Run(p, awaits[p], s, "timeout"), Timeout(s, TRUE)} \cup ToSet(Tail(stack))
      /\ awaits' = [awaits EXCEPT ![p] = NULL]
  BY TimeoutTellsStack
<1>2. ToSet(Tail(stack)) \subseteq ToSet(stack)
  BY TopFrame DEF TimeoutTells, Top, TypeInv
<1>3. awaits' \in [Client -> Slot \cup {NULL}]
  BY <1>1 DEF TypeInv, TypeOK
<1>4. \A f \in ToSet(stack') : f.k \in ThreadKind => f \in ToSet(stack)
  BY <1>1, <1>2 DEF Run, Timeout, ThreadKind
<1> QED
  BY <1>1, <1>3, <1>4, OnlyStack DEF TimeoutTells

LEMMA TimeoutRemovesTyped ==
  ASSUME TypeInv, UNCHANGED use, TimeoutRemoves
  PROVE  TypeInv'
<1> DEFINE s == stack[1].s
<1>1. stack # << >> /\ s \in Slot /\ Return /\ mem[s] \in Packet
  BY TimeoutTop, TypeFields DEF TimeoutRemoves, TypeInv
<1>2. StackOK' /\ ToSet(stack') \subseteq ToSet(stack)
  BY <1>1, ReturnStack, TopFrame DEF TypeInv
<1>3. /\ sd' = Spilled(s) /\ buffer' = Without(s) /\ timer' = [timer EXCEPT ![s] = Ticks]
      /\ cur' = Unused(s) /\ state' = Closing(s)
  BY DEF TimeoutRemoves
<1> HIDE DEF s
<1>4. buffer' \in Seq(Slot) /\ IsInjective(buffer')
  BY <1>3, WithoutList DEF TypeInv, TypeOK
<1>5. sd' = NULL \/ sd' \in [id : Nat, dest : Device]
  BY <1>1, <1>3 DEF Spilled, Packet, TypeInv, TypeOK
<1>6. timer' \in [Slot \cup {SD} -> -1..Ticks]
  BY <1>1, <1>3, SizeAssumption DEF TypeInv, TypeOK
<1>7. /\ cur' \in [Device -> Slot \cup {SD, NULL}]
      /\ state' \in [Device -> Down \cup {"connecting", "connected", "timeout"}]
  BY <1>3 DEF Unused, Closing, TypeInv, TypeOK
<1>8. TypeOK'
  BY <1>4, <1>5, <1>6, <1>7, SameFrames DEF TimeoutRemoves, TypeInv, TypeOK
<1>9. ThreadAtWait'
  BY <1>2 DEF TimeoutRemoves, TypeInv, ThreadAtWait
<1>10. SendHasPacket'
  BY <1>3 DEF TimeoutRemoves, Unused, Closing, TypeInv, SendHasPacket
<1> QED
  BY <1>2, <1>8, <1>9, <1>10 DEF TypeInv

LEMMA SameStack == UNCHANGED <<use, stack>> /\ StackOK => StackOK' /\ ToSet(stack') = ToSet(stack)
BY SameFrames DEF StackOK

LEMMA TimerExpiresTyped ==
  ASSUME TypeInv, UNCHANGED use, NEW s, TimerExpires(s)
  PROVE  TypeInv'
<1>1. timer' \in [Slot \cup {SD} -> -1..Ticks]
  <2>1. -1 \in -1..Ticks
    BY SizeAssumption
  <2>2. timer \in [Slot \cup {SD} -> -1..Ticks] /\ timer' = [timer EXCEPT ![s] = -1]
    BY DEF TimerExpires, TypeInv, TypeOK
  <2> QED
    BY <2>1, <2>2
<1>2. TypeOK'
  BY <1>1, SameFrames DEF TimerExpires, deviceVars, TypeInv, TypeOK
<1> QED
  BY <1>2, SameStack DEF TimerExpires, deviceVars, TypeInv, ThreadAtWait, SendHasPacket

LEMMA TickStack ==
  ASSUME TypeInv, UNCHANGED use, NEW d, Tick(d)
  PROVE  /\ stack = << >> /\ StackOK'
         /\ stack' = << >> \/ \E s \in Buffered : FirstExpired(s) /\ stack' = <<Timeout(s, FALSE)>>
<1>1. stack = << >>
  BY DEF Tick, Idle
<1>2. CASE UNCHANGED stack
  BY <1>1, <1>2, SameStack DEF TypeInv
<1>3. CASE \E s \in Buffered : FirstExpired(s) /\ Call(Timeout(s, FALSE))
  <2>1. PICK s \in Buffered : FirstExpired(s) /\ Call(Timeout(s, FALSE))
    BY <1>3
  <2>2. Timeout(s, FALSE) \in Frame
    BY TypeFields, FramesBuilt DEF TypeInv
  <2>3. Fits(Timeout(s, FALSE), stack)
    BY <1>1 DEF Fits, Timeout
  <2>4. StackOK'
    BY <2>1, <2>2, <2>3, CallStack DEF TypeInv
  <2>5. stack' = <<Timeout(s, FALSE)>>
    BY <1>1, <2>1 DEF Call
  <2> QED
    BY <1>1, <2>1, <2>4, <2>5
<1> QED
  BY <1>2, <1>3 DEF Tick

LEMMA TickTyped ==
  ASSUME TypeInv, UNCHANGED use, NEW d \in Device, Tick(d)
  PROVE  TypeInv'
<1>1. state' \in [Device -> Down \cup {"connecting", "connected", "timeout"}]
      /\ \A e \in Device : state'[e] = "connected" => state[e] = "connected"
  BY DEF Tick, Down, TypeInv, TypeOK
<1>2. timer' \in [Slot \cup {SD} -> -1..Ticks]
  <2>1. \A x \in -1..Ticks : (IF x > 0 THEN x - 1 ELSE x) \in -1..Ticks
    BY SizeAssumption
  <2>2. timer' = [s \in Slot \cup {SD} |-> IF timer[s] > 0 THEN timer[s] - 1 ELSE timer[s]]
    BY DEF Tick
  <2>3. \A s \in Slot \cup {SD} : timer[s] \in -1..Ticks
    BY DEF TypeInv, TypeOK
  <2> QED
    BY <2>1, <2>2, <2>3
<1>3. mem' \in [Slot \cup {SD} -> Packet]
  <2>1. mem' = [mem EXCEPT ![SD].send = mem[SD].send /\ timer[SD] # -1]
    BY DEF Tick
  <2>2. mem[SD] \in Packet /\ (mem[SD].send /\ timer[SD] # -1) \in BOOLEAN
    BY DEF TypeInv, TypeOK
  <2> DEFINE b == mem[SD].send /\ timer[SD] # -1
  <2> HIDE DEF b
  <2>3. [mem[SD] EXCEPT !.send = b] \in Packet
    BY <2>2 DEF Packet, b
  <2>4. mem' = [mem EXCEPT ![SD] = [mem[SD] EXCEPT !.send = b]]
    BY <2>1 DEF b
  <2> QED
    BY <2>3, <2>4 DEF TypeInv, TypeOK
<1>4. TypeOK'
  BY <1>1, <1>2, <1>3, SameFrames DEF Tick, TypeInv, TypeOK
<1>5. ThreadAtWait'
  BY TickStack DEF ThreadAtWait, ThreadKind, Timeout, ToSet
<1>6. SendHasPacket'
  BY <1>1 DEF Tick, TypeInv, SendHasPacket
<1> QED
  BY <1>4, <1>5, <1>6, TickStack DEF TypeInv

LEMMA IncomingData ==
  ASSUME TypeOK, NEW d \in Device, NEW data \in Incoming(d)
  PROVE  /\ data \in Readable \cup {NoData, Data("garbage", -1)}
         /\ Thread(d, data) \in Frame /\ data.id \in Nat \cup {-1}
<1>1. answers[d] \subseteq Nat
  BY DEF TypeOK
<1>2. data \in Readable \cup {NoData, Data("garbage", -1)}
  BY <1>1, ServerAssumption DEF Incoming, Data, NoData, Readable, Message
<1>3. data.id \in Nat \cup {-1}
  BY <1>2 DEF Readable, NoData, Data
<1> QED
  BY <1>2, <1>3, FramesBuilt

\* An event of a connection that the protothread takes.
LEMMA ReceivedStack ==
  ASSUME TypeInv, UNCHANGED use, Idle, NEW d \in Device, NEW data \in Incoming(d),
         Call(Thread(d, data))
  PROVE  /\ StackOK' /\ stack = << >> /\ stack' = <<Thread(d, data)>>
         /\ ToSet(stack') = {Thread(d, data)}
<1>1. Thread(d, data) \in Frame
  BY IncomingData DEF TypeInv
<1>2. stack = << >> /\ ToSet(stack) = {}
  BY DEF Idle, ToSet
<1>3. Fits(Thread(d, data), stack)
  BY <1>2 DEF Fits, Thread
<1>4. StackOK' /\ ToSet(stack') = {Thread(d, data)} \cup ToSet(stack)
  BY <1>1, <1>3, CallStack DEF TypeInv
<1>5. stack' = <<Thread(d, data)>>
  BY <1>2 DEF Call
<1> QED
  BY <1>2, <1>4, <1>5

LEMMA ReceiveTyped ==
  ASSUME TypeInv, UNCHANGED use, NEW d \in Device, NEW data \in Incoming(d), Receive(d, data)
  PROVE  TypeInv'
<1>1. StackOK' /\ ToSet(stack') = {Thread(d, data)} /\ place[d] = "wait"
  BY ReceivedStack DEF Receive
<1>2. TypeOK'
  BY SameFrames DEF Receive, packetVars, TypeInv, TypeOK
<1>3. ThreadAtWait'
  BY <1>1 DEF Receive, ThreadAtWait, Thread
<1> QED
  BY <1>1, <1>2, <1>3 DEF Receive, TypeInv, SendHasPacket

LEMMA AckedTyped ==
  ASSUME TypeInv, UNCHANGED use, NEW d \in Device, NEW data \in Incoming(d), Acked(d, data)
  PROVE  TypeInv'
<1>1. StackOK' /\ ToSet(stack') = {Thread(d, data)}
  BY ReceivedStack DEF Acked
<1>2. cur[d] \in Slot \cup {SD} /\ place' = [place EXCEPT ![d] = "wait"]
  BY DEF Acked, TypeInv, TypeOK, SendHasPacket
<1>3. buffer' \in Seq(Slot) /\ IsInjective(buffer')
  BY WithoutList DEF Acked, TypeInv, TypeOK
<1>4. /\ cur' \in [Device -> Slot \cup {SD, NULL}] /\ last' \in [Device -> Slot \cup {SD, NULL}]
      /\ \A e \in Device : e # d => cur'[e] = cur[e]
  BY DEF Acked, TypeInv, TypeOK
<1>5. TypeOK'
  BY <1>2, <1>3, <1>4, SameFrames DEF Acked, TypeInv, TypeOK
<1>6. place'[d] = "wait" /\ \A e \in Device : e # d => place'[e] = place[e]
  BY <1>2 DEF TypeInv, TypeOK
<1>7. ThreadAtWait'
  BY <1>1, <1>6 DEF ThreadAtWait, Thread
<1>8. SendHasPacket'
  BY <1>4, <1>6 DEF Acked, TypeInv, SendHasPacket
<1> QED
  BY <1>1, <1>5, <1>7, <1>8 DEF TypeInv

LEMMA ThreadWaitsTyped ==
  ASSUME TypeInv, UNCHANGED use, ThreadWaits
  PROVE  TypeInv'
<1>1. /\ stack # << >> /\ stack[1].k \in ThreadKind /\ stack[1].d \in Device
      /\ place[stack[1].d] = "wait" /\ ToSet(Tail(stack)) = {}
  BY ThreadTop DEF ThreadWaits, Top, ThreadKind
<1> DEFINE f == Send(stack[1].d)
<1>2. f \in Frame /\ f.k \in ThreadKind
  BY <1>1, FramesBuilt DEF Send, ThreadKind
<1>3. StackOK' /\ ToSet(stack') \subseteq {f}
  <2>1. CASE Become(f)
    <3> HIDE DEF f
    <3> QED
      BY <1>1, <1>2, <2>1, ThreadMoves
  <2>2. CASE Return
    BY <1>1, <2>2, ReturnStack DEF TypeInv
  <2> QED
    BY <2>1, <2>2 DEF ThreadWaits
<1>4. \A g \in ToSet(stack') : place[g.d] = "wait"
  BY <1>1, <1>3 DEF Send
<1> QED
  BY <1>3, <1>4, OnlyStack DEF ThreadWaits, TypeInv, TypeOK

LEMMA ThreadParseErrorTyped ==
  ASSUME TypeInv, UNCHANGED use, ThreadParseError
  PROVE  TypeInv'
<1>1. /\ stack # << >> /\ stack[1].k \in ThreadKind /\ stack[1].d \in Device
      /\ place[stack[1].d] = "wait" /\ ToSet(Tail(stack)) = {} /\ Return
  BY ThreadTop DEF ThreadParseError, Top, ThreadKind
<1>2. StackOK' /\ ToSet(stack') = {}
  BY <1>1, ReturnStack DEF TypeInv
<1>3. TypeOK'
  BY <1>1, SameFrames DEF ThreadParseError, packetVars, TypeInv, TypeOK
<1>4. SendHasPacket'
  BY <1>1 DEF ThreadParseError, TypeInv, TypeOK, SendHasPacket
<1> QED
  BY <1>2, <1>3, <1>4 DEF TypeInv, ThreadAtWait

LEMMA ThreadReplyStack ==
  ASSUME TypeInv, UNCHANGED use, ThreadReply
  PROVE  LET d == stack[1].d
             s == last[d]
             p == mem[s].proc
             why == stack[1].data.k
         IN  /\ stack # << >> /\ stack[1] \in Frame /\ stack[1].k = "thread"
             /\ d \in Device /\ place[d] = "wait" /\ why \in Message
             /\ s \in Slot \cup {SD} /\ mem[s].dest = d /\ mem[s].id = stack[1].data.id
             /\ cur' = [cur EXCEPT ![d] = s]
             /\ StackOK'
             /\ \/ /\ ~mem[s].incoming /\ p \in Client
                   /\ ToSet(stack') \subseteq {Run(p, awaits[p], s, why), Answered(d)}
                   /\ Answered(d) \in ToSet(stack')
                   /\ awaits' = [awaits EXCEPT ![p] = NULL]
                \/ /\ ~mem[s].incoming /\ p = NULL
                   /\ stack' = <<Answered(d)>> /\ ToSet(stack') = {Answered(d)}
                   /\ awaits' = awaits
                \/ /\ mem[s].incoming
                   /\ stack' = <<Send(d)>> /\ ToSet(stack') = {Send(d)}
                   /\ awaits' = awaits
<1> DEFINE d == stack[1].d
           s == last[d]
           p == mem[s].proc
           why == stack[1].data.k
<1>1. /\ stack # << >> /\ stack[1] \in Frame /\ stack[1].k = "thread" /\ stack[1].k \in ThreadKind
      /\ d \in Device /\ place[d] = "wait" /\ Tail(stack) = << >> /\ ToSet(Tail(stack)) = {}
  BY ThreadTop DEF ThreadReply, Top, ThreadKind
<1>2. why \in Message
  BY DEF ThreadReply
<1>3. s \in Slot \cup {SD} /\ mem[s].dest = d /\ mem[s].id = stack[1].data.id
  BY <1>1 DEF ThreadReply, IsReply, TypeInv, TypeOK
<1>4. p \in Client \cup {NULL} /\ s \in Pointer
  BY <1>3, TypeFields DEF TypeInv, Packet, Pointer
<1>5. /\ Answered(d) \in Frame /\ Answered(d).k \in ThreadKind
      /\ Send(d) \in Frame /\ Send(d).k \in ThreadKind
  BY <1>1, FramesBuilt DEF Answered, Send, ThreadKind
<1>6. /\ cur' = [cur EXCEPT ![d] = s]
      /\ \/ ~mem[s].incoming /\ p # NULL /\ Post(p, s, why, Answered(d))
         \/ ~mem[s].incoming /\ p = NULL /\ Become(Answered(d)) /\ awaits' = awaits
         \/ mem[s].incoming /\ Become(Send(d)) /\ awaits' = awaits
  BY DEF ThreadReply
<1>7. CASE ~mem[s].incoming /\ p # NULL /\ Post(p, s, why, Answered(d))
  <2>1. p \in Client /\ awaits[p] \in Pointer
    BY <1>4, <1>7 DEF TypeInv, TypeOK, Pointer
  <2>2. Fits(Answered(d), Tail(stack)) /\ Fits(Run(p, awaits[p], s, why), <<Answered(d)>>)
    BY <1>1, <1>2 DEF Fits, Under, Answered, Run
  <2>3. awaits' = [awaits EXCEPT ![p] = NULL]
    BY <1>7, <2>1 DEF Post, TypeInv, TypeOK
  <2> DEFINE f == Answered(d)
  <2>4. f \in Frame /\ Fits(f, Tail(stack)) /\ Fits(Run(p, awaits[p], s, why), <<f>>) /\ Post(p, s, why, f)
    BY <1>5, <1>7, <2>2
  <2> HIDE DEF f, p, why, s
  <2>5. /\ StackOK'
        /\ ToSet(stack') \subseteq {Run(p, awaits[p], s, why), f} \cup ToSet(Tail(stack))
        /\ f \in ToSet(stack')
    BY <1>1, <1>2, <1>4, <2>1, <2>4, PostStack DEF TypeInv
  <2>6. ToSet(stack') \subseteq {Run(p, awaits[p], s, why), f}
    BY <1>1, <2>5
  <2> QED
    BY <1>1, <1>2, <1>3, <1>6, <1>7, <2>1, <2>3, <2>5, <2>6 DEF f, p, why, s
<1>8. CASE ~mem[s].incoming /\ p = NULL /\ Become(Answered(d)) /\ awaits' = awaits
  <2> DEFINE f == Answered(d)
  <2>1. Become(f) /\ f \in Frame /\ f.k \in ThreadKind
    BY <1>5, <1>8
  <2> HIDE DEF f
  <2>2. StackOK' /\ stack' = <<f>> /\ ToSet(stack') = {f}
    BY <1>1, <2>1, ThreadMoves
  <2> QED
    BY <1>1, <1>2, <1>3, <1>6, <1>8, <2>2 DEF f
<1>9. CASE mem[s].incoming /\ Become(Send(d)) /\ awaits' = awaits
  <2> DEFINE f == Send(d)
  <2>1. Become(f) /\ f \in Frame /\ f.k \in ThreadKind
    BY <1>5, <1>9
  <2> HIDE DEF f
  <2>2. StackOK' /\ stack' = <<f>> /\ ToSet(stack') = {f}
    BY <1>1, <2>1, ThreadMoves
  <2> QED
    BY <1>1, <1>2, <1>3, <1>6, <1>9, <2>2 DEF f
<1> QED
  BY <1>6, <1>7, <1>8, <1>9

LEMMA ThreadReplyTyped ==
  ASSUME TypeInv, UNCHANGED use, ThreadReply
  PROVE  TypeInv'
<1> DEFINE d == stack[1].d
           s == last[d]
           p == mem[s].proc
<1>1. /\ d \in Device /\ place[d] = "wait" /\ s \in Slot \cup {SD} /\ StackOK'
      /\ cur' = [cur EXCEPT ![d] = s]
  BY ThreadReplyStack
<1>2. \/ p \in Client /\ awaits' = [awaits EXCEPT ![p] = NULL]
      \/ awaits' = awaits
  BY ThreadReplyStack
<1>3. \A f \in ToSet(stack') : f.k \in ThreadKind => f.d = d
  <2> DEFINE r == Run(p, awaits[p], s, stack[1].data.k)
  <2>1. r.k \notin ThreadKind /\ Answered(d).d = d /\ Send(d).d = d
    BY DEF Run, Answered, Send, ThreadKind
  <2>2. \/ ToSet(stack') \subseteq {r, Answered(d)}
        \/ ToSet(stack') = {Answered(d)}
        \/ ToSet(stack') = {Send(d)}
    BY ThreadReplyStack
  <2> HIDE DEF r, d
  <2> QED
    BY <2>1, <2>2
<1>4. awaits' \in [Client -> Slot \cup {NULL}]
  BY <1>2 DEF TypeInv, TypeOK
<1>5. cur' \in [Device -> Slot \cup {SD, NULL}] /\ \A e \in Device : cur[e] # NULL => cur'[e] # NULL
  BY <1>1, TypeFields DEF TypeInv, TypeOK
<1>6. TypeOK'
  BY <1>4, <1>5, SameFrames DEF ThreadReply, packetVars, TypeInv, TypeOK
<1>7. ThreadAtWait'
  BY <1>1, <1>3 DEF ThreadReply, ThreadAtWait
<1>8. SendHasPacket'
  BY <1>5 DEF ThreadReply, TypeInv, SendHasPacket
<1> QED
  BY <1>1, <1>6, <1>7, <1>8 DEF TypeInv

LEMMA ThreadRequestStack ==
  ASSUME TypeInv, UNCHANGED use, ThreadRequest
  PROVE  LET f == stack[1]
             g == PutIn(f.d, f.data.id, f.data.k = "ignored")
         IN  /\ stack # << >> /\ f \in Frame /\ f.k = "thread" /\ f.d \in Device
             /\ place[f.d] = "wait" /\ f.data.k \in Message
             /\ StackOK' /\ stack' = <<g>> /\ ToSet(stack') = {g}
<1> DEFINE f == stack[1]
           g == PutIn(f.d, f.data.id, f.data.k = "ignored")
<1>1. /\ stack # << >> /\ f \in Frame /\ f.k = "thread" /\ f.k \in ThreadKind /\ f.d \in Device
      /\ place[f.d] = "wait" /\ Tail(stack) = << >> /\ f.data.k \in Message /\ Become(g)
  BY ThreadTop DEF ThreadRequest, Top, ThreadKind
<1>2. f.data.id \in Nat
  BY <1>1, FrameFields DEF NoData, Data, Readable, Message
<1>3. g \in Frame
  BY <1>1, <1>2, FramesBuilt
<1>4. g.k \in ThreadKind
  BY DEF PutIn, ThreadKind
<1> HIDE DEF g
<1>5. StackOK' /\ stack' = <<g>> /\ ToSet(stack') = {g}
  BY <1>1, <1>3, <1>4, ThreadMoves
<1> QED
  BY <1>1, <1>5 DEF g

LEMMA ThreadRequestTyped ==
  ASSUME TypeInv, UNCHANGED use, ThreadRequest
  PROVE  TypeInv'
<1>1. StackOK' /\ \A f \in ToSet(stack') : place[f.d] = "wait"
  BY ThreadRequestStack DEF PutIn
<1> QED
  BY <1>1, OnlyStack DEF ThreadRequest, TypeInv, TypeOK

LEMMA RemovePacketTyped ==
  ASSUME TypeOK, NEW s, RemovePacket(s)
  PROVE  /\ buffer' \in Seq(Slot) /\ IsInjective(buffer') /\ ToSet(buffer') = Buffered \ {s}
         /\ sd' = NULL \/ sd' \in [id : Nat, dest : Device]
BY WithoutList DEF RemovePacket, TypeOK

\* From "answered" and "ignored" it goes on to "Send data".
LEMMA ToSendStack ==
  ASSUME TypeInv, UNCHANGED use, stack # << >>, stack[1].k \in ThreadKind, Become(Send(stack[1].d))
  PROVE  /\ stack[1].d \in Device /\ place[stack[1].d] = "wait"
         /\ StackOK' /\ stack' = <<Send(stack[1].d)>> /\ ToSet(stack') = {Send(stack[1].d)}
<1> DEFINE f == Send(stack[1].d)
<1>1. stack[1].d \in Device /\ place[stack[1].d] = "wait" /\ Tail(stack) = << >>
  BY ThreadTop
<1>2. f \in Frame /\ f.k \in ThreadKind /\ Become(f)
  BY <1>1, FramesBuilt DEF Send, ThreadKind
<1> HIDE DEF f
<1>3. StackOK' /\ stack' = <<f>> /\ ToSet(stack') = {f}
  BY <1>2, ThreadMoves
<1> QED
  BY <1>1, <1>3 DEF f

LEMMA ThreadAnsweredTyped ==
  ASSUME TypeInv, UNCHANGED use, ThreadAnswered
  PROVE  TypeInv'
<1> DEFINE d == stack[1].d
<1>1. /\ stack # << >> /\ stack[1].k \in ThreadKind /\ Become(Send(d)) /\ RemovePacket(cur[d]) /\ Forget(d)
  BY DEF ThreadAnswered, Top, ThreadKind
<1>2. d \in Device /\ place[d] = "wait" /\ StackOK' /\ ToSet(stack') = {Send(d)}
  BY <1>1, ToSendStack
<1>3. /\ buffer' \in Seq(Slot) /\ IsInjective(buffer')
      /\ sd' = NULL \/ sd' \in [id : Nat, dest : Device]
  BY <1>1, RemovePacketTyped DEF TypeInv
<1>4. /\ cur' \in [Device -> Slot \cup {SD, NULL}] /\ last' \in [Device -> Slot \cup {SD, NULL}]
      /\ \A e \in Device : e # d => cur'[e] = cur[e]
  BY <1>1 DEF Forget, TypeInv, TypeOK
<1>5. TypeOK'
  BY <1>3, <1>4, SameFrames DEF ThreadAnswered, TypeInv, TypeOK
<1>6. ThreadAtWait'
  BY <1>2 DEF ThreadAnswered, ThreadAtWait, Send
<1>7. SendHasPacket'
  BY <1>2, <1>4 DEF ThreadAnswered, TypeInv, SendHasPacket
<1> QED
  BY <1>2, <1>5, <1>6, <1>7 DEF TypeInv

LEMMA ThreadIgnoresTyped ==
  ASSUME TypeInv, UNCHANGED use, ThreadIgnores
  PROVE  TypeInv'
<1> DEFINE d == stack[1].d
<1>1. /\ stack # << >> /\ stack[1].k \in ThreadKind /\ Become(Send(d)) /\ RemovePacket(cur[d])
      /\ cur' = [cur EXCEPT ![d] = last[d]]
  BY DEF ThreadIgnores, IgnoredPacket, Top, ThreadKind
<1>2. d \in Device /\ place[d] = "wait" /\ StackOK' /\ ToSet(stack') = {Send(d)}
  BY <1>1, ToSendStack
<1>3. /\ buffer' \in Seq(Slot) /\ IsInjective(buffer')
      /\ sd' = NULL \/ sd' \in [id : Nat, dest : Device]
  BY <1>1, RemovePacketTyped DEF TypeInv
<1>4. /\ cur' \in [Device -> Slot \cup {SD, NULL}]
      /\ \A e \in Device : e # d => cur'[e] = cur[e]
  BY <1>1, <1>2 DEF TypeInv, TypeOK
<1>5. TypeOK'
  BY <1>3, <1>4, SameFrames DEF ThreadIgnores, TypeInv, TypeOK
<1>6. ThreadAtWait'
  BY <1>2 DEF ThreadIgnores, ThreadAtWait, Send
<1>7. SendHasPacket'
  BY <1>2, <1>4 DEF ThreadIgnores, TypeInv, SendHasPacket
<1> QED
  BY <1>2, <1>5, <1>6, <1>7 DEF TypeInv

-----------------------------------------------------------------------------

LEMMA GetTyped ==
  ASSUME TypeOK, NEW d \in Device
  PROVE  /\ Get(d) \in Buffered \cup {SD, NULL}
         /\ Get(d) \in Buffered => mem[Get(d)].dest = d /\ ~mem[Get(d)].send
         /\ Get(d) = SD => sd # NULL /\ sd.dest = d
         /\ MemAfterGet(d) \in [Slot \cup {SD} -> Packet]
         /\ \A s \in Slot : MemAfterGet(d)[s] = mem[s]
<1> DEFINE ready == {i \in DOMAIN buffer : ToSend(buffer[i], d)}
<1> DEFINE c == Get(d)
           Good == /\ c \in Buffered \cup {SD, NULL}
                   /\ c \in Buffered => mem[c].dest = d /\ ~mem[c].send
                   /\ c = SD => sd # NULL /\ sd.dest = d
<1>0. Buffered \subseteq Slot /\ SD \notin Slot /\ NULL \notin Slot /\ NULL # SD
  BY TypeFields
<1>1. ASSUME sd # NULL /\ sd.dest = d PROVE Good
  <2>1. c = SD
    BY <1>1 DEF Get
  <2> QED
    BY <1>0, <1>1, <2>1
<1>2. ASSUME ~(sd # NULL /\ sd.dest = d) PROVE Good
  <2>1. Get(d) = IF ready = {} THEN NULL ELSE buffer[Min(ready)]
    BY <1>2 DEF Get
  <2>2. CASE ready = {}
    BY <1>0, <2>1, <2>2
  <2>3. CASE ready # {}
    <3>1. ready \in SUBSET Nat /\ ready \subseteq DOMAIN buffer
      BY DEF TypeOK
    <3>2. \E x \in ready : \A y \in ready : x <= y
      <4> HIDE DEF ready
      <4> QED
        BY <2>3, <3>1, NatMin
    <3>3. Min(ready) \in ready
      <4> HIDE DEF ready
      <4> QED
        BY <3>2 DEF Min
    <3>4. Get(d) \in Buffered /\ ToSend(Get(d), d)
      BY <2>1, <2>3, <3>3 DEF Buffered, ToSet
    <3> QED
      BY <1>0, <3>4 DEF ToSend
  <2> QED
    BY <2>2, <2>3
<1>3. MemAfterGet(d) \in [Slot \cup {SD} -> Packet] /\ \A s \in Slot : MemAfterGet(d)[s] = mem[s]
  <2>1. mem \in [Slot \cup {SD} -> Packet] /\ mem[SD] \in Packet /\ SD \notin Slot
    BY TypeFields DEF TypeOK
  <2>2. sd # NULL => sd.id \in Nat /\ sd.dest \in Device
    BY DEF TypeOK
  <2>3. CASE sd = NULL
    BY <2>1, <2>3 DEF MemAfterGet
  <2>4. CASE sd # NULL /\ sd.dest # d
    <3>1. MemAfterGet(d) = [mem EXCEPT ![SD].dest = sd.dest]
      BY <2>4 DEF MemAfterGet
    <3> QED
      BY <2>1, <2>2, <2>4, <3>1 DEF Packet
  <2>5. CASE sd # NULL /\ sd.dest = d
    <3> DEFINE x == [mem[SD] EXCEPT !.dest = sd.dest, !.id = sd.id, !.send = FALSE, !.incoming = FALSE]
    <3>1. MemAfterGet(d) = [mem EXCEPT ![SD].dest = sd.dest, ![SD].id = sd.id, ![SD].send = FALSE,
                              ![SD].incoming = FALSE]
      BY <2>5 DEF MemAfterGet
    <3>2. MemAfterGet(d) = [mem EXCEPT ![SD] = x]
      BY <2>1, <3>1
    <3>3. x \in Packet
      BY <2>1, <2>2, <2>5 DEF Packet
    <3> HIDE DEF x
    <3> QED
      BY <2>1, <3>2, <3>3
  <2> QED
    BY <2>3, <2>4, <2>5
<1> QED
  BY <1>1, <1>2, <1>3

\* What is sent, and in which state of the memory.
Chosen(d) == IF cur[d] = NULL THEN Get(d) ELSE cur[d]
MemSeen(d) == IF cur[d] = NULL THEN MemAfterGet(d) ELSE mem

LEMMA ThreadSendsData ==
  ASSUME TypeInv, UNCHANGED use, ThreadSends
  PROVE  LET d == stack[1].d
             c == Chosen(d)
             m == MemSeen(d)
         IN  /\ stack # << >> /\ stack[1].k = "send" /\ stack[1] \in Frame /\ d \in Device
             /\ place[d] = "wait" /\ stack' = << >> /\ StackOK' /\ ToSet(stack') = {}
             /\ c \in Slot \cup {SD, NULL} /\ m \in [Slot \cup {SD} -> Packet]
             /\ \A s \in Slot : m[s] = mem[s]
             /\ cur' = [cur EXCEPT ![d] = c]
             /\ c # NULL /\ ~m[c].send =>
                  /\ c \in Slot \cup {SD} /\ mem' = [m EXCEPT ![c].send = TRUE]
                  /\ timer' = [timer EXCEPT ![c] = Ticks]
                  /\ place' = [place EXCEPT ![d] = "send"]
                  /\ answers' = [answers EXCEPT ![d] = IF m[c].incoming THEN @ ELSE @ \cup {m[c].id}]
             /\ ~(c # NULL /\ ~m[c].send) =>
                  mem' = m /\ timer' = timer /\ place' = place /\ answers' = answers
<1> DEFINE d == stack[1].d
           c == Chosen(d)
           m == MemSeen(d)
<1>1. /\ stack # << >> /\ stack[1].k = "send" /\ stack[1] \in Frame /\ d \in Device
      /\ place[d] = "wait" /\ Tail(stack) = << >> /\ Return
  BY ThreadTop DEF ThreadSends, Top, ThreadKind
<1>2. StackOK' /\ stack' = << >> /\ ToSet(stack') = {}
  BY <1>1, ReturnStack, TopFrame DEF TypeInv, Return
<1>3. c \in Slot \cup {SD, NULL} /\ m \in [Slot \cup {SD} -> Packet] /\ \A s \in Slot : m[s] = mem[s]
  <2>1. /\ Get(d) \in Buffered \cup {SD, NULL} /\ Buffered \subseteq Slot
        /\ MemAfterGet(d) \in [Slot \cup {SD} -> Packet]
        /\ \A s \in Slot : MemAfterGet(d)[s] = mem[s]
    BY <1>1, GetTyped, TypeFields DEF TypeInv
  <2>2. mem \in [Slot \cup {SD} -> Packet] /\ cur[d] \in Slot \cup {SD, NULL}
    BY <1>1 DEF TypeInv, TypeOK
  <2> QED
    BY <2>1, <2>2 DEF Chosen, MemSeen
<1>4. /\ cur' = [cur EXCEPT ![d] = c]
      /\ IF c # NULL /\ ~m[c].send
           THEN /\ mem' = [m EXCEPT ![c].send = TRUE]
                /\ timer' = [timer EXCEPT ![c] = Ticks]
                /\ place' = [place EXCEPT ![d] = "send"]
                /\ answers' = [answers EXCEPT ![d] = IF m[c].incoming THEN @ ELSE @ \cup {m[c].id}]
           ELSE mem' = m /\ UNCHANGED <<timer, place, answers>>
  BY DEF ThreadSends, Chosen, MemSeen, Sent
<1> HIDE DEF c, m
<1> QED
  BY <1>1, <1>2, <1>3, <1>4 DEF c, m

LEMMA ThreadSendsTyped ==
  ASSUME TypeInv, UNCHANGED use, ThreadSends
  PROVE  TypeInv'
<1> DEFINE d == stack[1].d
           c == Chosen(d)
           m == MemSeen(d)
<1>1. /\ d \in Device /\ place[d] = "wait" /\ StackOK' /\ ToSet(stack') = {}
      /\ c \in Slot \cup {SD, NULL} /\ m \in [Slot \cup {SD} -> Packet]
      /\ cur' = [cur EXCEPT ![d] = c]
  BY ThreadSendsData
<1>2. CASE c # NULL /\ ~m[c].send
  <2>1. /\ c \in Slot \cup {SD} /\ mem' = [m EXCEPT ![c].send = TRUE]
        /\ timer' = [timer EXCEPT ![c] = Ticks]
        /\ place' = [place EXCEPT ![d] = "send"]
        /\ answers' = [answers EXCEPT ![d] = IF m[c].incoming THEN @ ELSE @ \cup {m[c].id}]
    BY <1>2, ThreadSendsData
  <2> HIDE DEF c, m
  <2>2. m[c].id \in Nat /\ mem' \in [Slot \cup {SD} -> Packet]
    BY <1>1, <2>1 DEF Packet
  <2>3. timer' \in [Slot \cup {SD} -> -1..Ticks]
    BY <2>1, SizeAssumption DEF TypeInv, TypeOK
  <2>4. answers' \in [Device -> SUBSET Nat] /\ place' \in [Device -> {"wait", "send"}]
    BY <2>1, <2>2 DEF TypeInv, TypeOK
  <2>5. cur' \in [Device -> Slot \cup {SD, NULL}]
    BY <1>1 DEF TypeInv, TypeOK
  <2>6. TypeOK'
    BY <2>2, <2>3, <2>4, <2>5, SameFrames DEF ThreadSends, TypeInv, TypeOK
  <2>7. SendHasPacket'
    BY <1>1, <1>2, <2>1 DEF ThreadSends, TypeInv, TypeOK, SendHasPacket
  <2> QED
    BY <1>1, <2>6, <2>7 DEF TypeInv, ThreadAtWait
<1>3. CASE ~(c # NULL /\ ~m[c].send)
  <2>1. mem' = m /\ timer' = timer /\ place' = place /\ answers' = answers
    BY <1>3, ThreadSendsData
  <2> HIDE DEF c, m
  <2>2. cur' \in [Device -> Slot \cup {SD, NULL}]
    BY <1>1 DEF TypeInv, TypeOK
  <2>3. TypeOK'
    BY <1>1, <2>1, <2>2, SameFrames DEF ThreadSends, TypeInv, TypeOK
  <2>4. SendHasPacket'
    BY <1>1, <2>1 DEF ThreadSends, TypeInv, TypeOK, SendHasPacket
  <2> QED
    BY <1>1, <2>3, <2>4 DEF TypeInv, ThreadAtWait
<1> QED
  BY <1>2, <1>3

LEMMA ConnectedTyped ==
  ASSUME TypeInv, UNCHANGED use, NEW d \in Device, Connected(d)
  PROVE  TypeInv'
<1>1. StackOK' /\ ToSet(stack') = {}
  BY SameStack DEF Connected, Idle, TypeInv, ToSet
<1>2. TypeOK'
  BY SameFrames DEF Connected, packetVars, TypeInv, TypeOK
<1>3. SendHasPacket'
  BY DEF Connected, TypeInv, TypeOK, SendHasPacket
<1> QED
  BY <1>1, <1>2, <1>3 DEF TypeInv, ThreadAtWait

LEMMA SockEndTyped ==
  ASSUME TypeOK, NEW d \in Device, SockEnd(d)
  PROVE  /\ mem' \in [Slot \cup {SD} -> Packet] /\ cur' \in [Device -> Slot \cup {SD, NULL}]
         /\ \A e \in Device : e # d => cur'[e] = cur[e]
         /\ cur'[d] = NULL
<1>1. mem \in [Slot \cup {SD} -> Packet] /\ cur \in [Device -> Slot \cup {SD, NULL}]
  BY DEF TypeOK
<1>2. mem' \in [Slot \cup {SD} -> Packet]
  BY <1>1 DEF SockEnd, Packet
<1> QED
  BY <1>1, <1>2 DEF SockEnd

LEMMA ClosedTyped ==
  ASSUME TypeInv, UNCHANGED use, NEW d \in Device, Closed(d)
  PROVE  TypeInv'
<1>1. StackOK' /\ ToSet(stack') = {}
  BY SameStack DEF Closed, Idle, TypeInv, ToSet
<1>2. TypeOK'
  BY SockEndTyped, SameFrames DEF Closed, NoAnswers, Down, TypeInv, TypeOK
<1>3. SendHasPacket'
  BY SockEndTyped DEF Closed, TypeInv, TypeOK, SendHasPacket
<1> QED
  BY <1>1, <1>2, <1>3 DEF TypeInv, ThreadAtWait

LEMMA AbortedTyped ==
  ASSUME TypeInv, UNCHANGED use, NEW d \in Device, Aborted(d)
  PROVE  TypeInv'
<1>1. StackOK' /\ ToSet(stack') = {}
  BY SameStack DEF Aborted, Idle, TypeInv, ToSet
<1>2. /\ mem' \in [Slot \cup {SD} -> Packet] /\ cur' \in [Device -> Slot \cup {SD, NULL}]
      /\ \A e \in Device : e # d => cur'[e] = cur[e]
  BY SockEndTyped DEF Aborted, TypeInv, TypeOK
<1>3. PICK new \in {"retry", "offline"} : state' = [state EXCEPT ![d] = new]
  BY DEF Aborted
<1>4. TypeOK'
  BY <1>2, <1>3, SameFrames DEF Aborted, NoAnswers, Down, TypeInv, TypeOK
<1>5. SendHasPacket'
  BY <1>2, <1>3 DEF Aborted, TypeInv, TypeOK, SendHasPacket
<1> QED
  BY <1>1, <1>4, <1>5 DEF TypeInv, ThreadAtWait

LEMMA CloseTimedOutTyped ==
  ASSUME TypeInv, UNCHANGED use, NEW d \in Device, CloseTimedOut(d)
  PROVE  TypeInv'
<1>1. StackOK' /\ ToSet(stack') = {}
  BY SameStack DEF CloseTimedOut, Idle, TypeInv, ToSet
<1>2. TypeOK'
  BY SameFrames DEF CloseTimedOut, NoAnswers, Down, packetVars, TypeInv, TypeOK
<1>3. SendHasPacket'
  BY DEF CloseTimedOut, TypeInv, TypeOK, SendHasPacket
<1> QED
  BY <1>1, <1>2, <1>3 DEF TypeInv, ThreadAtWait

LEMMA InitTyped == Init => TypeInv
<1> SUFFICES ASSUME Init PROVE TypeInv
  OBVIOUS
<1>1. use.slots \in Nat \ {0} /\ use.devices \subseteq Device
  BY UsesAssumption DEF Init
<1>2. mem \in [Slot \cup {SD} -> Packet]
  <2>1. PICK d \in use.devices :
         mem = [s \in Slot \cup {SD} |->
                [proc |-> NULL, id |-> 0, dest |-> d, send |-> FALSE,
                 incoming |-> FALSE, important |-> FALSE]]
    BY DEF Init
  <2> QED
    BY <1>1, <2>1 DEF Packet
<1>3. timer \in [Slot \cup {SD} -> -1..Ticks]
  <2>1. Ticks \in -1..Ticks
    BY SizeAssumption
  <2> QED
    BY <2>1 DEF Init
<1>4. buffer \in Seq(Slot) /\ IsInjective(buffer)
  BY DEF Init, IsInjective
<1>5. TypeOK
  BY <1>2, <1>3, <1>4 DEF Init, TypeOK, Down
<1>6. StackOK /\ ToSet(stack) = {}
  BY DEF Init, StackOK, Nested, ToSet
<1>7. SendHasPacket
  BY DEF Init, SendHasPacket
<1> QED
  BY <1>5, <1>6, <1>7 DEF TypeInv, ThreadAtWait

LEMMA NextTyped == TypeInv /\ [Next]_<<use, vars>> => TypeInv'
<1> SUFFICES ASSUME TypeInv, [Next]_<<use, vars>> PROVE TypeInv'
  OBVIOUS
<1>1. CASE UNCHANGED <<use, vars>>
  <2>1. TypeOK'
    BY <1>1, SameFrames DEF vars, packetVars, deviceVars, TypeInv, TypeOK
  <2> QED
    BY <1>1, <2>1, SameStack DEF vars, deviceVars, TypeInv, ThreadAtWait, SendHasPacket
<1>2. CASE Clients /\ UNCHANGED use
  BY <1>2, ClientRunsTyped, ClientPutsTyped DEF Clients
<1>3. CASE Library /\ UNCHANGED use
  BY <1>3, ClientReturnsTyped, PutEvictsTyped, PutFillsTyped, PutInFillsTyped, TimeoutTellsTyped,
     TimeoutRemovesTyped, ThreadWaitsTyped, ThreadParseErrorTyped, ThreadReplyTyped,
     ThreadRequestTyped, ThreadAnsweredTyped, ThreadIgnoresTyped, ThreadSendsTyped DEF Library
<1>4. CASE Network /\ UNCHANGED use
  BY <1>4, ReceiveTyped, AckedTyped, ConnectedTyped, ClosedTyped, AbortedTyped,
     CloseTimedOutTyped DEF Network
<1>5. CASE Timers /\ UNCHANGED use
  BY <1>5, TimerExpiresTyped, TickTyped DEF Timers
<1> QED
  BY <1>1, <1>2, <1>3, <1>4, <1>5 DEF Next

(***************************************************************************)
(* The packets, the connections and the calls stay well typed, whatever    *)
(* the devices send and the processes do (SCP_Buffer.c, SCP_Comm.c); an    *)
(* ACK finds the packet it is for (SCP_Comm.c line 365).                   *)
(***************************************************************************)
THEOREM TypeCorrect == Spec => []TypeOK
<1>1. TypeInv => TypeOK
  BY DEF TypeInv
<1> QED
  BY <1>1, InitTyped, NextTyped, PTL DEF Spec

-----------------------------------------------------------------------------
(* What several of the invariants below need. *)

\* Only whether packets have been sent changes, and SCP_sd_packet.
SamePackets ==
  \A s \in Slot : /\ mem'[s].proc = mem[s].proc /\ mem'[s].id = mem[s].id
                  /\ mem'[s].dest = mem[s].dest /\ mem'[s].incoming = mem[s].incoming
                  /\ mem'[s].important = mem[s].important

LEMMA MarkedPackets ==
  ASSUME TypeOK, NEW m \in [Slot \cup {SD} -> Packet], \A s \in Slot : m[s] = mem[s],
         NEW c, NEW b, mem' = [m EXCEPT ![c].send = b]
  PROVE  SamePackets
BY DEF SamePackets, Packet

LEMMA SendsSamePackets ==
  ASSUME TypeInv, UNCHANGED use, ThreadSends
  PROVE  SamePackets
<1> DEFINE c == Chosen(stack[1].d)
           m == MemSeen(stack[1].d)
<1>1. m \in [Slot \cup {SD} -> Packet] /\ \A s \in Slot : m[s] = mem[s]
  BY ThreadSendsData
<1>2. mem' = m \/ mem' = [m EXCEPT ![c].send = TRUE]
  <2>1. CASE c # NULL /\ ~m[c].send
    BY <2>1, ThreadSendsData
  <2>2. CASE ~(c # NULL /\ ~m[c].send)
    BY <2>2, ThreadSendsData
  <2> QED
    BY <2>1, <2>2
<1> HIDE DEF c, m
<1> QED
  BY <1>1, <1>2, MarkedPackets DEF SamePackets, TypeInv

LEMMA SockEndSamePackets ==
  ASSUME TypeOK, NEW d \in Device, SockEnd(d)
  PROVE  SamePackets
<1>1. mem \in [Slot \cup {SD} -> Packet]
  BY DEF TypeOK
<1>2. mem' = mem \/ mem' = [mem EXCEPT ![cur[d]].send = FALSE]
  BY DEF SockEnd
<1> QED
  BY <1>1, <1>2, MarkedPackets DEF SamePackets

LEMMA TickSamePackets ==
  ASSUME TypeOK, NEW d, Tick(d)
  PROVE  SamePackets
<1>1. mem \in [Slot \cup {SD} -> Packet]
  BY DEF TypeOK
<1>2. \E b : mem' = [mem EXCEPT ![SD].send = b]
  BY DEF Tick
<1> QED
  BY <1>1, <1>2, MarkedPackets

\* Nobody waits for s.
NoWaiter(s) == \A p \in Client : awaits[p] # s

LEMMA WaitersKept ==
  ASSUME TypeOK, WaiterHasPacket, SamePackets,
         \A p \in Client : awaits'[p] \in {awaits[p], NULL},
         \A s \in Buffered : NoWaiter(s) \/ s \in ToSet(buffer')
  PROVE  WaiterHasPacket'
<1> SUFFICES ASSUME NEW p \in Client, awaits'[p] # NULL
             PROVE  awaits'[p] \in ToSet(buffer') /\ mem'[awaits'[p]].proc = p
  BY DEF WaiterHasPacket, Buffered
<1>1. awaits'[p] = awaits[p] /\ awaits[p] \in Buffered /\ mem[awaits[p]].proc = p
  BY DEF WaiterHasPacket
<1>2. awaits[p] \in Slot
  BY <1>1, TypeFields
<1> QED
  BY <1>1, <1>2 DEF NoWaiter, SamePackets

LEMMA PutFillsSlot ==
  ASSUME TypeInv, UNCHANGED use, PutFills
  PROVE  \E s \in Slot, id \in Nat :
           /\ s \in Free /\ NewId(id) /\ ToSet(buffer') = Buffered \cup {s}
           /\ mem'[s].proc = stack[1].proc /\ mem'[s].id = id
           /\ mem'[s].dest = stack[1].d /\ ~mem'[s].send /\ ~mem'[s].incoming
           /\ mem'[s].important = stack[1].important
           /\ \A t \in Slot \cup {SD} : t # s => mem'[t] = mem[t]
           /\ awaits' = IF stack[1].proc = NULL THEN awaits
                        ELSE [awaits EXCEPT ![stack[1].proc] = s]
<1> DEFINE x(id) == [proc |-> stack[1].proc, id |-> id, dest |-> stack[1].d,
                     send |-> FALSE, incoming |-> FALSE, important |-> stack[1].important]
<1>1. PICK s \in Slot, id \in Nat :
        /\ s \in Free /\ NewId(id) /\ ToSet(buffer') = Buffered \cup {s}
        /\ mem' = [mem EXCEPT ![s] = x(id)]
        /\ awaits' = IF stack[1].proc = NULL THEN awaits
                     ELSE [awaits EXCEPT ![stack[1].proc] = s]
  BY PutFillsData DEF TypeInv
<1>2. /\ x(id).proc = stack[1].proc /\ x(id).id = id /\ x(id).dest = stack[1].d
      /\ ~x(id).send /\ ~x(id).incoming /\ x(id).important = stack[1].important
  OBVIOUS
<1> HIDE DEF x
<1>3. mem'[s] = x(id) /\ \A t \in Slot \cup {SD} : t # s => mem'[t] = mem[t]
  BY <1>1 DEF TypeInv, TypeOK
<1> QED
  BY <1>1, <1>2, <1>3

LEMMA WaitersOfFilled ==
  ASSUME TypeInv, UNCHANGED use, WaiterHasPacket, PutFills \/ PutInFills
  PROVE  WaiterHasPacket'
<1>1. CASE PutFills
  <2>1. PICK s \in Slot :
          /\ s \in Free /\ ToSet(buffer') = Buffered \cup {s} /\ mem'[s].proc = stack[1].proc
          /\ \A t \in Slot : t # s => mem'[t] = mem[t]
          /\ awaits' = IF stack[1].proc = NULL THEN awaits
                       ELSE [awaits EXCEPT ![stack[1].proc] = s]
    BY <1>1, PutFillsSlot
  <2> SUFFICES ASSUME NEW p \in Client, awaits'[p] # NULL
               PROVE  awaits'[p] \in ToSet(buffer') /\ mem'[awaits'[p]].proc = p
    BY DEF WaiterHasPacket, Buffered
  <2>2. CASE stack[1].proc = p
    <3>1. stack[1].proc # NULL /\ awaits'[p] = s
      BY <2>1, <2>2, TypeFields DEF TypeInv, TypeOK
    <3> QED
      BY <2>1, <2>2, <3>1
  <2>3. CASE stack[1].proc # p
    <3>1. awaits'[p] = awaits[p]
      BY <2>1, <2>3 DEF TypeInv, TypeOK
    <3>2. awaits[p] \in Buffered /\ mem[awaits[p]].proc = p /\ awaits[p] \in Slot
      BY <3>1, TypeFields DEF WaiterHasPacket, TypeInv
    <3> QED
      BY <2>1, <3>1, <3>2 DEF Free
  <2> QED
    BY <2>2, <2>3
<1>2. CASE PutInFills
  <2>1. PICK s \in Slot :
          /\ s \in Free /\ ToSet(buffer') = Buffered \cup {s}
          /\ \A t \in Slot : t # s => mem'[t] = mem[t]
    BY <1>2, PutInFillsData DEF TypeInv, TypeOK
  <2>2. awaits' = awaits
    BY <1>2 DEF PutInFills
  <2> SUFFICES ASSUME NEW p \in Client, awaits[p] # NULL
               PROVE  awaits[p] \in ToSet(buffer') /\ mem'[awaits[p]].proc = p
    BY <2>2 DEF WaiterHasPacket, Buffered
  <2>3. awaits[p] \in Buffered /\ mem[awaits[p]].proc = p /\ awaits[p] \in Slot
    BY TypeFields DEF WaiterHasPacket, TypeInv
  <2> QED
    BY <2>1, <2>3 DEF Free
<1> QED
  BY <1>1, <1>2

LEMMA ToldNoWaiter ==
  ASSUME TypeOK, WaiterHasPacket, NEW s \in Slot,
         \/ mem[s].proc = NULL /\ UNCHANGED awaits
         \/ mem[s].proc \in Client /\ awaits' = [awaits EXCEPT ![mem[s].proc] = NULL]
  PROVE  NoWaiter(s)'
<1> SUFFICES ASSUME NEW p \in Client, awaits'[p] = s PROVE FALSE
  BY DEF NoWaiter
<1>1. NULL \notin Slot /\ NULL \notin Client
  BY TypeFields
<1>2. awaits[p] = s
  BY <1>1 DEF TypeOK
<1>3. mem[s].proc = p
  BY <1>1, <1>2 DEF WaiterHasPacket
<1> QED
  BY <1>1, <1>3 DEF TypeOK
-----------------------------------------------------------------------------
(* When a process that a reply or a timeout has resumed puts no packet,    *)
(* nothing is done between the post and the code behind it.                *)

\* The places of the library behind a post, or before a remove.
Sensitive(f) == (f.k = "timeout" /\ f.told) \/ f.k \in {"answered", "ignored"}
Insensitive(S) == \A f \in ToSet(S) : ~Sensitive(f)
Shielded ==
  \A i \in DOMAIN stack :
    Sensitive(stack[i]) => i = 1 \/ (i = 2 /\ stack[1].k = "run")

\* What holds there.
Promise(f) ==
  /\ f.k = "timeout" /\ f.told => NoWaiter(f.s) /\ mem[f.s].proc # NULL
  /\ f.k = "answered" =>
       /\ cur[f.d] \in Slot \cup {SD} /\ cur[f.d] = last[f.d]
       /\ NoWaiter(cur[f.d]) /\ mem[cur[f.d]].dest = f.d
  /\ f.k = "ignored" => cur[f.d] \in Slot /\ mem[cur[f.d]].incoming
Promises == \A f \in ToSet(stack) : Promise(f)

IncomingOfNobody == \A s \in Slot : mem[s].incoming => mem[s].proc = NULL

CalmInv ==
  /\ TypeInv /\ use.nested = {}
  /\ WaiterHasPacket /\ IncomingOfNobody /\ Shielded /\ Promises

LEMMA ShieldedTop ==
  ASSUME TypeInv, Shielded, stack # << >>, stack[1].k # "run"
  PROVE  /\ Insensitive(Tail(stack))
         /\ ~Sensitive(stack[1]) => Insensitive(stack)
<1>1. /\ Len(stack) \in Nat \ {0} /\ DOMAIN stack = 1..Len(stack)
      /\ Tail(stack) \in Seq(Frame) /\ Len(Tail(stack)) = Len(stack) - 1
      /\ \A i \in 1..(Len(stack) - 1) : Tail(stack)[i] = stack[i + 1]
      /\ ToSet(stack) = {stack[1]} \cup ToSet(Tail(stack))
  BY Popped DEF TypeInv, StackOK
<1> DEFINE T == Tail(stack)
<1>2. DOMAIN T = 1..(Len(stack) - 1)
  BY <1>1
<1> HIDE DEF T
<1>3. \A i \in 1..(Len(stack) - 1) : ~Sensitive(T[i])
  <2> SUFFICES ASSUME NEW i \in 1..(Len(stack) - 1) PROVE ~Sensitive(stack[i + 1])
    BY <1>1 DEF T
  <2>1. i + 1 \in DOMAIN stack /\ i + 1 # 1
    BY <1>1
  <2> QED
    BY <2>1 DEF Shielded
<1>4. Insensitive(T)
  BY <1>2, <1>3 DEF Insensitive, ToSet
<1> QED
  BY <1>1, <1>4 DEF Insensitive, T

LEMMA ShieldedFrame ==
  ASSUME NEW S \in Seq(Frame), Insensitive(S), NEW f \in Frame, stack' = <<f>> \o S
  PROVE  Shielded'
<1>1. /\ stack' \in Seq(Frame) /\ Len(stack') = Len(S) + 1 /\ Len(S) \in Nat
      /\ \A i \in 1..Len(S) : stack'[i + 1] = S[i]
  BY Pushed
<1>2. \A i \in 1..Len(S) : ~Sensitive(S[i])
  BY DEF Insensitive, ToSet
<1> SUFFICES ASSUME NEW i \in DOMAIN stack', i # 1 PROVE ~Sensitive(stack'[i])
  BY DEF Shielded, Sensitive
<1>3. i - 1 \in 1..Len(S) /\ (i - 1) + 1 = i
  BY <1>1
<1>4. stack'[i] = S[i - 1]
  BY <1>1, <1>3
<1> QED
  BY <1>2, <1>3, <1>4

LEMMA ShieldedPost ==
  ASSUME NEW S \in Seq(Frame), Insensitive(S), NEW f \in Frame, NEW r \in Frame, r.k = "run",
         stack' = <<r>> \o (<<f>> \o S)
  PROVE  Shielded'
<1> DEFINE U == <<f>> \o S
<1>1. /\ U \in Seq(Frame) /\ Len(U) = Len(S) + 1 /\ Len(S) \in Nat
      /\ \A i \in 1..Len(S) : U[i + 1] = S[i]
  BY Pushed
<1>2. stack' = <<r>> \o U
  OBVIOUS
<1> HIDE DEF U
<1>3. /\ stack' \in Seq(Frame) /\ Len(stack') = Len(U) + 1 /\ stack'[1] = r
      /\ \A i \in 1..Len(U) : stack'[i + 1] = U[i]
  BY <1>1, <1>2, Pushed
<1>4. \A i \in 1..Len(S) : ~Sensitive(S[i])
  BY DEF Insensitive, ToSet
<1> SUFFICES ASSUME NEW i \in DOMAIN stack', i # 1, i # 2 PROVE ~Sensitive(stack'[i])
  BY <1>3 DEF Shielded, Sensitive
<1>5. i - 2 \in 1..Len(S) /\ i - 1 \in 1..Len(U) /\ (i - 2) + 1 = i - 1 /\ (i - 1) + 1 = i
  BY <1>1, <1>3
<1>6. stack'[i] = U[i - 1] /\ U[i - 1] = S[i - 2]
  BY <1>1, <1>3, <1>5
<1> QED
  BY <1>4, <1>5, <1>6

\* When the stack has none of these places any more.
LEMMA CalmAgain ==
  ASSUME CalmInv, UNCHANGED use, TypeInv', WaiterHasPacket', IncomingOfNobody', Insensitive(stack')
  PROVE  CalmInv'
<1>1. Shielded'
  BY DEF Insensitive, Shielded, ToSet, Sensitive
<1>2. Promises'
  BY DEF Insensitive, Promises, Promise, Sensitive
<1> QED
  BY <1>1, <1>2 DEF CalmInv

LEMMA CalmSame ==
  ASSUME CalmInv, UNCHANGED use, TypeInv', SamePackets, Insensitive(stack'),
         \A p \in Client : awaits'[p] \in {awaits[p], NULL},
         \A s \in Buffered : NoWaiter(s) \/ s \in ToSet(buffer')
  PROVE  CalmInv'
<1>1. WaiterHasPacket'
  BY WaitersKept DEF CalmInv, TypeInv
<1>2. IncomingOfNobody'
  BY SameFrames DEF SamePackets, CalmInv, IncomingOfNobody
<1> QED
  BY <1>1, <1>2, CalmAgain

-----------------------------------------------------------------------------

LEMMA ClientsCalm ==
  ASSUME CalmInv, UNCHANGED use, TypeInv', Clients
  PROVE  CalmInv' /\ buffer' = buffer
<1>1. UNCHANGED <<packetVars, sd, deviceVars, awaits>>
  BY DEF Clients, ClientRuns, ClientPuts
<1>2. SamePackets /\ awaits' = awaits /\ buffer' = buffer
  BY <1>1 DEF SamePackets, packetVars
<1>3. Insensitive(stack')
  <2>1. ASSUME NEW p \in Client, ClientRuns(p) PROVE Insensitive(stack')
    <3> DEFINE f == Run(p, NULL, NULL, "own")
    <3>1. stack = << >> /\ stack' = <<f>> \o stack /\ f \in Frame
      BY <2>1, FramesBuilt DEF ClientRuns, Idle, Call, Pointer
    <3>2. ~Sensitive(f)
      BY DEF Run, Sensitive
    <3> HIDE DEF f
    <3>3. ToSet(stack') = {f} \cup ToSet(stack)
      BY <3>1, Pushed DEF CalmInv, TypeInv, StackOK
    <3> QED
      BY <3>1, <3>2, <3>3 DEF Insensitive, ToSet
  <2>2. ASSUME NEW kind \in Kind, NEW d \in Device, ClientPuts(kind, d) PROVE Insensitive(stack')
    <3> DEFINE f == Put(IF kind = "send" THEN stack[1].p ELSE NULL, kind # "buffer", d)
    <3>1. stack # << >> /\ stack[1].k = "run" /\ Len(stack) = 1 /\ stack' = <<f>> \o stack
      BY <2>2 DEF ClientPuts, Top, Call, CalmInv
    <3>2. ToSet(stack) = {stack[1]}
      BY <3>1 DEF CalmInv, TypeInv, StackOK, ToSet
    <3>3. f \in Frame
      <4>1. stack[1].p \in Client
        BY <3>1, TopFrame, FrameFields DEF CalmInv, TypeInv
      <4> QED
        BY <4>1, FramesBuilt
    <3>4. ~Sensitive(f) /\ ~Sensitive(stack[1])
      BY <3>1 DEF Put, Sensitive
    <3> HIDE DEF f
    <3>5. ToSet(stack') = {f} \cup ToSet(stack)
      BY <3>1, <3>3, Pushed DEF CalmInv, TypeInv, StackOK
    <3> QED
      BY <3>2, <3>4, <3>5 DEF Insensitive
  <2> QED
    BY <2>1, <2>2 DEF Clients
<1> QED
  BY <1>2, <1>3, CalmSame DEF Buffered

\* The process returns to the place that resumed it, and nothing has changed.
LEMMA ClientReturnsCalm ==
  ASSUME CalmInv, UNCHANGED use, TypeInv', ClientReturns
  PROVE  CalmInv' /\ buffer' = buffer
<1>1. /\ stack # << >> /\ stack' = Tail(stack)
      /\ UNCHANGED <<packetVars, sd, deviceVars, awaits>>
  BY DEF ClientReturns, Top, Return
<1>2. /\ Len(stack) \in Nat \ {0} /\ DOMAIN stack = 1..Len(stack)
      /\ stack' \in Seq(Frame) /\ Len(stack') = Len(stack) - 1
      /\ \A i \in 1..(Len(stack) - 1) : stack'[i] = stack[i + 1]
      /\ ToSet(stack') \subseteq ToSet(stack)
  BY <1>1, Popped DEF CalmInv, TypeInv, StackOK
<1>3. Shielded'
  <2> SUFFICES ASSUME NEW i \in DOMAIN stack', Sensitive(stack'[i]) PROVE i = 1
    BY DEF Shielded, Sensitive
  <2>1. i \in 1..(Len(stack) - 1) /\ i + 1 \in DOMAIN stack
    BY <1>2
  <2>2. i + 1 = 1 \/ i + 1 = 2
    BY <1>2, <2>1 DEF CalmInv, Shielded
  <2> QED
    BY <2>1, <2>2
<1>4. Promises'
  BY <1>1, <1>2, SameFrames DEF CalmInv, Promises, Promise, NoWaiter, packetVars, deviceVars
<1>5. WaiterHasPacket' /\ IncomingOfNobody'
  BY <1>1, SameFrames DEF CalmInv, WaiterHasPacket, IncomingOfNobody, Buffered, packetVars
<1> QED
  BY <1>1, <1>3, <1>4, <1>5 DEF CalmInv, packetVars

LEMMA PutEvictsCalm ==
  ASSUME CalmInv, UNCHANGED use, TypeInv', PutEvicts
  PROVE  CalmInv' /\ buffer' = buffer
<1>1. /\ stack # << >> /\ stack[1].k \in {"put", "putin"} /\ stack' = <<Evict>> \o stack
      /\ UNCHANGED <<packetVars, awaits>>
  BY DEF PutEvicts, Top, Call
<1>2. Insensitive(stack)
  BY <1>1, ShieldedTop DEF CalmInv, Sensitive
<1>3. Evict \in Frame /\ ~Sensitive(Evict)
  BY TypeFields, FramesBuilt DEF Evict, Timeout, Sensitive, CalmInv, TypeInv
<1>4. ToSet(stack') = {Evict} \cup ToSet(stack)
  BY <1>1, <1>3, Pushed DEF CalmInv, TypeInv, StackOK
<1>5. Insensitive(stack')
  BY <1>2, <1>3, <1>4 DEF Insensitive
<1>6. SamePackets /\ buffer' = buffer
  BY <1>1 DEF SamePackets, packetVars
<1> QED
  BY <1>1, <1>5, <1>6, CalmSame DEF Buffered

LEMMA PutFillsCalm ==
  ASSUME CalmInv, UNCHANGED use, TypeInv', PutFills
  PROVE  CalmInv' /\ Buffered \subseteq ToSet(buffer')
<1>1. stack # << >> /\ stack[1].k = "put" /\ ToSet(stack') \subseteq ToSet(stack)
  BY PutFillsStack DEF CalmInv, TypeInv
<1>2. Insensitive(stack')
  BY <1>1, ShieldedTop DEF CalmInv, Sensitive, Insensitive
<1>3. PICK s \in Slot :
        /\ ToSet(buffer') = Buffered \cup {s} /\ ~mem'[s].incoming
        /\ \A t \in Slot \cup {SD} : t # s => mem'[t] = mem[t]
  BY PutFillsSlot DEF CalmInv
<1>4. IncomingOfNobody'
  BY <1>3, SameFrames DEF CalmInv, IncomingOfNobody
<1> QED
  BY <1>2, <1>3, <1>4, WaitersOfFilled, CalmAgain DEF CalmInv

LEMMA PutInFillsCalm ==
  ASSUME CalmInv, UNCHANGED use, TypeInv', PutInFills
  PROVE  CalmInv' /\ Buffered \subseteq ToSet(buffer')
<1> DEFINE d == stack[1].d
           f == IF stack[1].ignored THEN Ignored(d) ELSE Send(d)
<1>1. PICK s \in Slot :
        /\ ToSet(buffer') = Buffered \cup {s}
        /\ mem' = [mem EXCEPT ![s] =
                     [proc |-> NULL, id |-> stack[1].id, dest |-> stack[1].d, send |-> FALSE,
                      incoming |-> TRUE, important |-> mem[s].important]]
        /\ cur' = [cur EXCEPT ![d] = s]
  BY PutInFillsData DEF CalmInv
<1>2. d \in Device /\ ToSet(stack') = {f}
  BY PutInFillsData DEF CalmInv
<1>3. mem'[s].incoming /\ mem'[s].proc = NULL /\ cur'[d] = s
      /\ \A t \in Slot : t # s => mem'[t] = mem[t]
  BY <1>1, <1>2 DEF CalmInv, TypeInv, TypeOK
<1>4. IncomingOfNobody'
  BY <1>3, SameFrames DEF CalmInv, IncomingOfNobody
<1>5. Promises'
  <2> SUFFICES ASSUME NEW g \in ToSet(stack') PROVE Promise(g)'
    BY DEF Promises
  <2>1. CASE g = Ignored(d)
    <3>1. g.k = "ignored" /\ g.d = d
      BY <2>1 DEF Ignored
    <3> QED
      BY <1>3, <3>1, SameFrames DEF Promise
  <2>2. CASE g = Send(d)
    BY <2>2 DEF Promise, Send
  <2> QED
    BY <1>2, <2>1, <2>2
<1>6. Shielded'
  <2>1. f \in Frame /\ f.k \in ThreadKind
    BY <1>2, FramesBuilt DEF Ignored, Send, ThreadKind
  <2>2. stack # << >> /\ stack[1].k \in ThreadKind /\ Become(f)
    BY DEF PutInFills, Top, ThreadKind
  <2> HIDE DEF f
  <2>3. stack' = <<f>>
    BY <2>1, <2>2, ThreadMoves DEF CalmInv
  <2> QED
    BY <2>3 DEF Shielded
<1> QED
  BY <1>1, <1>4, <1>5, <1>6, WaitersOfFilled DEF CalmInv
LEMMA TimeoutTellsCalm ==
  ASSUME CalmInv, UNCHANGED use, TypeInv', TimeoutTells
  PROVE  CalmInv' /\ buffer' = buffer
<1>1. /\ stack # << >> /\ stack[1].k = "timeout" /\ ~stack[1].told
      /\ UNCHANGED <<packetVars, sd, deviceVars>>
  BY DEF TimeoutTells, Top
<1>2. PICK s \in Slot, p \in Client : s = stack[1].s /\ p = mem[s].proc
  BY TimeoutTop, TimeoutTellsStack DEF TimeoutTells, CalmInv
<1>3. /\ ToSet(stack') \subseteq
           {Run(p, awaits[p], s, "timeout"), Timeout(s, TRUE)} \cup ToSet(Tail(stack))
      /\ awaits' = [awaits EXCEPT ![p] = NULL]
  BY <1>2, TimeoutTellsStack DEF CalmInv
<1>4. Insensitive(Tail(stack)) /\ Tail(stack) \in Seq(Frame)
  BY <1>1, ShieldedTop, TopFrame DEF CalmInv, TypeInv
<1>5. awaits[p] \in Pointer /\ s \in Pointer
  BY DEF CalmInv, TypeInv, TypeOK, Pointer
<1> DEFINE f == Timeout(s, TRUE)
           r == Run(p, awaits[p], s, "timeout")
<1>6. f \in Frame /\ r \in Frame /\ r.k = "run"
  BY <1>5, FramesBuilt DEF Run
<1>7. Shielded'
  <2>1. Post(p, s, "timeout", f)
    BY <1>2 DEF TimeoutTells, Tell
  <2>2. \/ stack' = <<f>> \o Tail(stack)
        \/ stack' = <<r>> \o (<<f>> \o Tail(stack))
    BY <2>1 DEF Post, Become
  <2> HIDE DEF f, r
  <2> QED
    BY <1>4, <1>6, <2>2, ShieldedFrame, ShieldedPost
<1>8. NoWaiter(s)'
  BY <1>2, <1>3, ToldNoWaiter DEF CalmInv, TypeInv
<1>9. Promises'
  <2> SUFFICES ASSUME NEW g \in ToSet(stack') PROVE Promise(g)'
    BY DEF Promises
  <2>1. CASE g = f
    <3>1. g.k = "timeout" /\ g.s = s
      BY <2>1 DEF Timeout
    <3>2. mem'[s].proc # NULL
      BY <1>1, <1>2, TypeFields DEF packetVars, CalmInv, TypeInv
    <3> QED
      BY <1>8, <3>1, <3>2 DEF Promise
  <2>2. CASE g # f
    <3>1. g = r \/ g \in ToSet(Tail(stack))
      BY <1>3, <2>2
    <3>2. ~Sensitive(r)
      BY DEF Run, Sensitive
    <3> HIDE DEF r
    <3>3. ~Sensitive(g)
      BY <1>4, <3>1, <3>2 DEF Insensitive
    <3> QED
      BY <3>3 DEF Promise, Sensitive
  <2> QED
    BY <2>1, <2>2
<1>10. SamePackets /\ buffer' = buffer
  BY <1>1 DEF SamePackets, packetVars
<1>11. WaiterHasPacket'
  <2>1. \A q \in Client : awaits'[q] \in {awaits[q], NULL}
    BY <1>3 DEF CalmInv, TypeInv, TypeOK
  <2> QED
    BY <1>10, <2>1, WaitersKept DEF CalmInv, TypeInv, Buffered
<1>12. IncomingOfNobody'
  BY <1>10, SameFrames DEF SamePackets, CalmInv, IncomingOfNobody
<1> QED
  BY <1>7, <1>9, <1>10, <1>11, <1>12 DEF CalmInv

\* An important packet leaves the buffer when it is over, or goes to the card.
Kept(s) ==
  mem[s].proc = NULL /\ mem[s].important /\ ~mem[s].incoming =>
    \/ /\ Top("answered")
       /\ last[stack[1].d] = s /\ mem[s].dest = stack[1].d
    \/ sd' # NULL /\ sd'.id = mem[s].id
KeptStep == \A s \in Buffered \ ToSet(buffer') : Kept(s)

LEMMA TimeoutRemovesCalm ==
  ASSUME CalmInv, UNCHANGED use, TypeInv', TimeoutRemoves
  PROVE  CalmInv' /\ KeptStep
<1>1. /\ stack # << >> /\ stack[1].k = "timeout" /\ stack' = Tail(stack)
      /\ UNCHANGED <<mem, last, place, answers, awaits>>
  BY DEF TimeoutRemoves, Top, Return
<1>2. PICK s \in Slot : s = stack[1].s
  BY TimeoutTop DEF TimeoutRemoves, CalmInv
<1>3. /\ stack[1].told \/ mem[s].proc = NULL
      /\ sd' = Spilled(s) /\ buffer' = Without(s)
  BY <1>2 DEF TimeoutRemoves
<1>4. Insensitive(stack')
  BY <1>1, ShieldedTop DEF CalmInv
<1>5. ToSet(buffer') = Buffered \ {s}
  BY <1>3, WithoutList DEF CalmInv, TypeInv, TypeOK
<1>6. stack[1].told => NoWaiter(s) /\ mem[s].proc # NULL
  BY <1>1, <1>2, TopFrame DEF CalmInv, TypeInv, Promises, Promise
<1>7. NoWaiter(s)
  <2>1. CASE mem[s].proc = NULL
    BY <2>1, TypeFields DEF CalmInv, TypeInv, WaiterHasPacket, NoWaiter
  <2> QED
    BY <1>3, <1>6, <2>1
<1>8. KeptStep
  <2> SUFFICES Kept(s)
    BY <1>5 DEF KeptStep
  <2> SUFFICES ASSUME mem[s].proc = NULL, mem[s].important, ~mem[s].incoming
               PROVE  sd' # NULL /\ sd'.id = mem[s].id
    BY DEF Kept
  <2>1. ~stack[1].told
    BY <1>6
  <2>2. sd' = [id |-> mem[s].id, dest |-> mem[s].dest]
    BY <1>3, <2>1 DEF Spilled
  <2>3. sd' \in [id : Nat, dest : Device]
    BY <2>2, TypeFields DEF Packet, CalmInv, TypeInv
  <2> QED
    BY <2>2, <2>3, NullAssumption
<1>9. SamePackets /\ \A p \in Client : awaits'[p] \in {awaits[p], NULL}
  BY <1>1 DEF SamePackets
<1>10. \A t \in Buffered : NoWaiter(t) \/ t \in ToSet(buffer')
  BY <1>5, <1>7
<1> QED
  BY <1>4, <1>8, <1>9, <1>10, CalmSame

\* A step of SCP_handle_connection that leaves the buffer alone.
LEMMA ThreadStepsCalm ==
  ASSUME CalmInv, UNCHANGED use, TypeInv',
         ThreadWaits \/ ThreadParseError \/ ThreadRequest \/ ThreadSends
  PROVE  CalmInv' /\ buffer' = buffer
<1>1. awaits' = awaits /\ buffer' = buffer
  BY DEF ThreadWaits, ThreadParseError, ThreadRequest, ThreadSends, packetVars
<1>2. SamePackets
  <2>1. ThreadSends => SamePackets
    BY SendsSamePackets DEF CalmInv
  <2> QED
    BY <2>1 DEF ThreadWaits, ThreadParseError, ThreadRequest, packetVars, SamePackets
<1>3. Insensitive(stack')
  <2>1. CASE ThreadWaits \/ ThreadParseError
    <3>1. /\ stack # << >> /\ stack[1].k \in ThreadKind
          /\ stack[1].d \in Device /\ Tail(stack) = << >>
      BY <2>1, ThreadTop DEF ThreadWaits, ThreadParseError, Top, ThreadKind, CalmInv
    <3> DEFINE f == Send(stack[1].d)
    <3>2. f \in Frame /\ f.k \in ThreadKind /\ ~Sensitive(f)
      BY <3>1, FramesBuilt DEF Send, ThreadKind, Sensitive
    <3>3. Return \/ Become(f)
      BY <2>1 DEF ThreadWaits, ThreadParseError
    <3> HIDE DEF f
    <3>4. Become(f) => ToSet(stack') = {f}
      BY <3>1, <3>2, ThreadMoves DEF CalmInv
    <3>5. Return => ToSet(stack') = {}
      BY <3>1 DEF Return, ToSet
    <3> QED
      BY <3>2, <3>3, <3>4, <3>5 DEF Insensitive
  <2>2. CASE ThreadRequest
    BY <2>2, ThreadRequestStack DEF CalmInv, Insensitive, Sensitive, PutIn
  <2>3. CASE ThreadSends
    BY <2>3, ThreadSendsData DEF CalmInv, Insensitive
  <2> QED
    BY <2>1, <2>2, <2>3
<1> QED
  BY <1>1, <1>2, <1>3, CalmSame DEF Buffered
LEMMA ThreadReplyCalm ==
  ASSUME CalmInv, UNCHANGED use, TypeInv', ThreadReply
  PROVE  CalmInv' /\ buffer' = buffer
<1>1. PICK d \in Device, s \in Slot \cup {SD} : d = stack[1].d /\ s = last[d]
  BY ThreadReplyStack DEF CalmInv
<1> DEFINE p == mem[s].proc
           r == Run(p, awaits[p], s, stack[1].data.k)
           f == Answered(d)
<1>2. /\ stack # << >> /\ stack[1].k = "thread" /\ stack[1].data.k \in Message
      /\ cur' = [cur EXCEPT ![d] = s] /\ mem[s].dest = d
  BY <1>1, ThreadReplyStack DEF CalmInv
<1>3. /\ UNCHANGED <<packetVars, sd, state, last, place, answers>>
      /\ \/ ~mem[s].incoming /\ p # NULL /\ Post(p, s, stack[1].data.k, f)
         \/ ~mem[s].incoming /\ p = NULL /\ Become(f) /\ UNCHANGED awaits
         \/ mem[s].incoming /\ Become(Send(d)) /\ UNCHANGED awaits
  BY <1>1 DEF ThreadReply
<1>4. p \in Client \cup {NULL} /\ Tail(stack) = << >> /\ s \in Pointer
  BY <1>2, TypeFields, ThreadTop DEF CalmInv, TypeInv, Packet, ThreadKind, Pointer
<1>5. SamePackets /\ buffer' = buffer /\ cur'[d] = s /\ last'[d] = s /\ mem'[s].dest = d
  BY <1>1, <1>2, <1>3 DEF SamePackets, packetVars, CalmInv, TypeInv, TypeOK
<1>6. f \in Frame /\ Send(d) \in Frame
  BY FramesBuilt
<1>7. CASE mem[s].incoming
  <2> DEFINE g == Send(d)
  <2>1. ~Sensitive(g) /\ g.k \in ThreadKind
    BY DEF Send, Sensitive, ThreadKind
  <2>2. Become(g) /\ awaits' = awaits
    BY <1>3, <1>7
  <2> HIDE DEF g
  <2>3. ToSet(stack') = {g}
    BY <1>2, <1>6, <2>1, <2>2, ThreadMoves DEF CalmInv, ThreadKind, g
  <2>4. Insensitive(stack')
    BY <2>1, <2>3 DEF Insensitive
  <2> QED
    BY <1>5, <2>2, <2>4, CalmSame DEF Buffered
<1>8. CASE ~mem[s].incoming
  <2>1. \/ p \in Client /\ awaits' = [awaits EXCEPT ![p] = NULL]
           /\ awaits[p] \in Pointer
           /\ (stack' = <<f>> \o << >> \/ stack' = <<r>> \o (<<f>> \o << >>))
        \/ p = NULL /\ UNCHANGED awaits /\ stack' = <<f>> \o << >>
    <3>1. CASE p # NULL
      <4>1. p \in Client /\ Post(p, s, stack[1].data.k, f)
        BY <1>3, <1>4, <1>8, <3>1
      <4>2. awaits \in [Client -> Slot \cup {NULL}]
        BY DEF CalmInv, TypeInv, TypeOK
      <4> HIDE DEF p, f
      <4>3. awaits' = [awaits EXCEPT ![p] = NULL] /\ awaits[p] \in Pointer
        BY <4>1, <4>2 DEF Post, Pointer
      <4>4. stack' = <<f>> \o << >> \/ stack' = <<r>> \o (<<f>> \o << >>)
        BY <1>4, <4>1 DEF Post, Become
      <4> QED
        BY <4>1, <4>3, <4>4
    <3>2. CASE p = NULL
      BY <1>3, <1>4, <1>8, <3>2 DEF Become
    <3> QED
      BY <3>1, <3>2
  <2>2. NoWaiter(s)'
    <3>1. CASE s \in Slot
      <4>1. \/ mem[s].proc = NULL /\ UNCHANGED awaits
            \/ mem[s].proc \in Client /\ awaits' = [awaits EXCEPT ![mem[s].proc] = NULL]
        BY <2>1
      <4> QED
        BY <3>1, <4>1, ToldNoWaiter DEF CalmInv, TypeInv
    <3>2. CASE s = SD
      <4>1. awaits' \in [Client -> Slot \cup {NULL}] /\ SD \notin Slot /\ NULL # SD
        BY TypeFields, SameFrames DEF CalmInv, TypeInv, TypeOK
      <4> QED
        BY <3>2, <4>1 DEF NoWaiter
    <3> QED
      BY <3>1, <3>2
  <2>3. << >> \in Seq(Frame) /\ Insensitive(<< >>)
    BY DEF Insensitive, ToSet
  <2>4. Shielded' /\ \A g \in ToSet(stack') : g = f \/ ~Sensitive(g)
    <3>1. CASE stack' = <<f>> \o << >>
      <4>1. Shielded'
        BY <1>6, <2>3, <3>1, ShieldedFrame
      <4>2. ToSet(stack') = {f} \cup ToSet(<< >>)
        BY <1>6, <3>1, PushedAlone
      <4> QED
        BY <2>3, <4>1, <4>2 DEF Insensitive
    <3>2. CASE p \in Client /\ awaits[p] \in Pointer /\ stack' = <<r>> \o (<<f>> \o << >>)
      <4>1. r \in Frame /\ r.k = "run" /\ ~Sensitive(r)
        BY <1>2, <1>4, <3>2, FramesBuilt DEF Run, Sensitive
      <4> HIDE DEF r, f
      <4>2. Shielded'
        BY <1>6, <2>3, <3>2, <4>1, ShieldedPost
      <4> DEFINE S == <<f>> \o << >>
      <4>3. S \in Seq(Frame) /\ ToSet(S) = {f} \cup ToSet(<< >>) /\ stack' = <<r>> \o S
        BY <1>6, <3>2, PushedAlone
      <4> HIDE DEF S
      <4>4. ToSet(stack') = {r} \cup ToSet(S)
        BY <4>1, <4>3, Pushed
      <4> QED
        BY <2>3, <4>1, <4>2, <4>3, <4>4 DEF Insensitive
    <3> QED
      BY <2>1, <3>1, <3>2
  <2>5. Promises'
    <3> SUFFICES ASSUME NEW g \in ToSet(stack') PROVE Promise(g)'
      BY DEF Promises
    <3>1. CASE g = f
      <4>1. g.k = "answered" /\ g.d = d
        BY <3>1 DEF Answered
      <4> QED
        BY <1>5, <2>2, <4>1, SameFrames DEF Promise
    <3>2. CASE ~Sensitive(g)
      BY <3>2 DEF Promise, Sensitive
    <3> QED
      BY <2>4, <3>1, <3>2
  <2>6. WaiterHasPacket' /\ IncomingOfNobody'
    <3>1. \A q \in Client : awaits'[q] \in {awaits[q], NULL}
      BY <2>1 DEF CalmInv, TypeInv, TypeOK
    <3>2. WaiterHasPacket'
      BY <1>5, <3>1, WaitersKept DEF CalmInv, TypeInv, Buffered
    <3> QED
      BY <1>5, <3>2, SameFrames DEF SamePackets, CalmInv, IncomingOfNobody
  <2> QED
    BY <1>3, <1>5, <2>4, <2>5, <2>6 DEF CalmInv
<1> QED
  BY <1>7, <1>8

\* A packet of nobody has nobody waiting for it.
LEMMA NobodyWaits ==
  ASSUME CalmInv, NEW s \in Slot, mem[s].incoming \/ mem[s].proc = NULL
  PROVE  NoWaiter(s)
BY TypeFields DEF CalmInv, TypeInv, IncomingOfNobody, WaiterHasPacket, NoWaiter

LEMMA ThreadEndsCalm ==
  ASSUME CalmInv, UNCHANGED use, TypeInv', ThreadAnswered \/ ThreadIgnores
  PROVE  CalmInv' /\ KeptStep
<1> DEFINE d == stack[1].d
           c == cur[d]
<1>1. /\ stack # << >> /\ stack[1].k \in {"answered", "ignored"} /\ stack[1].k \in ThreadKind
      /\ Become(Send(d)) /\ RemovePacket(c) /\ mem' = mem /\ awaits' = awaits
      /\ ThreadAnswered => stack[1].k = "answered"
      /\ ThreadIgnores => stack[1].k = "ignored"
  BY DEF ThreadAnswered, ThreadIgnores, IgnoredPacket, Top, ThreadKind
<1>2. d \in Device /\ ToSet(stack') = {Send(d)}
  BY <1>1, ToSendStack DEF CalmInv
<1>3. ToSet(buffer') = Buffered \ {c}
  BY <1>1, RemovePacketTyped DEF CalmInv, TypeInv
<1>4. Promise(stack[1]) /\ c \in Slot \cup {SD, NULL}
  BY <1>1, <1>2, TopFrame DEF CalmInv, TypeInv, TypeOK, Promises
<1>5. c \in Buffered => c \in Slot
  BY TypeFields DEF CalmInv, TypeInv
<1>6. c \in Buffered => NoWaiter(c)
  BY <1>1, <1>4, <1>5, NobodyWaits DEF Promise
<1>7. KeptStep
  <2> SUFFICES c \in Buffered => Kept(c)
    BY <1>3 DEF KeptStep
  <2> QED
    BY <1>1, <1>4 DEF Kept, Promise, Top
<1>8. Insensitive(stack')
  BY <1>2 DEF Insensitive, Send, Sensitive
<1>9. SamePackets /\ \A p \in Client : awaits'[p] \in {awaits[p], NULL}
  BY <1>1 DEF SamePackets
<1>10. \A t \in Buffered : NoWaiter(t) \/ t \in ToSet(buffer')
  BY <1>3, <1>6
<1> QED
  BY <1>7, <1>8, <1>9, <1>10, CalmSame

-----------------------------------------------------------------------------

LEMMA NetworkCalm ==
  ASSUME CalmInv, UNCHANGED use, TypeInv', Network
  PROVE  CalmInv' /\ KeptStep
<1>1. ASSUME NEW d \in Device, NEW data \in Incoming(d), Receive(d, data) \/ Acked(d, data)
      PROVE  CalmInv' /\ KeptStep
  <2>1. ToSet(stack') = {Thread(d, data)} /\ mem' = mem /\ awaits' = awaits
    BY <1>1, ReceivedStack DEF Receive, Acked, packetVars, CalmInv
  <2>2. Insensitive(stack')
    BY <2>1 DEF Insensitive, Thread, Sensitive
  <2>3. buffer' = buffer \/ (mem[cur[d]].incoming /\ buffer' = Without(cur[d]))
    BY <1>1 DEF Receive, Acked, packetVars
  <2>4. \A s \in Buffered : s \in ToSet(buffer') \/ mem[s].incoming
    BY <2>3, WithoutList DEF CalmInv, TypeInv, TypeOK, Buffered
  <2>5. \A s \in Buffered : NoWaiter(s) \/ s \in ToSet(buffer')
    BY <2>4, NobodyWaits, TypeFields DEF CalmInv, TypeInv
  <2>6. SamePackets /\ \A p \in Client : awaits'[p] \in {awaits[p], NULL}
    BY <2>1 DEF SamePackets
  <2>7. KeptStep
    BY <2>4 DEF KeptStep, Kept
  <2> QED
    BY <2>2, <2>5, <2>6, <2>7, CalmSame
<1>2. ASSUME NEW d \in Device, Connected(d) \/ Closed(d) \/ Aborted(d) \/ CloseTimedOut(d)
      PROVE  CalmInv' /\ KeptStep
  <2>1. stack = << >> /\ stack' = stack /\ buffer' = buffer /\ awaits' = awaits
    BY <1>2 DEF Connected, Closed, Aborted, CloseTimedOut, Idle, packetVars
  <2>2. SamePackets
    <3>1. mem' = mem \/ SockEnd(d)
      BY <1>2 DEF Connected, Closed, Aborted, CloseTimedOut, packetVars
    <3>2. mem' = mem => SamePackets
      BY DEF SamePackets
    <3> QED
      BY <3>1, <3>2, SockEndSamePackets DEF CalmInv, TypeInv
  <2>3. Insensitive(stack')
    BY <2>1 DEF Insensitive, ToSet
  <2>4. KeptStep
    BY <2>1 DEF KeptStep, Buffered
  <2> QED
    BY <2>1, <2>2, <2>3, <2>4, CalmSame DEF Buffered
<1> QED
  BY <1>1, <1>2 DEF Network

LEMMA TimersCalm ==
  ASSUME CalmInv, UNCHANGED use, TypeInv', Timers
  PROVE  CalmInv' /\ buffer' = buffer
<1>1. buffer' = buffer /\ awaits' = awaits
  BY DEF Timers, TimerExpires, Tick
<1>2. SamePackets /\ Insensitive(stack')
  <2>1. ASSUME NEW s \in Slot \cup {SD}, TimerExpires(s) PROVE SamePackets /\ Insensitive(stack')
    BY <2>1 DEF TimerExpires, Idle, SamePackets, Insensitive, ToSet
  <2>2. ASSUME NEW d \in Device, Tick(d) PROVE SamePackets /\ Insensitive(stack')
    <3>1. SamePackets
      BY <2>2, TickSamePackets DEF CalmInv, TypeInv
    <3>2. stack' = << >> \/ \E s \in Buffered : stack' = <<Timeout(s, FALSE)>>
      BY <2>2, TickStack DEF CalmInv
    <3>3. \A s : ~Sensitive(Timeout(s, FALSE))
      BY DEF Timeout, Sensitive
    <3>4. ASSUME NEW f, stack' = <<f>> PROVE ToSet(stack') = {f}
      BY <3>4 DEF ToSet
    <3>5. stack' = << >> => ToSet(stack') = {}
      BY DEF ToSet
    <3>6. CASE \E s \in Buffered : stack' = <<Timeout(s, FALSE)>>
      <4>1. PICK s \in Buffered : stack' = <<Timeout(s, FALSE)>>
        BY <3>6
      <4> DEFINE f == Timeout(s, FALSE)
      <4>2. ToSet(stack') = {f}
        <5> HIDE DEF f
        <5> QED
          BY <3>4, <4>1 DEF f
      <4> QED
        BY <3>1, <3>3, <4>2 DEF Insensitive
    <3>7. CASE stack' = << >>
      BY <3>1, <3>5, <3>7 DEF Insensitive
    <3> QED
      BY <3>2, <3>6, <3>7
  <2> QED
    BY <2>1, <2>2 DEF Timers
<1> QED
  BY <1>1, <1>2, CalmSame DEF Buffered

LEMMA InitCalm == Init /\ use.nested = {} => CalmInv
<1> SUFFICES ASSUME Init, use.nested = {} PROVE CalmInv
  OBVIOUS
<1>1. TypeInv
  BY InitTyped
<1>2. WaiterHasPacket
  BY DEF Init, WaiterHasPacket
<1>3. IncomingOfNobody
  BY DEF Init, IncomingOfNobody
<1> QED
  BY <1>1, <1>2, <1>3 DEF Init, CalmInv, Shielded, Promises, ToSet

LEMMA CalmNext == CalmInv /\ [Next]_<<use, vars>> => CalmInv' /\ KeptStep
<1> SUFFICES ASSUME CalmInv, [Next]_<<use, vars>> PROVE CalmInv' /\ KeptStep
  OBVIOUS
<1>0. TypeInv'
  BY NextTyped DEF CalmInv
<1>1. Buffered \subseteq ToSet(buffer') => KeptStep
  BY DEF KeptStep
<1>2. CASE UNCHANGED <<use, vars>>
  <2>1. UNCHANGED <<use, mem, buffer, cur, last, awaits, stack>>
    BY <1>2 DEF vars, packetVars, deviceVars
  <2>2. KeptStep
    BY <2>1 DEF KeptStep, Buffered
  <2>3. Shielded' /\ Promises'
    BY <2>1, SameFrames DEF CalmInv, Shielded, Promises, Promise, NoWaiter
  <2>4. WaiterHasPacket' /\ IncomingOfNobody'
    BY <2>1, SameFrames DEF CalmInv, WaiterHasPacket, IncomingOfNobody, Buffered
  <2> QED
    BY <1>0, <2>1, <2>2, <2>3, <2>4 DEF CalmInv
<1>3. CASE Clients /\ UNCHANGED use
  BY <1>0, <1>1, <1>3, ClientsCalm DEF Buffered
<1>4. CASE Library /\ UNCHANGED use
  <2>1. buffer' = buffer => KeptStep
    BY DEF KeptStep, Buffered
  <2>2. CASE ClientReturns \/ PutEvicts \/ TimeoutTells \/ ThreadReply
    BY <1>0, <1>4, <2>1, <2>2, ClientReturnsCalm, PutEvictsCalm, TimeoutTellsCalm, ThreadReplyCalm
  <2>3. CASE PutFills \/ PutInFills
    BY <1>0, <1>1, <1>4, <2>3, PutFillsCalm, PutInFillsCalm
  <2>4. CASE ThreadWaits \/ ThreadParseError \/ ThreadRequest \/ ThreadSends
    BY <1>0, <1>4, <2>1, <2>4, ThreadStepsCalm
  <2>5. CASE TimeoutRemoves \/ ThreadAnswered \/ ThreadIgnores
    BY <1>0, <1>4, <2>5, TimeoutRemovesCalm, ThreadEndsCalm
  <2> QED
    BY <1>4, <2>2, <2>3, <2>4, <2>5 DEF Library
<1>5. CASE Network /\ UNCHANGED use
  BY <1>0, <1>5, NetworkCalm
<1>6. CASE Timers /\ UNCHANGED use
  BY <1>0, <1>1, <1>6, TimersCalm DEF Buffered
<1> QED
  BY <1>2, <1>3, <1>4, <1>5, <1>6 DEF Next

(***************************************************************************)
(* A process that waits for a packet has it in the buffer, with any number *)
(* of slots, devices and processes and whatever the devices send, if no    *)
(* process puts a packet when a reply or a timeout has resumed it.  With   *)
(* one that does it is false: such a packet may take the slot whose        *)
(* timeout is under way, and goes with it (SCP_Buffer.c lines 177-200).    *)
(***************************************************************************)
THEOREM WaitersServed == Spec /\ use.nested = {} => []WaiterHasPacket
<1>1. CalmInv => WaiterHasPacket
  BY DEF CalmInv
<1>2. CalmInv /\ [Next]_<<use, vars>> => CalmInv'
  BY CalmNext
<1> QED
  BY <1>1, <1>2, InitCalm, PTL DEF Spec

(***************************************************************************)
(* ... and an important packet of nobody is not lost: it leaves the buffer *)
(* when its device has answered it, or for the SD card (SCP_Buffer.c lines *)
(* 74-86, SCP_Comm.c lines 334-343).                                       *)
(***************************************************************************)
THEOREM ImportantNotLost == Spec /\ use.nested = {} => ImportantKept
<1>1. CalmInv /\ [Next]_<<use, vars>> => CalmInv'
  BY CalmNext
<1>2. CalmInv /\ [Next]_<<use, vars>> =>
        [\A s \in Buffered \ ToSet(buffer') :
           mem[s].proc = NULL /\ mem[s].important /\ ~mem[s].incoming =>
             \/ /\ Top("answered")
                /\ last[stack[1].d] = s /\ mem[s].dest = stack[1].d
             \/ sd' # NULL /\ sd'.id = mem[s].id]_vars
  BY CalmNext DEF KeptStep, Kept
<1> QED
  BY <1>1, <1>2, InitCalm, PTL DEF Spec, ImportantKept
-----------------------------------------------------------------------------
(* When no device sends requests and nothing goes to the SD card, a        *)
(* connection waits for one reply at a time, and to that packet alone.     *)

Uncarded == "important" \notin use.puts \cup use.nested
NothingSpilled ==
  /\ Uncarded /\ sd = NULL
  /\ \A s \in Slot : ~mem[s].incoming /\ (mem[s].proc = NULL => ~mem[s].important)
  /\ \A d \in Device : cur[d] # SD /\ last[d] # SD

CurLive == \A d \in Device : cur[d] \in Slot => cur[d] \in Buffered /\ mem[cur[d]].dest = d

\* What is under way on the connection of d, while its protothread waits.
Linked(d) ==
  \/ place[d] = "wait" /\ cur[d] = NULL /\ answers[d] = {}
  \/ /\ cur[d] \in Slot /\ answers[d] \subseteq {mem[cur[d]].id}
     /\ place[d] = "wait" => last[d] = cur[d]
Threaded(d) == \E f \in ToSet(stack) : f.k \in ThreadKind /\ f.d = d
LinksOK == \A d \in Device : state[d] = "connected" /\ ~Threaded(d) => Linked(d)
DownQuiet == \A d \in Device : state[d] \in Down \cup {"connecting"} => answers[d] = {}

\* ... and at its other places.
FrameOK(f) ==
  /\ f.k \notin {"putin", "ignored"}
  /\ f.k = "put" /\ f.proc = NULL => ~f.important
  /\ f.k = "thread" =>
       /\ f.data.k \in {"none", "reply"} /\ Linked(f.d)
       /\ f.data.k = "reply" =>
            cur[f.d] \in Slot /\ answers[f.d] = {} /\ mem[cur[f.d]].id = f.data.id
  /\ f.k = "answered" => answers[f.d] = {} /\ (cur[f.d] # NULL => cur[f.d] = last[f.d])
  /\ f.k = "send" => answers[f.d] = {} /\ cur[f.d] = NULL
  /\ f.k \in ThreadKind => state[f.d] \in {"connected", "timeout"}
FramesOK == \A f \in ToSet(stack) : FrameOK(f)

LinkInv ==
  /\ TypeInv /\ Server = {}
  /\ NothingSpilled /\ CurLive /\ LinksOK /\ DownQuiet /\ FramesOK

\* Nothing is called from the places of the protothread that post nothing.
LEMMA InnerKinds ==
  ASSUME TypeInv, stack # << >>, NEW f \in ToSet(Tail(stack))
  PROVE  f.k \notin {"thread", "send", "ignored"}
<1>1. /\ Len(stack) \in Nat \ {0} /\ Len(Tail(stack)) = Len(stack) - 1
      /\ Tail(stack) \in Seq(Frame)
      /\ \A i \in 1..(Len(stack) - 1) : Tail(stack)[i] = stack[i + 1]
  BY Popped DEF TypeInv, StackOK
<1>2. PICK j \in 1..(Len(stack) - 1) : f = Tail(stack)[j]
  BY <1>1 DEF ToSet
<1>3. Under(stack[j], f)
  BY <1>1, <1>2 DEF TypeInv, StackOK, Nested
<1> QED
  BY <1>3 DEF Under

\* A step that leaves the packets of the buffer and the connections alone.
LEMMA LinksKept ==
  ASSUME LinkInv, UNCHANGED use, TypeInv', UNCHANGED <<sd, deviceVars>>,
         \A s \in Slot : ~mem'[s].incoming /\ (mem'[s].proc = NULL => ~mem'[s].important),
         \A s \in Buffered :
            s \in ToSet(buffer') /\ mem'[s].dest = mem[s].dest /\ mem'[s].id = mem[s].id,
         \A f \in ToSet(stack') : f \in ToSet(stack) \/ FrameOK(f),
         \A f \in ToSet(stack) : f.k \in ThreadKind => f \in ToSet(stack') \/ Linked(f.d)
  PROVE  LinkInv'
<1>1. NothingSpilled' /\ DownQuiet'
  BY SameFrames DEF LinkInv, NothingSpilled, Uncarded, DownQuiet, deviceVars
<1>2. CurLive'
  BY SameFrames DEF LinkInv, CurLive, Buffered, deviceVars
<1>3. \A d \in Device : cur[d] \in Slot => mem'[cur[d]].id = mem[cur[d]].id
  BY DEF LinkInv, CurLive
<1>4. \A d \in Device : Linked(d) => Linked(d)'
  BY <1>3, SameFrames DEF Linked, deviceVars
<1>5. LinksOK'
  <2> SUFFICES ASSUME NEW d \in Device, state[d] = "connected", ~Threaded(d)' PROVE Linked(d)'
    BY DEF LinksOK, deviceVars
  <2>1. CASE ~Threaded(d)
    BY <1>4, <2>1 DEF LinkInv, LinksOK
  <2>2. CASE Threaded(d)
    <3>1. PICK f \in ToSet(stack) : f.k \in ThreadKind /\ f.d = d
      BY <2>2 DEF Threaded
    <3>2. f \notin ToSet(stack')
      BY <3>1 DEF Threaded
    <3> QED
      BY <1>4, <3>1, <3>2
  <2> QED
    BY <2>1, <2>2
<1>6. FramesOK'
  <2> SUFFICES ASSUME NEW f \in ToSet(stack') PROVE FrameOK(f)'
    BY DEF FramesOK
  <2>1. FrameOK(f)
    BY DEF LinkInv, FramesOK
  <2>2. f.k = "thread" => f.d \in Device
    <3>1. f \in Frame
      BY SameFrames DEF TypeInv, StackOK, ToSet
    <3> QED
      BY <3>1, FrameFields DEF ThreadKind
  <2>3. f.k = "thread" => Linked(f.d)' /\ (cur[f.d] \in Slot => mem'[cur[f.d]].id = mem[cur[f.d]].id)
    BY <1>3, <1>4, <2>1, <2>2 DEF FrameOK
  <2> QED
    BY <2>1, <2>3, SameFrames DEF FrameOK, deviceVars
<1> QED
  BY <1>1, <1>2, <1>5, <1>6 DEF LinkInv

\* A step that only moves frames.
LEMMA LinksSame ==
  ASSUME LinkInv, UNCHANGED use, TypeInv', UNCHANGED <<mem, buffer, sd, deviceVars>>,
         \A f \in ToSet(stack') : f \in ToSet(stack) \/ FrameOK(f),
         \A f \in ToSet(stack) : f.k \in ThreadKind => f \in ToSet(stack') \/ Linked(f.d)
  PROVE  LinkInv'
<1>1. \A s \in Slot : ~mem'[s].incoming /\ (mem'[s].proc = NULL => ~mem'[s].important)
  BY DEF LinkInv, NothingSpilled
<1>2. \A s \in Buffered :
         s \in ToSet(buffer') /\ mem'[s].dest = mem[s].dest /\ mem'[s].id = mem[s].id
  BY DEF Buffered
<1> QED
  BY <1>1, <1>2, LinksKept

LEMMA ClientsLinked ==
  ASSUME LinkInv, UNCHANGED use, TypeInv', Clients \/ ClientReturns
  PROVE  LinkInv'
<1>1. UNCHANGED <<mem, buffer, sd, deviceVars>>
  BY DEF Clients, ClientRuns, ClientPuts, ClientReturns, packetVars
<1>2. /\ \A f \in ToSet(stack') : f \in ToSet(stack) \/ FrameOK(f)
      /\ \A f \in ToSet(stack) : f.k \in ThreadKind => f \in ToSet(stack')
  <2>1. ASSUME NEW p \in Client, ClientRuns(p)
        PROVE  /\ \A f \in ToSet(stack') : f \in ToSet(stack) \/ FrameOK(f)
               /\ \A f \in ToSet(stack) : f.k \in ThreadKind => f \in ToSet(stack')
    <3> DEFINE f == Run(p, NULL, NULL, "own")
    <3>1. stack' = <<f>> \o stack /\ f \in Frame
      BY <2>1, FramesBuilt DEF ClientRuns, Call, Pointer
    <3>2. FrameOK(f)
      BY DEF Run, FrameOK, ThreadKind
    <3> HIDE DEF f
    <3> QED
      BY <3>1, <3>2, Pushed DEF LinkInv, TypeInv, StackOK
  <2>2. ASSUME NEW kind \in Kind, NEW d \in Device, ClientPuts(kind, d)
        PROVE  /\ \A f \in ToSet(stack') : f \in ToSet(stack) \/ FrameOK(f)
               /\ \A f \in ToSet(stack) : f.k \in ThreadKind => f \in ToSet(stack')
    <3> DEFINE f == Put(IF kind = "send" THEN stack[1].p ELSE NULL, kind # "buffer", d)
    <3>1. stack # << >> /\ stack[1].k = "run" /\ stack' = <<f>> \o stack /\ kind # "important"
      BY <2>2 DEF ClientPuts, Top, Call, LinkInv, NothingSpilled, Uncarded
    <3>2. stack[1].p \in Client /\ NULL \notin Client
      BY <3>1, TopFrame, FrameFields, TypeFields DEF LinkInv, TypeInv
    <3>3. f \in Frame
      BY <3>2, FramesBuilt
    <3>4. FrameOK(f)
      BY <3>1, <3>2 DEF Put, FrameOK, Kind, ThreadKind
    <3> HIDE DEF f
    <3> QED
      BY <3>1, <3>3, <3>4, Pushed DEF LinkInv, TypeInv, StackOK
  <2>3. CASE ClientReturns
    <3>1. stack # << >> /\ stack[1].k \notin ThreadKind /\ stack' = Tail(stack)
      BY <2>3 DEF ClientReturns, Top, Return, ThreadKind
    <3> QED
      BY <3>1, TopFrame DEF LinkInv, TypeInv
  <2> QED
    BY <2>1, <2>2, <2>3 DEF Clients
<1> QED
  BY <1>1, <1>2, LinksSame

LEMMA PutEvictsLinked ==
  ASSUME LinkInv, UNCHANGED use, TypeInv', PutEvicts
  PROVE  LinkInv'
<1>1. stack # << >> /\ stack[1] \in ToSet(stack) /\ stack' = <<Evict>> \o stack
  BY TopFrame DEF PutEvicts, Top, Call, LinkInv, TypeInv
<1>2. stack[1].k = "put"
  BY <1>1 DEF PutEvicts, Top, LinkInv, FramesOK, FrameOK
<1>3. UNCHANGED <<mem, buffer, sd, deviceVars>>
  BY <1>2 DEF PutEvicts, Top, deviceVars, packetVars
<1>4. Evict \in Frame /\ FrameOK(Evict)
  BY TypeFields, FramesBuilt DEF Evict, Timeout, FrameOK, ThreadKind, LinkInv, TypeInv
<1>5. ToSet(stack') = {Evict} \cup ToSet(stack)
  BY <1>1, <1>4, Pushed DEF LinkInv, TypeInv, StackOK
<1> QED
  BY <1>3, <1>4, <1>5, LinksSame

LEMMA TimeoutTellsLinked ==
  ASSUME LinkInv, UNCHANGED use, TypeInv', TimeoutTells
  PROVE  LinkInv'
<1>1. /\ stack # << >> /\ stack[1].k \notin ThreadKind
      /\ UNCHANGED <<mem, buffer, sd, deviceVars>>
  BY DEF TimeoutTells, Top, ThreadKind, packetVars
<1> DEFINE s == stack[1].s
           r == Run(mem[s].proc, awaits[mem[s].proc], s, "timeout")
<1>2. /\ ToSet(stack') \subseteq {r, Timeout(s, TRUE)} \cup ToSet(Tail(stack))
      /\ ToSet(Tail(stack)) \subseteq ToSet(stack')
      /\ ToSet(stack) = {stack[1]} \cup ToSet(Tail(stack))
  BY <1>1, TimeoutTellsStack, TopFrame DEF LinkInv, TypeInv
<1>3. FrameOK(r) /\ FrameOK(Timeout(s, TRUE))
  BY DEF Run, Timeout, FrameOK, ThreadKind
<1> HIDE DEF r, s
<1> QED
  BY <1>1, <1>2, <1>3, LinksSame

LEMMA ThreadWaitsLinked ==
  ASSUME LinkInv, UNCHANGED use, TypeInv', ThreadWaits
  PROVE  LinkInv'
<1>1. /\ stack # << >> /\ stack[1].k = "thread" /\ stack[1].k \in ThreadKind
      /\ stack[1].d \in Device /\ ToSet(stack) = {stack[1]} /\ Tail(stack) = << >>
      /\ UNCHANGED <<mem, buffer, sd, deviceVars>>
  BY ThreadTop DEF ThreadWaits, Top, ThreadKind, LinkInv, packetVars
<1>2. Linked(stack[1].d) /\ state[stack[1].d] \in {"connected", "timeout"}
  BY <1>1 DEF LinkInv, FramesOK, FrameOK
<1> DEFINE f == Send(stack[1].d)
<1>3. \A g \in ToSet(stack') : FrameOK(g)
  <2>1. CASE cur[stack[1].d] = NULL
    <3>1. FrameOK(f)
      BY <1>2, <2>1, TypeFields DEF FrameOK, Linked, Send, LinkInv, TypeInv
    <3>2. f \in Frame /\ f.k \in ThreadKind /\ Become(f)
      BY <1>1, <2>1, FramesBuilt DEF ThreadWaits, Send, ThreadKind
    <3> HIDE DEF f
    <3>3. ToSet(stack') = {f}
      BY <1>1, <3>2, ThreadMoves DEF LinkInv
    <3> QED
      BY <3>1, <3>3
  <2>2. CASE cur[stack[1].d] # NULL
    <3>1. stack' = << >>
      BY <1>1, <2>2 DEF ThreadWaits, Return
    <3> QED
      BY <3>1 DEF ToSet
  <2> QED
    BY <2>1, <2>2
<1> QED
  BY <1>1, <1>2, <1>3, LinksSame

LEMMA PutFillsLinked ==
  ASSUME LinkInv, UNCHANGED use, TypeInv', PutFills
  PROVE  LinkInv'
<1>1. /\ stack # << >> /\ stack[1] \in ToSet(stack) /\ stack[1].k = "put"
      /\ ToSet(stack) = {stack[1]} \cup ToSet(Tail(stack)) /\ ToSet(stack') \subseteq ToSet(stack)
  BY PutFillsStack, TopFrame DEF LinkInv, TypeInv
<1>2. \A f \in ToSet(stack) : f.k \in ThreadKind => f \in ToSet(stack')
  <2>1. CASE stack[1].proc = NULL
    <3>1. stack' = Tail(stack)
      BY <2>1, PutFillsStack DEF LinkInv, TypeInv
    <3> QED
      BY <1>1, <3>1 DEF ThreadKind
  <2>2. CASE stack[1].proc # NULL
    <3>1. stack' = Tail(Tail(stack)) /\ Tail(stack) # << >> /\ Tail(stack)[1].k = "run"
      BY <2>2, PutFillsStack DEF LinkInv, TypeInv
    <3>2. Tail(stack) \in Seq(Frame) /\ Nested(Tail(stack))
      BY <1>1, TopFrame DEF LinkInv, TypeInv
    <3>3. ToSet(Tail(stack)) = {Tail(stack)[1]} \cup ToSet(stack')
      BY <3>1, <3>2, PopNested
    <3> QED
      BY <1>1, <3>1, <3>3 DEF ThreadKind
  <2> QED
    BY <2>1, <2>2
<1>3. PICK s \in Slot :
        /\ s \in Free /\ ToSet(buffer') = Buffered \cup {s}
        /\ mem'[s].proc = stack[1].proc /\ ~mem'[s].incoming
        /\ mem'[s].important = stack[1].important
        /\ \A t \in Slot \cup {SD} : t # s => mem'[t] = mem[t]
  BY PutFillsSlot DEF LinkInv
<1>4. stack[1].proc = NULL => ~stack[1].important
  BY <1>1 DEF LinkInv, FramesOK, FrameOK
<1>5. \A t \in Slot : ~mem'[t].incoming /\ (mem'[t].proc = NULL => ~mem'[t].important)
  BY <1>3, <1>4 DEF LinkInv, NothingSpilled
<1>6. \A t \in Buffered :
         t \in ToSet(buffer') /\ mem'[t].dest = mem[t].dest /\ mem'[t].id = mem[t].id
  BY <1>3, TypeFields DEF Free, LinkInv, TypeInv
<1> QED
  BY <1>1, <1>2, <1>5, <1>6, LinksKept DEF PutFills

LEMMA TimeoutRemovesLinked ==
  ASSUME LinkInv, UNCHANGED use, TypeInv', TimeoutRemoves
  PROVE  LinkInv'
<1>1. /\ stack # << >> /\ stack[1].k = "timeout" /\ stack' = Tail(stack)
      /\ UNCHANGED <<mem, last, place, answers, awaits>>
  BY DEF TimeoutRemoves, Top, Return
<1>2. PICK s \in Slot : s = stack[1].s
  BY TimeoutTop DEF TimeoutRemoves, LinkInv
<1>3. /\ stack[1].told \/ mem[s].proc = NULL
      /\ sd' = Spilled(s) /\ buffer' = Without(s) /\ cur' = Unused(s) /\ state' = Closing(s)
  BY <1>2 DEF TimeoutRemoves
<1>4. ToSet(buffer') = Buffered \ {s}
  BY <1>3, WithoutList DEF LinkInv, TypeInv, TypeOK
<1>5. \A d \in Device : cur'[d] = IF cur[d] = s THEN NULL ELSE cur[d]
  BY <1>3 DEF Unused
<1>6. \A d \in Device :
        /\ state'[d] \in {state[d], "timeout"}
        /\ cur[d] = s => state'[d] # "connected"
  BY <1>3 DEF Closing
<1>7. NULL \notin Slot /\ SD # NULL
  BY TypeFields DEF LinkInv, TypeInv
<1>8. sd' = NULL
  BY <1>3 DEF Spilled, LinkInv, NothingSpilled
<1>9. NothingSpilled'
  BY <1>1, <1>5, <1>7, <1>8, SameFrames DEF LinkInv, NothingSpilled, Uncarded
<1>10. CurLive'
  BY <1>1, <1>4, <1>5, <1>7, SameFrames DEF LinkInv, CurLive, Buffered
<1>11. DownQuiet'
  BY <1>1, <1>6 DEF LinkInv, DownQuiet, Down
<1>12. ToSet(stack) = {stack[1]} \cup ToSet(stack')
  BY <1>1, TopFrame DEF LinkInv, TypeInv
<1>13. LinksOK'
  <2> SUFFICES ASSUME NEW d \in Device, state'[d] = "connected", ~Threaded(d)' PROVE Linked(d)'
    BY DEF LinksOK
  <2>1. cur[d] # s /\ state[d] = "connected" /\ cur'[d] = cur[d]
    BY <1>5, <1>6
  <2>2. ~Threaded(d)
    BY <1>1, <1>12 DEF Threaded, ThreadKind
  <2> QED
    BY <1>1, <2>1, <2>2, SameFrames DEF LinkInv, LinksOK, Linked
<1>14. FramesOK'
  <2> SUFFICES ASSUME NEW f \in ToSet(stack') PROVE FrameOK(f)'
    BY DEF FramesOK
  <2>1. FrameOK(f) /\ f.k \notin {"thread", "send", "ignored"}
    BY <1>1, <1>12, InnerKinds DEF LinkInv, FramesOK
  <2>2. f.k \in ThreadKind => f.d \in Device
    <3>1. Tail(stack) \in Seq(Frame)
      BY <1>1, TopFrame DEF LinkInv, TypeInv
    <3>2. f \in Frame
      BY <1>1, <3>1 DEF ToSet
    <3> QED
      BY <3>2, FrameFields DEF ThreadKind
  <2>3. f.k = "answered" => f.k \in ThreadKind
    BY DEF ThreadKind
  <2> QED
    BY <1>1, <1>5, <1>6, <2>1, <2>2, <2>3 DEF FrameOK
<1> QED
  BY <1>9, <1>10, <1>11, <1>13, <1>14 DEF LinkInv

LEMMA TimersLinked ==
  ASSUME LinkInv, UNCHANGED use, TypeInv', Timers
  PROVE  LinkInv'
<1>1. ASSUME NEW s \in Slot \cup {SD}, TimerExpires(s) PROVE LinkInv'
  BY <1>1, LinksSame DEF TimerExpires
<1>2. ASSUME NEW d \in Device, Tick(d) PROVE LinkInv'
  <2>1. /\ SamePackets
        /\ stack = << >>
        /\ stack' = << >> \/ \E s \in Buffered : stack' = <<Timeout(s, FALSE)>>
    BY <1>2, TickSamePackets, TickStack DEF LinkInv, TypeInv
  <2>2. /\ UNCHANGED <<buffer, sd, cur, last, place, answers, awaits>>
        /\ \A e \in Device :
             \/ state'[e] = state[e]
             \/ state[e] \in Down /\ state'[e] \in {"connecting", "offline"}
    BY <1>2 DEF Tick, LinkInv, TypeInv, TypeOK
  <2>3. \A f \in ToSet(stack') : f.k = "timeout"
    <3>1. CASE stack' = << >>
      BY <3>1 DEF ToSet
    <3>2. CASE \E s \in Buffered : stack' = <<Timeout(s, FALSE)>>
      <4>1. PICK s \in Buffered : stack' = <<Timeout(s, FALSE)>>
        BY <3>2
      <4> DEFINE f == Timeout(s, FALSE)
      <4>2. f.k = "timeout"
        BY DEF Timeout
      <4> HIDE DEF f
      <4>3. stack' = <<f>>
        BY <4>1 DEF f
      <4> QED
        BY <4>2, <4>3 DEF ToSet
    <3> QED
      BY <2>1, <3>1, <3>2
  <2>4. NothingSpilled' /\ CurLive'
    BY <2>1, <2>2, SameFrames DEF SamePackets, LinkInv, NothingSpilled, Uncarded, CurLive, Buffered
  <2>5. DownQuiet'
    BY <2>2 DEF LinkInv, DownQuiet, Down
  <2>6. LinksOK'
    <3> SUFFICES ASSUME NEW e \in Device, state'[e] = "connected" PROVE Linked(e)'
      BY DEF LinksOK
    <3>1. state[e] = "connected" /\ ~Threaded(e)
      BY <2>1, <2>2 DEF Threaded, ToSet
    <3>2. Linked(e)
      BY <3>1 DEF LinkInv, LinksOK
    <3> QED
      BY <2>1, <2>2, <3>2, SameFrames DEF Linked, SamePackets
  <2>7. FramesOK'
    BY <2>3 DEF FramesOK, FrameOK, ThreadKind
  <2> QED
    BY <2>4, <2>5, <2>6, <2>7 DEF LinkInv
<1> QED
  BY <1>1, <1>2 DEF Timers

\* A step of the connection of d alone.
LEMMA OneConnection ==
  ASSUME LinkInv, UNCHANGED use, TypeInv', NEW d \in Device,
         SamePackets, sd' = NULL, cur'[d] # SD, last'[d] # SD,
         \A e \in Device : e # d =>
            /\ cur'[e] = cur[e] /\ last'[e] = last[e] /\ place'[e] = place[e]
            /\ answers'[e] = answers[e] /\ state'[e] = state[e],
         \A s \in Buffered : s \in ToSet(buffer') \/ mem[s].dest = d,
         cur'[d] \in Slot => cur'[d] \in ToSet(buffer') /\ mem[cur'[d]].dest = d,
         state'[d] \in Down \cup {"connecting"} => answers'[d] = {},
         \A f \in ToSet(stack) : f.k \in ThreadKind => f.d = d,
         \A f \in ToSet(stack') : FrameOK(f)',
         state'[d] = "connected" => Linked(d)' \/ \E f \in ToSet(stack') : f.k \in ThreadKind /\ f.d = d
  PROVE  LinkInv'
<1>1. NothingSpilled'
  BY SameFrames DEF LinkInv, NothingSpilled, Uncarded, SamePackets
<1>2. CurLive'
  BY SameFrames DEF LinkInv, CurLive, SamePackets, Buffered
<1>3. DownQuiet'
  BY DEF LinkInv, DownQuiet
<1>4. LinksOK'
  <2> SUFFICES ASSUME NEW e \in Device, state'[e] = "connected", ~Threaded(e)' PROVE Linked(e)'
    BY DEF LinksOK
  <2>1. CASE e = d
    BY <2>1 DEF Threaded
  <2>2. CASE e # d
    <3>1. ~Threaded(e) /\ state[e] = "connected"
      BY <2>2 DEF Threaded
    <3>2. Linked(e)
      BY <3>1 DEF LinkInv, LinksOK
    <3> QED
      BY <2>2, <3>2, SameFrames DEF Linked, SamePackets
  <2> QED
    BY <2>1, <2>2
<1> QED
  BY <1>1, <1>2, <1>3, <1>4 DEF LinkInv, FramesOK

\* What the device sends is the reply to the packet under way.
LEMMA RepliesLinked ==
  ASSUME LinkInv, NEW d \in Device, NEW data \in Incoming(d), Linked(d)
  PROVE  \/ data = NoData /\ data.k = "none" /\ data.id = -1
         \/ /\ data.k = "reply" /\ cur[d] \in Slot /\ data.id = mem[cur[d]].id
            /\ answers[d] = {data.id}
<1>1. data = NoData \/ \E id \in answers[d] : data = Data("reply", id)
  BY DEF Incoming, LinkInv
<1>2. CASE data = NoData
  BY <1>2 DEF NoData
<1>3. CASE \E id \in answers[d] : data = Data("reply", id)
  <2>1. data.k = "reply" /\ data.id \in answers[d]
    BY <1>3 DEF Data
  <2> QED
    BY <2>1 DEF Linked
<1> QED
  BY <1>1, <1>2, <1>3

LEMMA ReceivedLinked ==
  ASSUME LinkInv, UNCHANGED use, TypeInv', NEW d \in Device, NEW data \in Incoming(d),
         Receive(d, data) \/ Acked(d, data)
  PROVE  LinkInv' /\ UNCHANGED <<mem, buffer, awaits>>
<1>1. /\ stack = << >> /\ state[d] = "connected" /\ mem' = mem /\ sd' = sd /\ state' = state
      /\ answers' = [answers EXCEPT ![d] = @ \ {data.id}]
  BY DEF Receive, Acked, Idle, packetVars
<1>2. Linked(d) /\ ToSet(stack) = {}
  BY <1>1 DEF LinkInv, LinksOK, Threaded, ToSet
<1>3. \/ data.k = "none" /\ data.id = -1
      \/ /\ data.k = "reply" /\ cur[d] \in Slot /\ data.id = mem[cur[d]].id
         /\ answers[d] = {data.id}
  BY <1>2, RepliesLinked
<1>4. /\ buffer' = buffer /\ cur' = cur
      /\ \/ place[d] = "wait" /\ place' = place /\ last' = last
         \/ /\ place[d] = "send" /\ place' = [place EXCEPT ![d] = "wait"]
            /\ last' = [last EXCEPT ![d] = cur[d]]
  <2>1. CASE Receive(d, data)
    BY <2>1 DEF Receive, packetVars
  <2>2. CASE Acked(d, data)
    <3>1. place[d] = "send" /\ cur[d] \in Slot
      BY <1>2, <2>2 DEF Acked, Linked
    <3>2. ~mem[cur[d]].incoming
      BY <3>1 DEF LinkInv, NothingSpilled
    <3> QED
      BY <2>2, <3>1, <3>2 DEF Acked
  <2> QED
    BY <2>1, <2>2
<1>5. /\ cur' = cur /\ place'[d] = "wait" /\ last'[d] \in {last[d], cur[d]}
      /\ (place[d] = "wait" => last'[d] = last[d]) /\ (place[d] = "send" => last'[d] = cur[d])
      /\ answers'[d] = answers[d] \ {data.id} /\ place[d] \in {"wait", "send"}
  BY <1>1, <1>4 DEF LinkInv, TypeInv, TypeOK
<1>6. Linked(d)'
  BY <1>1, <1>2, <1>5, SameFrames DEF Linked
<1> DEFINE f == Thread(d, data)
<1>7. ToSet(stack') = {f}
  BY ReceivedStack DEF LinkInv, Receive, Acked
<1>8. f.k = "thread" /\ f.d = d /\ f.data = data
  BY DEF Thread
<1> HIDE DEF f
<1>9. FrameOK(f)'
  BY <1>1, <1>3, <1>5, <1>6, <1>8, SameFrames DEF FrameOK
<1>10. \A e \in Device : e # d =>
            /\ cur'[e] = cur[e] /\ last'[e] = last[e] /\ place'[e] = place[e]
            /\ answers'[e] = answers[e] /\ state'[e] = state[e]
  BY <1>1, <1>4 DEF LinkInv, TypeInv, TypeOK
<1>11. SamePackets /\ sd' = NULL /\ cur'[d] # SD /\ last'[d] # SD
  BY <1>1, <1>5 DEF SamePackets, LinkInv, NothingSpilled
<1>12. cur'[d] \in Slot => cur'[d] \in ToSet(buffer') /\ mem[cur'[d]].dest = d
  BY <1>4 DEF LinkInv, CurLive, Buffered
<1>13. state'[d] \notin Down \cup {"connecting"}
  BY <1>1 DEF Down
<1>14. \A s \in Buffered : s \in ToSet(buffer')
  BY <1>4 DEF Buffered
<1>15. \A g \in ToSet(stack') : FrameOK(g)'
  BY <1>7, <1>9
<1>16. LinkInv'
  BY <1>2, <1>6, <1>10, <1>11, <1>12, <1>13, <1>14, <1>15, OneConnection
<1> QED
  BY <1>1, <1>4, <1>16 DEF Receive, Acked

LEMMA ThreadReplyLinked ==
  ASSUME LinkInv, UNCHANGED use, TypeInv', ThreadReply
  PROVE  /\ LinkInv' /\ cur' = cur
         /\ LET d == stack[1].d
            IN  /\ cur[d] \in Slot /\ last[d] = cur[d] /\ ~mem[cur[d]].incoming
                /\ stack[1].data.k = "reply"
<1>1. PICK d \in Device, s \in Slot \cup {SD} : d = stack[1].d /\ s = last[d]
  BY ThreadReplyStack DEF LinkInv
<1>2. /\ stack # << >> /\ stack[1].k = "thread" /\ stack[1].data.k \in Message
      /\ cur' = [cur EXCEPT ![d] = s] /\ mem[s].dest = d /\ mem[s].id = stack[1].data.id
      /\ ToSet(stack) = {stack[1]}
  BY <1>1, ThreadReplyStack, ThreadTop DEF LinkInv, ThreadKind
<1>3. UNCHANGED <<packetVars, sd, state, last, place, answers>>
  BY DEF ThreadReply
<1>4. FrameOK(stack[1])
  BY <1>2 DEF LinkInv, FramesOK
<1>5. /\ stack[1].data.k = "reply" /\ cur[d] \in Slot /\ answers[d] = {} /\ Linked(d)
      /\ state[d] \in {"connected", "timeout"}
  BY <1>1, <1>2, <1>4 DEF FrameOK, Message, ThreadKind
<1>6. place[d] = "wait" /\ NULL \notin Slot
  BY <1>1, <1>2, ThreadTop, TypeFields DEF LinkInv, TypeInv, ThreadKind
<1>7. s = cur[d] /\ s \in Slot /\ cur' = cur
  BY <1>1, <1>2, <1>5, <1>6 DEF Linked, LinkInv, TypeInv, TypeOK
<1> DEFINE f == Answered(d)
<1>0. PICK r : r = Run(mem[s].proc, awaits[mem[s].proc], s, stack[1].data.k)
  OBVIOUS
<1>8. ~mem[s].incoming
  BY <1>7 DEF LinkInv, NothingSpilled
<1>9. f \in ToSet(stack') /\ ToSet(stack') \subseteq {r, f}
  BY <1>0, <1>1, <1>8, ThreadReplyStack DEF LinkInv
<1>10. f.k = "answered" /\ f.d = d /\ r.k = "run"
  BY <1>0 DEF Answered, Run
<1> HIDE DEF f
<1>11. FrameOK(f)' /\ FrameOK(r)'
  BY <1>1, <1>3, <1>5, <1>7, <1>10, SameFrames DEF FrameOK, ThreadKind
<1>12. SamePackets /\ sd' = NULL /\ cur'[d] # SD /\ last'[d] # SD
  BY <1>3, <1>7 DEF SamePackets, packetVars, LinkInv, NothingSpilled
<1>13. cur'[d] \in Slot => cur'[d] \in ToSet(buffer') /\ mem[cur'[d]].dest = d
  BY <1>3, <1>7 DEF LinkInv, CurLive, Buffered, packetVars
<1>14. state'[d] \in Down \cup {"connecting"} => answers'[d] = {}
  BY <1>3, <1>5
<1>15. \A t \in Buffered : t \in ToSet(buffer')
  BY <1>3 DEF Buffered, packetVars
<1>16. \A g \in ToSet(stack) : g.k \in ThreadKind => g.d = d
  BY <1>1, <1>2
<1>17. \A g \in ToSet(stack') : FrameOK(g)'
  BY <1>9, <1>11
<1>18. \E g \in ToSet(stack') : g.k \in ThreadKind /\ g.d = d
  BY <1>9, <1>10 DEF ThreadKind
<1>19. \A e \in Device : e # d =>
            /\ cur'[e] = cur[e] /\ last'[e] = last[e] /\ place'[e] = place[e]
            /\ answers'[e] = answers[e] /\ state'[e] = state[e]
  BY <1>3, <1>7
<1>20. LinkInv'
  BY <1>12, <1>13, <1>14, <1>15, <1>16, <1>17, <1>18, <1>19, OneConnection
<1> QED
  BY <1>1, <1>5, <1>7, <1>8, <1>20

LEMMA ThreadAnsweredLinked ==
  ASSUME LinkInv, UNCHANGED use, TypeInv', ThreadAnswered
  PROVE  LinkInv'
<1>1. /\ stack # << >> /\ stack[1].k = "answered" /\ stack[1].k \in ThreadKind
      /\ Become(Send(stack[1].d))
  BY DEF ThreadAnswered, Top, ThreadKind
<1>2. PICK d \in Device : d = stack[1].d
  BY <1>1, ThreadTop DEF LinkInv
<1> DEFINE f == Send(d)
<1>3. /\ RemovePacket(cur[d]) /\ cur' = [cur EXCEPT ![d] = NULL]
      /\ last' = [last EXCEPT ![d] = NULL]
      /\ UNCHANGED <<mem, timer, state, place, answers, awaits>>
  BY <1>2 DEF ThreadAnswered, Forget
<1>4. ToSet(stack) = {stack[1]} /\ ToSet(stack') = {f}
  BY <1>1, <1>2, ThreadTop, ToSendStack DEF LinkInv
<1>5. f.k = "send" /\ f.d = d /\ f.k \in ThreadKind
  BY DEF Send, ThreadKind
<1> HIDE DEF f
<1>6. FrameOK(stack[1])
  BY <1>4 DEF LinkInv, FramesOK
<1>7. answers[d] = {} /\ state[d] \in {"connected", "timeout"}
  BY <1>1, <1>2, <1>6 DEF FrameOK
<1>8. cur'[d] = NULL /\ last'[d] = NULL /\ NULL \notin Slot /\ NULL # SD
  BY <1>3, TypeFields DEF LinkInv, TypeInv, TypeOK
<1>9. FrameOK(f)'
  BY <1>3, <1>5, <1>7, <1>8 DEF FrameOK
<1>10. ToSet(buffer') = Buffered \ {cur[d]} /\ cur[d] # SD
  BY <1>3, RemovePacketTyped DEF LinkInv, TypeInv, NothingSpilled
<1>11. \A s \in Buffered : s \in ToSet(buffer') \/ mem[s].dest = d
  BY <1>10, TypeFields DEF LinkInv, TypeInv, CurLive
<1>12. sd' = NULL /\ SamePackets
  BY <1>3, <1>10 DEF RemovePacket, SamePackets, LinkInv, NothingSpilled
<1>13. \A e \in Device : e # d =>
            /\ cur'[e] = cur[e] /\ last'[e] = last[e] /\ place'[e] = place[e]
            /\ answers'[e] = answers[e] /\ state'[e] = state[e]
  BY <1>3 DEF LinkInv, TypeInv, TypeOK
<1>14. \A g \in ToSet(stack) : g.k \in ThreadKind => g.d = d
  BY <1>2, <1>4
<1>15. \A g \in ToSet(stack') : FrameOK(g)'
  BY <1>4, <1>9
<1>16. state'[d] \in Down \cup {"connecting"} => answers'[d] = {}
  BY <1>3, <1>7
<1> QED
  BY <1>4, <1>5, <1>8, <1>11, <1>12, <1>13, <1>14, <1>15, <1>16, OneConnection

LEMMA ThreadSendsLinked ==
  ASSUME LinkInv, UNCHANGED use, TypeInv', ThreadSends
  PROVE  /\ LinkInv'
         /\ LET d == stack[1].d IN cur'[d] \in Buffered \cup {NULL} /\ answers[d] = {}
<1>1. stack # << >> /\ stack[1].k = "send" /\ stack[1] \in ToSet(stack) /\ stack[1].k \in ThreadKind
  BY TopFrame DEF ThreadSends, Top, ThreadKind, LinkInv, TypeInv
<1>2. PICK d \in Device : d = stack[1].d
  BY <1>1, ThreadTop DEF LinkInv
<1>3. cur[d] = NULL /\ answers[d] = {} /\ state[d] \notin Down \cup {"connecting"}
  BY <1>1, <1>2 DEF LinkInv, FramesOK, FrameOK, Down
<1>4. sd = NULL /\ SD # NULL /\ NULL \notin Slot /\ SD \notin Slot /\ Buffered \subseteq Slot
  BY TypeFields DEF LinkInv, NothingSpilled, TypeInv
<1>5. PICK c : c = Get(d)
  OBVIOUS
<1>6. c \in Buffered \cup {NULL} /\ (c \in Buffered => mem[c].dest = d /\ ~mem[c].send)
  BY <1>4, <1>5, GetTyped DEF LinkInv, TypeInv
<1>7. Chosen(d) = c /\ MemSeen(d) = mem
  BY <1>3, <1>4, <1>5 DEF Chosen, MemSeen, MemAfterGet
<1>8. /\ place[d] = "wait" /\ ToSet(stack') = {} /\ cur' = [cur EXCEPT ![d] = c]
      /\ c # NULL /\ ~mem[c].send =>
           /\ mem' = [mem EXCEPT ![c].send = TRUE]
           /\ place' = [place EXCEPT ![d] = "send"]
           /\ answers' = [answers EXCEPT ![d] = IF mem[c].incoming THEN @ ELSE @ \cup {mem[c].id}]
      /\ ~(c # NULL /\ ~mem[c].send) => place' = place /\ answers' = answers
  BY <1>2, <1>7, ThreadSendsData DEF LinkInv
<1>9. UNCHANGED <<buffer, sd, state, last>> /\ SamePackets
  BY SendsSamePackets DEF ThreadSends, LinkInv
<1>10. cur'[d] = c /\ \A e \in Device : e # d =>
            /\ cur'[e] = cur[e] /\ last'[e] = last[e] /\ place'[e] = place[e]
            /\ answers'[e] = answers[e] /\ state'[e] = state[e]
  BY <1>8, <1>9 DEF LinkInv, TypeInv, TypeOK
<1>11. Linked(d)' /\ (state'[d] \in Down \cup {"connecting"} => answers'[d] = {})
  <2>1. CASE c = NULL
    BY <1>3, <1>8, <1>10, <2>1 DEF Linked
  <2>2. CASE c # NULL
    <3>1. c \in Slot /\ c \in Buffered /\ ~mem[c].send /\ ~mem[c].incoming
      BY <1>4, <1>6, <2>2 DEF LinkInv, NothingSpilled
    <3>2. place'[d] = "send" /\ answers'[d] = {mem[c].id}
      BY <1>3, <1>8, <2>2, <3>1 DEF LinkInv, TypeInv, TypeOK
    <3>3. mem'[c].id = mem[c].id
      BY <1>9, <3>1 DEF SamePackets
    <3> QED
      BY <1>3, <1>9, <1>10, <3>1, <3>2, <3>3, SameFrames DEF Linked
  <2> QED
    BY <2>1, <2>2
<1>12. \A s \in Buffered : s \in ToSet(buffer')
  BY <1>9 DEF Buffered
<1>13. cur'[d] \in Slot => cur'[d] \in ToSet(buffer') /\ mem[cur'[d]].dest = d
  BY <1>4, <1>6, <1>10, <1>12
<1>14. \A g \in ToSet(stack) : g.k \in ThreadKind => g.d = d
  BY <1>1, <1>2, ThreadTop DEF LinkInv
<1>15. sd' = NULL /\ cur'[d] # SD /\ last'[d] # SD
  BY <1>4, <1>6, <1>9, <1>10 DEF LinkInv, NothingSpilled
<1>16. LinkInv'
  BY <1>8, <1>9, <1>10, <1>11, <1>12, <1>13, <1>14, <1>15, OneConnection
<1> QED
  BY <1>2, <1>3, <1>6, <1>10, <1>16

\* What a connection is told when it opens or ends.
LEMMA ConnectionEndsLinked ==
  ASSUME LinkInv, UNCHANGED use, TypeInv', NEW d \in Device,
         Connected(d) \/ Closed(d) \/ Aborted(d) \/ CloseTimedOut(d)
  PROVE  LinkInv'
<1>1. /\ stack = << >> /\ stack' = << >> /\ ToSet(stack) = {} /\ ToSet(stack') = {}
      /\ UNCHANGED <<buffer, sd, last>>
  BY DEF Connected, Closed, Aborted, CloseTimedOut, Idle, packetVars, ToSet
<1>2. SamePackets
  <2>1. mem' = mem \/ SockEnd(d)
    BY DEF Connected, Closed, Aborted, CloseTimedOut, packetVars
  <2>2. mem' = mem => SamePackets
    BY DEF SamePackets
  <2> QED
    BY <2>1, <2>2, SockEndSamePackets DEF LinkInv, TypeInv
<1>3. /\ cur'[d] \in {cur[d], NULL} /\ answers'[d] = {}
      /\ state'[d] = "connected" => cur'[d] = NULL /\ place'[d] = "wait"
      /\ \A e \in Device : e # d =>
            /\ cur'[e] = cur[e] /\ last'[e] = last[e] /\ place'[e] = place[e]
            /\ answers'[e] = answers[e] /\ state'[e] = state[e]
  <2>1. CASE Connected(d)
    BY <2>1 DEF Connected, LinkInv, TypeInv, TypeOK, DownQuiet
  <2>2. CASE Closed(d)
    BY <2>2, SockEndTyped DEF Closed, NoAnswers, LinkInv, TypeInv, TypeOK
  <2>3. CASE Aborted(d)
    BY <2>3, SockEndTyped DEF Aborted, NoAnswers, LinkInv, TypeInv, TypeOK
  <2>4. CASE CloseTimedOut(d)
    BY <2>4 DEF CloseTimedOut, NoAnswers, LinkInv, TypeInv, TypeOK
  <2> QED
    BY <2>1, <2>2, <2>3, <2>4
<1>4. NULL \notin Slot /\ NULL # SD
  BY TypeFields DEF LinkInv, TypeInv
<1>5. state'[d] = "connected" => Linked(d)'
  BY <1>3 DEF Linked
<1>6. sd' = NULL /\ cur'[d] # SD /\ last'[d] # SD
  BY <1>1, <1>3, <1>4 DEF LinkInv, NothingSpilled
<1>7. cur'[d] \in Slot => cur'[d] \in ToSet(buffer') /\ mem[cur'[d]].dest = d
  BY <1>1, <1>3, <1>4 DEF LinkInv, CurLive, Buffered
<1>8. \A s \in Buffered : s \in ToSet(buffer')
  BY <1>1 DEF Buffered
<1> QED
  BY <1>1, <1>2, <1>3, <1>5, <1>6, <1>7, <1>8, OneConnection

LEMMA InitLinked == Init /\ Server = {} /\ Uncarded => LinkInv
<1> SUFFICES ASSUME Init, Server = {}, Uncarded PROVE LinkInv
  OBVIOUS
<1>1. TypeInv
  BY InitTyped
<1>2. NULL \notin Slot /\ NULL # SD
  BY <1>1, TypeFields DEF TypeInv
<1>3. \A s \in Slot : ~mem[s].incoming /\ ~mem[s].important
  BY DEF Init
<1>4. NothingSpilled /\ CurLive /\ LinksOK /\ DownQuiet
  BY <1>2, <1>3 DEF Init, NothingSpilled, CurLive, LinksOK, DownQuiet
<1>5. FramesOK
  BY DEF Init, FramesOK, ToSet
<1> QED
  BY <1>1, <1>4, <1>5 DEF LinkInv

\* The places that a device without requests never leads to.
LEMMA LinkedNoRequests ==
  ASSUME LinkInv
  PROVE  ~PutInFills /\ ~ThreadParseError /\ ~ThreadRequest /\ ~ThreadIgnores
<1> SUFFICES ASSUME PutInFills \/ ThreadParseError \/ ThreadRequest \/ ThreadIgnores PROVE FALSE
  OBVIOUS
<1>1. stack # << >> /\ stack[1] \in ToSet(stack) /\ FrameOK(stack[1])
  BY TopFrame DEF PutInFills, ThreadParseError, ThreadRequest, ThreadIgnores, Top,
     LinkInv, TypeInv, FramesOK
<1>2. ~PutInFills /\ ~ThreadIgnores /\ ~ThreadParseError
  BY <1>1 DEF PutInFills, ThreadIgnores, ThreadParseError, Top, FrameOK
<1>3. ~ThreadRequest
  <2> SUFFICES ASSUME ThreadRequest PROVE FALSE
    OBVIOUS
  <2>0. /\ stack[1].d \in Device /\ stack[1].k = "thread" /\ stack[1].data.k \in Message
    BY <1>1, ThreadTop DEF ThreadRequest, Top, ThreadKind, LinkInv
  <2>1. PICK d \in Device : d = stack[1].d /\ stack[1].k = "thread" /\ stack[1].data.k \in Message
    BY <2>0
  <2>2. cur[d] \in Slot /\ mem[cur[d]].id = stack[1].data.id /\ Linked(d)
    BY <1>1, <2>1 DEF FrameOK, Message
  <2>3. place[d] = "wait" /\ NULL \notin Slot
    BY <1>1, <2>1, ThreadTop, TypeFields DEF LinkInv, TypeInv, ThreadKind
  <2>4. last[d] = cur[d] /\ mem[cur[d]].dest = d
    BY <2>2, <2>3 DEF Linked, LinkInv, CurLive
  <2> QED
    BY <2>1, <2>2, <2>3, <2>4 DEF ThreadRequest, IsReply
<1> QED
  BY <1>2, <1>3

LEMMA LinkNext == LinkInv /\ [Next]_<<use, vars>> => LinkInv'
<1> SUFFICES ASSUME LinkInv, [Next]_<<use, vars>> PROVE LinkInv'
  OBVIOUS
<1>1. TypeInv'
  BY NextTyped DEF LinkInv
<1>2. CASE UNCHANGED <<use, vars>>
  BY <1>1, <1>2, LinksSame DEF vars, packetVars
<1>3. CASE Clients /\ UNCHANGED use
  BY <1>1, <1>3, ClientsLinked
<1>4. CASE Library /\ UNCHANGED use
  BY <1>1, <1>4, ClientsLinked, PutEvictsLinked, PutFillsLinked, TimeoutTellsLinked,
     TimeoutRemovesLinked, ThreadWaitsLinked, ThreadReplyLinked, ThreadAnsweredLinked,
     ThreadSendsLinked, LinkedNoRequests DEF Library
<1>5. CASE Network /\ UNCHANGED use
  BY <1>1, <1>5, ReceivedLinked, ConnectionEndsLinked DEF Network
<1>6. CASE Timers /\ UNCHANGED use
  BY <1>1, <1>6, TimersLinked
<1> QED
  BY <1>2, <1>3, <1>4, <1>5, <1>6 DEF Next

\* The packets a connection sends, and the ids that it awaits.
SentOK ==
  /\ ThreadSends => cur'[stack[1].d] \in Buffered \cup {SD, NULL}
  /\ \A d \in Device :
       /\ ThreadSends /\ stack[1].d = d /\ place'[d] = "send"
       /\ cur'[d] # NULL /\ ~mem'[cur'[d]].incoming
       => mem'[cur'[d]].id \notin answers[d]

LEMMA LinkedSends == LinkInv /\ [Next]_<<use, vars>> => SentOK \/ UNCHANGED vars
<1> SUFFICES ASSUME LinkInv, [Next]_<<use, vars>>, ThreadSends, ~UNCHANGED vars PROVE SentOK
  BY DEF SentOK
<1>1. UNCHANGED use /\ TypeInv'
  BY NextTyped DEF LinkInv, Next
<1>2. cur'[stack[1].d] \in Buffered \cup {NULL} /\ answers[stack[1].d] = {}
  BY <1>1, ThreadSendsLinked
<1> QED
  BY <1>2 DEF SentOK

(***************************************************************************)
(* While no device makes requests and nothing is to be kept on the SD      *)
(* card, a connection is occupied with a packet that can still end: it is  *)
(* in the list and for this device, however deep in resumed processes the  *)
(* packets before it ended (SCP_Comm.c lines 334-343, SCP_Buffer.c lines   *)
(* 60-96).                                                                 *)
(***************************************************************************)
THEOREM ConnectionsLive == ASSUME Server = {} PROVE Spec /\ Uncarded => []CurIsLive
<1>1. Init /\ Uncarded => LinkInv
  BY InitLinked
<1>2. LinkInv => CurIsLive
  BY DEF LinkInv, TypeInv, TypeOK, CurLive, CurIsLive
<1> QED
  BY <1>1, <1>2, LinkNext, PTL DEF Spec

(***************************************************************************)
(* ... only a packet of the buffer is sent, never one that timed out ...   *)
(***************************************************************************)
THEOREM SendsPending == ASSUME Server = {} PROVE Spec /\ Uncarded => SendsOnlyPending
<1>1. Init /\ Uncarded => LinkInv
  BY InitLinked
<1>2. LinkInv /\ [Next]_<<use, vars>> =>
        [ThreadSends => cur'[stack[1].d] \in Buffered \cup {SD, NULL}]_vars
  BY LinkedSends DEF SentOK
<1> QED
  BY <1>1, <1>2, LinkNext, PTL DEF Spec, SendsOnlyPending

(***************************************************************************)
(* ... and a request is not sent twice over one connection while its reply *)
(* may still come (SCP_Comm.c lines 355-371).                              *)
(***************************************************************************)
THEOREM SentOnce == ASSUME Server = {} PROVE Spec /\ Uncarded => NotSentTwice
<1>1. Init /\ Uncarded => LinkInv
  BY InitLinked
<1>2. LinkInv /\ [Next]_<<use, vars>> =>
        [\A d \in Device :
           /\ ThreadSends /\ stack[1].d = d /\ place'[d] = "send"
           /\ cur'[d] # NULL /\ ~mem'[cur'[d]].incoming
           => mem'[cur'[d]].id \notin answers[d]]_vars
  BY LinkedSends DEF SentOK
<1> QED
  BY <1>1, <1>2, LinkNext, PTL DEF Spec, NotSentTwice

-----------------------------------------------------------------------------
(* When, besides, no packet times out for want of a slot while another     *)
(* timeout is under way, a packet and the process that waits for it keep   *)
(* to each other.                                                          *)

NestedEviction == PutEvicts /\ \E f \in ToSet(stack) : f.k = "timeout"

\* The process of s has been told, and the code behind the post is to come.
Told(s) ==
  \/ \E f \in ToSet(stack) : f.k = "timeout" /\ f.told /\ f.s = s
  \/ \E f \in ToSet(stack) : f.k = "answered" /\ cur[f.d] = s

\* One timeout at a time, and each process once.
Same(f, g) ==
  \/ f.k = "timeout" /\ g.k = "timeout"
  \/ f.k = "run" /\ g.k = "run" /\ f.p = g.p
Distinct(S) == \A i, j \in 1..Len(S) : Same(S[i], S[j]) => i = j

RunsAwake == \A f \in ToSet(stack) : f.k = "run" => awaits[f.p] = NULL
TimeoutsBuffered == \A f \in ToSet(stack) : f.k = "timeout" => f.s \in Buffered
Owners ==
  \A s \in Buffered : mem[s].proc # NULL => awaits[mem[s].proc] = s \/ Told(s)
ToldAwake == \A s \in Buffered : Told(s) => NoWaiter(s)
AnsweredIn(S) ==
  \A f \in ToSet(S) : f.k = "answered" /\ cur[f.d] \in Slot =>
    \/ S[1].k = "answered"
    \/ \E r \in ToSet(S) : r.k = "run" /\ r.why \in Message /\ r.p = mem[cur[f.d]].proc
AnsweredBy == AnsweredIn(stack)
Matched ==
  \A f \in ToSet(stack) :
    f.k = "run" /\ f.got # NULL => f.got = f.want /\ f.why \in {"reply", "timeout"}

WaitInv ==
  /\ LinkInv /\ WaiterHasPacket
  /\ Distinct(stack) /\ RunsAwake /\ TimeoutsBuffered
  /\ Owners /\ ToldAwake /\ AnsweredBy /\ Matched

LEMMA PushDistinct ==
  ASSUME NEW S \in Seq(Frame), Distinct(S), NEW f \in Frame, \A g \in ToSet(S) : ~Same(f, g)
  PROVE  Distinct(<<f>> \o S)
<1> DEFINE T == <<f>> \o S
<1>1. /\ T \in Seq(Frame) /\ Len(T) = Len(S) + 1 /\ T[1] = f /\ Len(S) \in Nat
      /\ \A i \in 1..Len(S) : T[i + 1] = S[i]
  BY Pushed
<1>2. \A i \in 1..Len(S) : S[i] \in ToSet(S)
  BY DEF ToSet
<1> HIDE DEF T
<1> SUFFICES ASSUME NEW i \in 1..Len(T), NEW j \in 1..Len(T), Same(T[i], T[j]) PROVE i = j
  BY DEF Distinct, T
<1>3. \A k \in 1..Len(T) : k = 1 \/ (k - 1 \in 1..Len(S) /\ (k - 1) + 1 = k)
  BY <1>1
<1>4. \A k \in 1..Len(T) : k = 1 \/ (k - 1 \in 1..Len(S) /\ T[k] = S[k - 1])
  BY <1>1, <1>3
<1>5. \A g, h : Same(g, h) => Same(h, g)
  BY DEF Same
<1>6. CASE i = 1 \/ j = 1
  BY <1>1, <1>2, <1>4, <1>5, <1>6
<1>7. CASE i # 1 /\ j # 1
  <2>1. i - 1 = j - 1
    BY <1>4, <1>7 DEF Distinct
  <2> QED
    BY <1>1, <2>1
<1> QED
  BY <1>6, <1>7

LEMMA PopDistinct ==
  ASSUME NEW S \in Seq(Frame), Distinct(S), S # << >>
  PROVE  Distinct(Tail(S)) /\ \A g \in ToSet(Tail(S)) : ~Same(S[1], g)
<1> DEFINE T == Tail(S)
<1>1. /\ T \in Seq(Frame) /\ Len(T) = Len(S) - 1 /\ Len(S) \in Nat \ {0}
      /\ \A i \in 1..(Len(S) - 1) : T[i] = S[i + 1]
  BY Popped
<1>2. DOMAIN T = 1..(Len(S) - 1)
  BY <1>1
<1> HIDE DEF T
<1>3. Distinct(T)
  <2> SUFFICES ASSUME NEW i \in 1..Len(T), NEW j \in 1..Len(T), Same(T[i], T[j]) PROVE i = j
    BY DEF Distinct
  <2>1. /\ i + 1 \in 1..Len(S) /\ j + 1 \in 1..Len(S)
        /\ T[i] = S[i + 1] /\ T[j] = S[j + 1]
    BY <1>1
  <2>2. i + 1 = j + 1
    BY <2>1 DEF Distinct
  <2> QED
    BY <2>2
<1>4. ASSUME NEW i \in 1..(Len(S) - 1), Same(S[1], T[i]) PROVE FALSE
  <2>1. 1 \in 1..Len(S) /\ i + 1 \in 1..Len(S) /\ T[i] = S[i + 1] /\ i + 1 # 1
    BY <1>1
  <2> QED
    BY <1>4, <2>1 DEF Distinct
<1> QED
  BY <1>2, <1>3, <1>4 DEF ToSet, T

\* A step of the library or the network while nothing is told.
LEMMA NothingTold ==
  ASSUME WaitInv, UNCHANGED use, LinkInv', UNCHANGED awaits, SamePackets,
         \A s \in Buffered : s \in ToSet(buffer') \/ NoWaiter(s),
         \A s \in ToSet(buffer') : s \in Buffered /\ ~Told(s),
         \A f \in ToSet(stack') :
            /\ f.k \notin {"run", "answered"}
            /\ f.k = "timeout" => ~f.told /\ f.s \in ToSet(buffer'),
         Distinct(stack')
  PROVE  WaitInv'
<1>1. WaiterHasPacket'
  BY WaitersKept DEF WaitInv, LinkInv, TypeInv
<1>2. \A s \in ToSet(buffer') : ~Told(s)'
  BY DEF Told
<1>3. Owners' /\ ToldAwake'
  BY <1>2, TypeFields DEF WaitInv, LinkInv, TypeInv, Owners, ToldAwake, SamePackets, Buffered
<1>4. RunsAwake' /\ TimeoutsBuffered' /\ AnsweredBy' /\ Matched'
  BY DEF RunsAwake, TimeoutsBuffered, AnsweredBy, AnsweredIn, Matched, Buffered
<1> QED
  BY <1>1, <1>3, <1>4 DEF WaitInv

\* A step that moves frames and tells nothing.
LEMMA FramesMoved ==
  ASSUME WaitInv, LinkInv', UNCHANGED <<mem, buffer, cur, awaits>>, Distinct(stack'), AnsweredBy',
         \A f \in ToSet(stack) : f.k \in {"timeout", "answered"} => f \in ToSet(stack'),
         \A f \in ToSet(stack') :
            \/ f \in ToSet(stack)
            \/ f.k = "put"
            \/ f.k = "run" /\ f.got = NULL /\ awaits[f.p] = NULL
            \/ f.k = "timeout" /\ ~f.told /\ f.s \in Buffered
  PROVE  WaitInv'
<1>1. \A s : Told(s)' <=> Told(s)
  BY DEF Told
<1>2. Owners' /\ ToldAwake' /\ WaiterHasPacket'
  BY <1>1 DEF WaitInv, Owners, ToldAwake, WaiterHasPacket, NoWaiter, Buffered
<1>3. RunsAwake' /\ TimeoutsBuffered' /\ Matched'
  BY DEF WaitInv, RunsAwake, TimeoutsBuffered, Matched, Buffered
<1> QED
  BY <1>2, <1>3 DEF WaitInv

\* What pushes a frame that nothing is answered from.
LEMMA PushedAnswers ==
  ASSUME WaitInv, UNCHANGED <<mem, cur, use>>, NEW f \in Frame, stack' = <<f>> \o stack,
         stack = << >> \/ stack[1].k # "answered", f.k # "answered"
  PROVE  AnsweredBy'
<1>1. ToSet(stack') = {f} \cup ToSet(stack)
  BY Pushed DEF WaitInv, LinkInv, TypeInv, StackOK
<1>2. CASE stack = << >>
  BY <1>1, <1>2 DEF AnsweredBy, AnsweredIn, ToSet
<1>3. CASE stack # << >>
  BY <1>1, <1>3, SameFrames DEF WaitInv, AnsweredBy, AnsweredIn
<1> QED
  BY <1>2, <1>3

LEMMA ClientsWait ==
  ASSUME WaitInv, UNCHANGED use, LinkInv', Clients
  PROVE  WaitInv'
<1>1. ASSUME NEW p \in Client, ClientRuns(p) PROVE WaitInv'
  <2> DEFINE f == Run(p, NULL, NULL, "own")
  <2>1. stack' = <<f>> \o stack /\ f \in Frame /\ stack = << >> /\ awaits[p] = NULL
    BY <1>1, FramesBuilt DEF ClientRuns, Call, Idle, Pointer
  <2>2. f.k = "run" /\ f.got = NULL /\ f.p = p
    BY DEF Run
  <2>3. UNCHANGED <<mem, buffer, cur, awaits>>
    BY <1>1 DEF ClientRuns, packetVars, deviceVars
  <2> HIDE DEF f
  <2>4. ToSet(stack) = {} /\ ToSet(stack') = {f} \cup ToSet(stack)
    BY <2>1, Pushed DEF ToSet, WaitInv, LinkInv, TypeInv, StackOK
  <2>5. Distinct(stack') /\ AnsweredBy'
    BY <2>1, <2>2, <2>3, <2>4, PushDistinct, PushedAnswers DEF WaitInv, LinkInv, TypeInv, StackOK
  <2> QED
    BY <2>1, <2>2, <2>3, <2>4, <2>5, FramesMoved
<1>2. ASSUME NEW kind \in Kind, NEW d \in Device, ClientPuts(kind, d) PROVE WaitInv'
  <2> DEFINE f == Put(IF kind = "send" THEN stack[1].p ELSE NULL, kind # "buffer", d)
  <2>1. stack # << >> /\ stack[1].k = "run" /\ stack' = <<f>> \o stack
    BY <1>2 DEF ClientPuts, Top, Call
  <2>2. stack[1].p \in Client
    BY <2>1, TopFrame, FrameFields DEF WaitInv, LinkInv, TypeInv
  <2>3. f \in Frame /\ f.k = "put"
    BY <2>2, FramesBuilt DEF Put
  <2>4. UNCHANGED <<mem, buffer, cur, awaits>>
    BY <1>2 DEF ClientPuts, packetVars, deviceVars
  <2> HIDE DEF f
  <2>5. ToSet(stack') = {f} \cup ToSet(stack)
    BY <2>1, <2>3, Pushed DEF WaitInv, LinkInv, TypeInv, StackOK
  <2>6. Distinct(stack')
    BY <2>1, <2>3, PushDistinct DEF Same, WaitInv, LinkInv, TypeInv, StackOK
  <2>7. AnsweredBy'
    BY <2>1, <2>3, <2>4, PushedAnswers
  <2> QED
    BY <2>3, <2>4, <2>5, <2>6, <2>7, FramesMoved
<1> QED
  BY <1>1, <1>2 DEF Clients

\* Above what is answered is the process that was told.
LEMMA PopAnswered ==
  ASSUME NEW S \in Seq(Frame), Nested(S), S # << >>, AnsweredIn(S)
  PROVE  AnsweredIn(Tail(S))
<1> DEFINE T == Tail(S)
<1>1. /\ T \in Seq(Frame) /\ ToSet(S) = {S[1]} \cup ToSet(T)
      /\ T # << >> => Under(S[1], T[1])
  BY PopNested
<1> HIDE DEF T
<1> SUFFICES ASSUME NEW f \in ToSet(T), f.k = "answered", cur[f.d] \in Slot, T[1].k # "answered"
             PROVE  \E r \in ToSet(T) :
                      r.k = "run" /\ r.why \in Message /\ r.p = mem[cur[f.d]].proc
  BY DEF AnsweredIn, T
<1>2. T # << >>
  BY DEF ToSet
<1>3. S[1].k # "answered" /\ (S[1].k = "run" => S[1].why \notin Message)
  BY <1>1, <1>2 DEF Under, Message
<1>4. PICK r \in ToSet(S) : r.k = "run" /\ r.why \in Message /\ r.p = mem[cur[f.d]].proc
  BY <1>1, <1>3 DEF AnsweredIn
<1> QED
  BY <1>1, <1>3, <1>4

\* A step that leaves the answered packet as it is, or no packet.
LEMMA AnswersKept ==
  ASSUME WaitInv, UNCHANGED use, NEW T \in Seq(Frame), AnsweredIn(T), stack' = T,
         \A s \in Buffered : mem'[s].proc = mem[s].proc,
         \A d \in Device : cur'[d] \in {cur[d], NULL}
  PROVE  AnsweredBy'
<1> SUFFICES ASSUME NEW f \in ToSet(T), f.k = "answered", cur'[f.d] \in Slot
             PROVE  \/ T[1].k = "answered"
                    \/ \E r \in ToSet(T) :
                         r.k = "run" /\ r.why \in Message /\ r.p = mem'[cur'[f.d]].proc
  BY SameFrames DEF AnsweredBy, AnsweredIn
<1>1. f \in Frame
  BY DEF ToSet
<1>2. f.d \in Device /\ NULL \notin Slot
  BY <1>1, FrameFields, TypeFields DEF ThreadKind, WaitInv, LinkInv, TypeInv
<1>3. cur'[f.d] = cur[f.d] /\ cur[f.d] \in Buffered
  BY <1>2 DEF WaitInv, LinkInv, CurLive
<1> QED
  BY <1>3 DEF AnsweredIn

LEMMA ReturnsWait ==
  ASSUME WaitInv, UNCHANGED use, LinkInv', ClientReturns
  PROVE  WaitInv'
<1>1. /\ stack # << >> /\ stack[1].k = "run" /\ stack' = Tail(stack)
      /\ UNCHANGED <<mem, buffer, cur, awaits>>
  BY DEF ClientReturns, Top, Return, packetVars, deviceVars
<1>2. ToSet(stack) = {stack[1]} \cup ToSet(stack') /\ stack' \in Seq(Frame)
  BY <1>1, TopFrame DEF WaitInv, LinkInv, TypeInv
<1>3. Distinct(stack')
  BY <1>1, PopDistinct DEF WaitInv, LinkInv, TypeInv, StackOK
<1>4. AnsweredIn(Tail(stack))
  BY <1>1, PopAnswered DEF WaitInv, LinkInv, TypeInv, StackOK, AnsweredBy
<1>5. AnsweredBy'
  BY <1>1, <1>2, <1>4, AnswersKept
<1> QED
  BY <1>1, <1>2, <1>3, <1>5, FramesMoved

LEMMA PutEvictsWait ==
  ASSUME WaitInv, UNCHANGED use, LinkInv', PutEvicts, ~NestedEviction
  PROVE  WaitInv'
<1>1. stack # << >> /\ stack[1] \in ToSet(stack) /\ stack' = <<Evict>> \o stack /\ Free = {}
  BY TopFrame DEF PutEvicts, Top, Call, WaitInv, LinkInv, TypeInv
<1>2. stack[1].k = "put"
  BY <1>1 DEF PutEvicts, Top, WaitInv, LinkInv, FramesOK, FrameOK
<1>3. UNCHANGED <<mem, buffer, cur, awaits>>
  BY <1>2 DEF PutEvicts, Top, packetVars
<1>4. Evict \in Frame /\ Evict.k = "timeout" /\ ~Evict.told /\ Evict.s = 1 /\ 1 \in Buffered
  BY <1>1, TypeFields, FramesBuilt DEF Evict, Timeout, Free, WaitInv, LinkInv, TypeInv
<1>5. ToSet(stack') = {Evict} \cup ToSet(stack)
  BY <1>1, <1>4, Pushed DEF WaitInv, LinkInv, TypeInv, StackOK
<1>6. \A g \in ToSet(stack) : ~Same(Evict, g)
  BY <1>4 DEF NestedEviction, Same
<1>7. Distinct(stack')
  BY <1>1, <1>4, <1>6, PushDistinct DEF WaitInv, LinkInv, TypeInv, StackOK
<1>8. AnsweredBy'
  BY <1>1, <1>2, <1>3, <1>4, PushedAnswers
<1> QED
  BY <1>3, <1>4, <1>5, <1>7, <1>8, FramesMoved

LEMMA PutFillsWait ==
  ASSUME WaitInv, UNCHANGED use, LinkInv', PutFills
  PROVE  WaitInv'
<1>1. PICK s \in Slot :
        /\ s \in Free /\ ToSet(buffer') = Buffered \cup {s} /\ mem'[s].proc = stack[1].proc
        /\ \A t \in Slot \cup {SD} : t # s => mem'[t] = mem[t]
        /\ awaits' = IF stack[1].proc = NULL THEN awaits
                     ELSE [awaits EXCEPT ![stack[1].proc] = s]
  BY PutFillsSlot DEF WaitInv, LinkInv
<1>2. PICK p : p = stack[1].proc
  OBVIOUS
<1>3. /\ stack # << >> /\ stack[1].k = "put" /\ p \in Client \cup {NULL}
      /\ p = NULL => stack' = Tail(stack)
      /\ p # NULL =>
           /\ stack' = Tail(Tail(stack)) /\ Tail(stack) # << >>
           /\ Tail(stack)[1].k = "run" /\ Tail(stack)[1].p = p
  BY <1>2, PutFillsStack DEF WaitInv, LinkInv, TypeInv
<1>4. /\ ToSet(stack) = {stack[1]} \cup ToSet(Tail(stack))
      /\ Tail(stack) \in Seq(Frame) /\ Nested(Tail(stack)) /\ Distinct(Tail(stack))
  BY <1>3, TopFrame, PopDistinct DEF WaitInv, LinkInv, TypeInv, StackOK
<1>5. p # NULL =>
        /\ Tail(stack)[1] \in ToSet(stack) /\ awaits[p] = NULL
        /\ ToSet(Tail(stack)) = {Tail(stack)[1]} \cup ToSet(stack')
        /\ \A g \in ToSet(stack') : ~(g.k = "run" /\ g.p = p)
  <2> SUFFICES ASSUME p # NULL
               PROVE  /\ Tail(stack)[1] \in ToSet(stack) /\ awaits[p] = NULL
                      /\ ToSet(Tail(stack)) = {Tail(stack)[1]} \cup ToSet(stack')
                      /\ \A g \in ToSet(stack') : ~(g.k = "run" /\ g.p = p)
    OBVIOUS
  <2>1. ToSet(Tail(stack)) = {Tail(stack)[1]} \cup ToSet(stack')
    BY <1>3, <1>4, PopNested
  <2>2. \A g \in ToSet(stack') : ~Same(Tail(stack)[1], g)
    BY <1>3, <1>4, PopDistinct
  <2>3. Tail(stack)[1] \in ToSet(stack)
    BY <1>4, <2>1
  <2>4. awaits[p] = NULL
    BY <1>3, <2>3 DEF WaitInv, RunsAwake
  <2> QED
    BY <1>3, <2>1, <2>2, <2>3, <2>4 DEF Same
<1>6. /\ ToSet(stack') \subseteq ToSet(stack)
      /\ \A f \in ToSet(stack) : f.k \in {"timeout", "answered"} => f \in ToSet(stack')
  BY <1>3, <1>4, <1>5
<1>7. Distinct(stack') /\ AnsweredIn(stack')
  <2>1. AnsweredIn(Tail(stack))
    BY <1>3, PopAnswered DEF WaitInv, LinkInv, TypeInv, StackOK, AnsweredBy
  <2>2. CASE p = NULL
    BY <1>3, <1>4, <2>1, <2>2
  <2>3. CASE p # NULL
    BY <1>3, <1>4, <2>1, <2>3, PopAnswered, PopDistinct
  <2> QED
    BY <2>2, <2>3
<1>8. cur' = cur /\ stack' \in Seq(Frame)
  BY SameFrames DEF PutFills, deviceVars, LinkInv, TypeInv, StackOK
<1>9. AnsweredBy'
  <2>1. PICK T : T = stack'
    OBVIOUS
  <2>2. \A t \in Buffered : mem'[t].proc = mem[t].proc
    BY <1>1, TypeFields DEF Free, WaitInv, LinkInv, TypeInv
  <2> QED
    BY <1>7, <1>8, <2>1, <2>2, AnswersKept
<1>10. \A t : Told(t)' <=> Told(t)
  BY <1>6, <1>8 DEF Told
<1>11. ~Told(s)
  <2>1. ASSUME NEW f \in ToSet(stack), f.k = "answered", cur[f.d] = s PROVE FALSE
    <3>1. f \in Frame
      BY DEF WaitInv, LinkInv, TypeInv, StackOK, ToSet
    <3>2. f.d \in Device
      BY <2>1, <3>1, FrameFields DEF ThreadKind
    <3> QED
      BY <1>1, <2>1, <3>2 DEF Free, WaitInv, LinkInv, CurLive
  <2> QED
    BY <1>1, <2>1 DEF Told, WaitInv, TimeoutsBuffered, Free
<1>12. /\ NULL \notin Slot /\ Buffered \subseteq Slot
       /\ \A q \in Client : awaits'[q] = IF q = p /\ p # NULL THEN s ELSE awaits[q]
  BY <1>1, <1>2, TypeFields DEF WaitInv, LinkInv, TypeInv, TypeOK
<1>13. Owners'
  <2> SUFFICES ASSUME NEW t \in Buffered \cup {s}, mem'[t].proc # NULL
               PROVE  awaits'[mem'[t].proc] = t \/ Told(t)'
    BY <1>1 DEF Owners, Buffered
  <2>1. CASE t = s
    BY <1>1, <1>2, <1>3, <1>12, <2>1
  <2>2. CASE t # s
    <3>1. mem'[t] = mem[t] /\ mem[t].proc \in Client /\ t \in Buffered
      BY <1>1, <1>12, <2>2, TypeFields DEF WaitInv, LinkInv, TypeInv, Packet
    <3>2. awaits[mem[t].proc] = t \/ Told(t)
      BY <3>1 DEF WaitInv, Owners
    <3> QED
      BY <1>5, <1>10, <1>12, <3>1, <3>2
  <2> QED
    BY <2>1, <2>2
<1>14. ToldAwake'
  <2> SUFFICES ASSUME NEW t \in Buffered \cup {s}, Told(t) PROVE NoWaiter(t)'
    BY <1>1, <1>10 DEF ToldAwake, Buffered
  <2>1. t # s /\ NoWaiter(t)
    BY <1>11 DEF WaitInv, ToldAwake
  <2> QED
    BY <1>12, <2>1 DEF NoWaiter
<1>15. RunsAwake'
  <2> SUFFICES ASSUME NEW f \in ToSet(stack'), f.k = "run" PROVE awaits'[f.p] = NULL
    BY DEF RunsAwake
  <2>1. awaits[f.p] = NULL
    BY <1>6 DEF WaitInv, RunsAwake
  <2>2. f \in Frame
    BY <1>8 DEF ToSet
  <2>3. f.p \in Client
    BY <2>2, FrameFields
  <2> QED
    BY <1>5, <1>12, <2>1, <2>3
<1>16. TimeoutsBuffered' /\ Matched'
  BY <1>1, <1>6 DEF WaitInv, TimeoutsBuffered, Matched, Buffered
<1>17. WaiterHasPacket'
  BY WaitersOfFilled DEF WaitInv, LinkInv
<1> QED
  BY <1>7, <1>9, <1>13, <1>14, <1>15, <1>16, <1>17 DEF WaitInv

LEMMA TimeoutTellsWait ==
  ASSUME WaitInv, UNCHANGED use, LinkInv', TimeoutTells
  PROVE  WaitInv'
<1>1. /\ stack # << >> /\ stack[1].k = "timeout" /\ ~stack[1].told
      /\ UNCHANGED <<mem, buffer, sd, cur>>
  BY DEF TimeoutTells, Top, packetVars, deviceVars
<1>2. PICK s \in Slot : s = stack[1].s
  BY <1>1, TimeoutTop DEF Top, WaitInv, LinkInv
<1>3. PICK p \in Client : p = mem[s].proc
  BY <1>2, TimeoutTellsStack DEF WaitInv, LinkInv
<1> DEFINE f == Timeout(s, TRUE)
<1>4. Post(p, s, "timeout", f)
  BY <1>2, <1>3 DEF TimeoutTells, Tell
<1>5. f \in Frame /\ f.k = "timeout" /\ f.told /\ f.s = s
  BY FramesBuilt DEF Timeout
<1>6. PICK w \in Pointer : w = awaits[p]
  BY DEF WaitInv, LinkInv, TypeInv, TypeOK, Pointer
<1> DEFINE r == Run(p, w, s, "timeout")
<1>7. r \in Frame /\ r.k = "run" /\ r.p = p /\ r.want = w /\ r.got = s /\ r.why = "timeout"
  BY FramesBuilt DEF Run, Pointer
<1> HIDE DEF f
<1>8. /\ ToSet(stack) = {stack[1]} \cup ToSet(Tail(stack)) /\ stack[1] \in ToSet(stack)
      /\ Tail(stack) \in Seq(Frame) /\ Distinct(Tail(stack))
      /\ \A g \in ToSet(Tail(stack)) : g.k # "timeout"
  BY <1>1, TopFrame, PopDistinct DEF Same, WaitInv, LinkInv, TypeInv, StackOK
<1>9. s \in Buffered
  BY <1>1, <1>2, <1>8 DEF WaitInv, TimeoutsBuffered
<1>10. NULL \notin Slot /\ NULL \notin Client /\ Buffered \subseteq Slot
  BY TypeFields DEF WaitInv, LinkInv, TypeInv
<1>11. w \in {s, NULL}
  <2> SUFFICES ASSUME Told(s) PROVE awaits[p] = NULL
    BY <1>3, <1>6, <1>9, <1>10 DEF WaitInv, Owners
  <2>1. PICK g \in ToSet(stack) : g.k = "answered" /\ cur[g.d] = s
    BY <1>1, <1>8 DEF Told
  <2>2. \E q \in ToSet(stack) : q.k = "run" /\ q.p = p
    BY <1>1, <1>3, <2>1 DEF WaitInv, AnsweredBy, AnsweredIn
  <2> QED
    BY <2>2 DEF WaitInv, RunsAwake
<1> DEFINE S == <<f>> \o Tail(stack)
<1>12. /\ S \in Seq(Frame) /\ ToSet(S) = {f} \cup ToSet(Tail(stack))
       /\ Distinct(S)
  <2>1. \A g \in ToSet(Tail(stack)) : ~Same(f, g)
    BY <1>5, <1>8 DEF Same
  <2>2. Distinct(S)
    BY <1>5, <1>8, <2>1, PushDistinct
  <2> DEFINE T == Tail(stack)
  <2>3. f \in Frame /\ T \in Seq(Frame)
    BY <1>5, <1>8
  <2> HIDE DEF T
  <2>4. <<f>> \o T \in Seq(Frame) /\ ToSet(<<f>> \o T) = {f} \cup ToSet(T)
    BY <2>3, Pushed
  <2> QED
    BY <2>2, <2>4 DEF T
<1>13. \/ w = NULL /\ stack' = S /\ awaits' = awaits
       \/ w = s /\ stack' = <<r>> \o S /\ awaits' = [awaits EXCEPT ![p] = NULL]
  <2>1. CASE w = NULL
    BY <1>4, <1>6, <2>1 DEF Post, Become
  <2>2. CASE w = s
    BY <1>4, <1>6, <1>10, <2>2 DEF Post
  <2> QED
    BY <1>11, <2>1, <2>2
<1> HIDE DEF S, r
<1>14. /\ ToSet(S) \subseteq ToSet(stack') /\ ToSet(stack') \subseteq {r} \cup ToSet(S)
       /\ Distinct(stack')
       /\ r \in ToSet(stack') => w = s
       /\ \A q \in Client : awaits'[q] = IF q = p THEN NULL ELSE awaits[q]
  <2>1. awaits \in [Client -> Slot \cup {NULL}]
    BY DEF WaitInv, LinkInv, TypeInv, TypeOK
  <2>2. CASE w = NULL /\ stack' = S /\ awaits' = awaits
    <3>1. \A g \in ToSet(S) : g # r
      <4>1. \A g \in ToSet(stack) : g.k = "run" => g.got # s \/ g.got = g.want
        BY <1>10 DEF WaitInv, Matched
      <4> QED
        BY <1>5, <1>7, <1>8, <1>10, <1>12, <2>2, <4>1
    <3> QED
      BY <1>6, <1>12, <2>1, <2>2, <3>1
  <2>3. CASE w = s /\ stack' = <<r>> \o S /\ awaits' = [awaits EXCEPT ![p] = NULL]
    <3>1. \A g \in ToSet(S) : ~Same(r, g)
      <4>1. \A g \in ToSet(stack) : ~(g.k = "run" /\ g.p = p)
        BY <1>6, <1>10, <2>3 DEF WaitInv, RunsAwake
      <4> QED
        BY <1>5, <1>7, <1>8, <1>12, <4>1 DEF Same
    <3>2. Distinct(stack') /\ ToSet(stack') = {r} \cup ToSet(S)
      BY <1>7, <1>12, <2>3, <3>1, Pushed, PushDistinct
    <3> QED
      BY <2>1, <2>3, <3>2
  <2> QED
    BY <1>13, <2>2, <2>3
<1>15. \A t : Told(t)' <=> Told(t) \/ t = s
  <2>1. /\ \A g \in ToSet(stack') : g = r \/ g = f \/ g \in ToSet(stack)
        /\ f \in ToSet(stack')
        /\ \A g \in ToSet(stack) : g = stack[1] \/ g \in ToSet(stack')
    BY <1>8, <1>12, <1>14
  <2> QED
    BY <1>1, <1>5, <1>7, <2>1 DEF Told
<1>16. Owners'
  <2> SUFFICES ASSUME NEW t \in Buffered, mem[t].proc # NULL
               PROVE  awaits'[mem[t].proc] = t \/ Told(t)'
    BY <1>1 DEF Owners, Buffered
  <2>1. mem[t].proc \in Client /\ t \in Slot
    BY <1>10, TypeFields DEF WaitInv, LinkInv, TypeInv, Packet
  <2>2. awaits[mem[t].proc] = t \/ Told(t)
    BY DEF WaitInv, Owners
  <2> QED
    BY <1>6, <1>10, <1>11, <1>14, <1>15, <2>1, <2>2
<1>17. SamePackets /\ ToSet(buffer') = Buffered
  BY <1>1 DEF SamePackets, Buffered
<1>18. WaiterHasPacket'
  <2>1. \A q \in Client : awaits'[q] \in {awaits[q], NULL}
    BY <1>14
  <2> QED
    BY <1>17, <2>1, WaitersKept DEF WaitInv, LinkInv, TypeInv
<1>19. ToldAwake'
  <2> SUFFICES ASSUME NEW t \in Buffered, Told(t)' PROVE NoWaiter(t)'
    BY <1>17 DEF ToldAwake, Buffered
  <2>1. CASE t = s
    <3> SUFFICES ASSUME NEW q \in Client, awaits'[q] = s PROVE FALSE
      BY <2>1 DEF NoWaiter
    <3>1. awaits[q] = s /\ q # p
      BY <1>10, <1>14
    <3> QED
      BY <1>3, <1>10, <3>1 DEF WaitInv, WaiterHasPacket
  <2>2. CASE t # s
    <3>1. NoWaiter(t)
      BY <1>15, <2>2 DEF WaitInv, ToldAwake
    <3> QED
      BY <1>10, <1>14, <3>1 DEF NoWaiter
  <2> QED
    BY <2>1, <2>2
<1>20. RunsAwake'
  <2> SUFFICES ASSUME NEW g \in ToSet(stack'), g.k = "run" PROVE awaits'[g.p] = NULL
    BY DEF RunsAwake
  <2>1. CASE g = r
    BY <1>7, <1>14, <2>1
  <2>2. CASE g # r
    <3>1. g \in ToSet(stack)
      BY <1>5, <1>8, <1>12, <1>14, <2>2
    <3>2. awaits[g.p] = NULL /\ g \in Frame
      BY <3>1 DEF WaitInv, RunsAwake, LinkInv, TypeInv, StackOK, ToSet
    <3>3. g.p \in Client
      BY <3>2, FrameFields
    <3> QED
      BY <1>14, <3>2, <3>3
  <2> QED
    BY <2>1, <2>2
<1>21. TimeoutsBuffered'
  BY <1>5, <1>7, <1>8, <1>9, <1>12, <1>14, <1>17 DEF TimeoutsBuffered, Buffered
<1>22. Matched'
  BY <1>5, <1>7, <1>8, <1>12, <1>14 DEF WaitInv, Matched
<1>23. AnsweredBy'
  <2> SUFFICES ASSUME NEW g \in ToSet(stack'), g.k = "answered", cur[g.d] \in Slot
               PROVE  \E q \in ToSet(stack') : q.k = "run" /\ q.why \in Message /\ q.p = mem[cur[g.d]].proc
    BY <1>1, SameFrames DEF AnsweredBy, AnsweredIn, WaitInv, LinkInv
  <2>1. g \in ToSet(stack)
    BY <1>5, <1>7, <1>8, <1>12, <1>14
  <2>2. PICK q \in ToSet(stack) : q.k = "run" /\ q.why \in Message /\ q.p = mem[cur[g.d]].proc
    BY <1>1, <2>1 DEF WaitInv, AnsweredBy, AnsweredIn
  <2>3. q \in ToSet(stack')
    BY <1>1, <1>8, <1>12, <1>14, <2>2
  <2> QED
    BY <2>2, <2>3
<1> QED
  BY <1>14, <1>16, <1>18, <1>19, <1>20, <1>21, <1>22, <1>23 DEF WaitInv

LEMMA TimeoutRemovesWait ==
  ASSUME WaitInv, UNCHANGED use, LinkInv', TimeoutRemoves
  PROVE  WaitInv'
<1>1. /\ stack # << >> /\ stack[1].k = "timeout" /\ stack' = Tail(stack)
      /\ UNCHANGED <<mem, awaits>>
  BY DEF TimeoutRemoves, Top, Return
<1>2. PICK s \in Slot : s = stack[1].s
  BY <1>1, TimeoutTop DEF Top, WaitInv, LinkInv
<1>3. /\ stack[1].told \/ mem[s].proc = NULL
      /\ buffer' = Without(s) /\ cur' = Unused(s)
  BY <1>2 DEF TimeoutRemoves
<1>4. ToSet(buffer') = Buffered \ {s}
  BY <1>3, WithoutList DEF WaitInv, LinkInv, TypeInv, TypeOK
<1>5. \A d \in Device : cur'[d] = IF cur[d] = s THEN NULL ELSE cur[d]
  BY <1>3 DEF Unused
<1>6. /\ ToSet(stack) = {stack[1]} \cup ToSet(stack') /\ stack[1] \in ToSet(stack)
      /\ stack' \in Seq(Frame) /\ Distinct(stack')
      /\ \A g \in ToSet(stack') : g.k # "timeout"
  BY <1>1, TopFrame, PopDistinct DEF Same, WaitInv, LinkInv, TypeInv, StackOK
<1>7. NULL \notin Slot /\ NULL \notin Client /\ Buffered \subseteq Slot
  BY TypeFields DEF WaitInv, LinkInv, TypeInv
<1>8. s \in Buffered => NoWaiter(s)
  <2>1. CASE stack[1].told
    BY <1>1, <1>2, <1>6, <2>1 DEF Told, WaitInv, ToldAwake
  <2>2. CASE mem[s].proc = NULL
    BY <1>7, <2>2 DEF NoWaiter, WaitInv, WaiterHasPacket
  <2> QED
    BY <1>3, <2>1, <2>2
<1>9. ASSUME NEW t \in Slot, t # s PROVE Told(t)' <=> Told(t)
  <2>1. \A g \in ToSet(stack') : g.k = "answered" => (cur'[g.d] = t <=> cur[g.d] = t)
    <3> SUFFICES ASSUME NEW g \in ToSet(stack'), g.k = "answered"
                 PROVE  cur'[g.d] = t <=> cur[g.d] = t
      OBVIOUS
    <3>1. g \in Frame
      BY <1>6 DEF ToSet
    <3>2. g.d \in Device
      BY <3>1, FrameFields DEF ThreadKind
    <3> QED
      BY <1>5, <1>7, <1>9, <3>2
  <2> QED
    BY <1>1, <1>2, <1>6, <1>9, <2>1 DEF Told
<1>10. SamePackets
  BY <1>1 DEF SamePackets
<1>11. WaiterHasPacket'
  BY <1>1, <1>4, <1>8, <1>10, WaitersKept DEF WaitInv, LinkInv, TypeInv
<1>12. Owners' /\ ToldAwake'
  BY <1>1, <1>4, <1>7, <1>9 DEF WaitInv, Owners, ToldAwake, NoWaiter, Buffered
<1>13. RunsAwake' /\ TimeoutsBuffered' /\ Matched'
  BY <1>1, <1>6 DEF WaitInv, RunsAwake, TimeoutsBuffered, Matched
<1>14. AnsweredIn(Tail(stack))
  BY <1>1, PopAnswered DEF WaitInv, LinkInv, TypeInv, StackOK, AnsweredBy
<1>15. AnsweredBy'
  BY <1>1, <1>5, <1>6, <1>14, AnswersKept
<1> QED
  BY <1>6, <1>11, <1>12, <1>13, <1>15 DEF WaitInv

LEMMA ThreadReplyWait ==
  ASSUME WaitInv, UNCHANGED use, LinkInv', ThreadReply
  PROVE  WaitInv'
<1>0. TypeInv' /\ TypeInv /\ LinkInv
  BY DEF WaitInv, LinkInv
<1>1. /\ stack[1].d \in Device /\ stack # << >> /\ stack[1].k = "thread"
  BY <1>0, ThreadReplyStack
<1>2. PICK d \in Device : d = stack[1].d
  BY <1>1
<1>3. PICK s \in Slot : s = cur[d]
  BY <1>0, <1>2, ThreadReplyLinked
<1>4. last[d] = s /\ ~mem[s].incoming /\ stack[1].data.k = "reply" /\ cur' = cur
  BY <1>0, <1>2, <1>3, ThreadReplyLinked
<1>5. PICK p : p = mem[s].proc
  OBVIOUS
<1>6. /\ ToSet(stack) = {stack[1]} /\ Tail(stack) = << >>
  BY <1>0, <1>1, ThreadTop DEF ThreadKind
<1> DEFINE f == Answered(d)
<1>7. f \in Frame /\ f.k = "answered" /\ f.d = d
  BY FramesBuilt DEF Answered
<1>8. /\ UNCHANGED <<mem, buffer>>
      /\ \/ p # NULL /\ Post(p, s, "reply", f)
         \/ p = NULL /\ Become(f) /\ UNCHANGED awaits
  BY <1>2, <1>3, <1>4, <1>5 DEF ThreadReply, packetVars
<1>9. NULL \notin Slot /\ NULL \notin Client /\ Buffered \subseteq Slot /\ p \in Client \cup {NULL}
      /\ s \in Buffered
  BY <1>0, <1>3, <1>5, TypeFields DEF Packet, TypeInv, LinkInv, CurLive
<1>10. \A t : ~Told(t)
  BY <1>1, <1>6 DEF Told
<1>11. p # NULL => awaits[p] = s
  BY <1>5, <1>9, <1>10 DEF WaitInv, Owners
<1> DEFINE r == Run(p, s, s, "reply")
<1>12. p # NULL => r \in Frame
  BY <1>9, FramesBuilt DEF Pointer, Message
<1>13. /\ r.k = "run" /\ r.p = p /\ r.want = s /\ r.got = s /\ r.why = "reply" /\ r.why \in Message
  BY DEF Run, Message
<1> DEFINE S == <<f>> \o << >>
<1>14. /\ S \in Seq(Frame) /\ ToSet(S) = {f} /\ S[1] = f /\ Distinct(S)
  <2>1. << >> \in Seq(Frame) /\ ToSet(<< >>) = {} /\ Distinct(<< >>)
    BY DEF ToSet, Distinct
  <2> HIDE DEF f
  <2>2. Distinct(S)
    BY <1>7, <2>1, PushDistinct
  <2>3. S \in Seq(Frame) /\ ToSet(S) = {f} \cup ToSet(<< >>) /\ S[1] = f
    <3>1. f \in Frame
      BY <1>7
    <3> QED
      BY <2>1, <3>1, PushedAlone
  <2> QED
    BY <2>1, <2>2, <2>3
<1>15. \/ p # NULL /\ stack' = <<r>> \o S /\ awaits' = [awaits EXCEPT ![p] = NULL]
       \/ p = NULL /\ stack' = S /\ awaits' = awaits
  <2>1. CASE p # NULL
    BY <1>6, <1>8, <1>9, <1>11, <2>1 DEF Post
  <2>2. CASE p = NULL
    BY <1>6, <1>8, <2>2 DEF Become
  <2> QED
    BY <2>1, <2>2
<1> HIDE DEF S, r, f
<1>16. /\ f \in ToSet(stack') /\ ToSet(stack') \subseteq {r, f} /\ Distinct(stack')
       /\ p # NULL => r \in ToSet(stack')
       /\ p = NULL => stack'[1] = f /\ ToSet(stack') = {f}
  <2>1. CASE p = NULL
    BY <1>14, <1>15, <2>1
  <2>2. CASE p # NULL
    <3>1. \A g \in ToSet(S) : ~Same(r, g)
      BY <1>7, <1>13, <1>14 DEF Same
    <3>2. Distinct(stack') /\ ToSet(stack') = {r} \cup ToSet(S)
      BY <1>12, <1>14, <1>15, <2>2, <3>1, Pushed, PushDistinct
    <3> QED
      BY <1>14, <2>2, <3>2
  <2> QED
    BY <2>1, <2>2
<1>17. \A q \in Client : awaits'[q] = IF q = p THEN NULL ELSE awaits[q]
  BY <1>0, <1>9, <1>15 DEF TypeInv, TypeOK
<1>18. \A t : Told(t)' <=> t = s
  BY <1>3, <1>4, <1>7, <1>13, <1>16 DEF Told
<1>19. SamePackets /\ ToSet(buffer') = Buffered
  BY <1>8 DEF SamePackets, Buffered
<1>20. WaiterHasPacket'
  <2>1. \A q \in Client : awaits'[q] \in {awaits[q], NULL}
    BY <1>17
  <2> QED
    BY <1>0, <1>19, <2>1, WaitersKept DEF WaitInv, TypeInv
<1>21. Owners'
  <2> SUFFICES ASSUME NEW t \in Buffered, mem[t].proc # NULL, t # s
               PROVE  awaits'[mem[t].proc] = t
    BY <1>8, <1>18 DEF Owners, Buffered
  <2>1. mem[t].proc \in Client
    BY <1>0, <1>9, TypeFields DEF TypeInv, Packet
  <2>2. awaits[mem[t].proc] = t
    BY <1>10 DEF WaitInv, Owners
  <2> QED
    BY <1>9, <1>11, <1>17, <2>1, <2>2
<1>22. ToldAwake'
  <2> SUFFICES NoWaiter(s)'
    BY <1>18 DEF ToldAwake
  <2>1. \/ mem[s].proc = NULL /\ UNCHANGED awaits
        \/ mem[s].proc \in Client /\ awaits' = [awaits EXCEPT ![mem[s].proc] = NULL]
    BY <1>5, <1>9, <1>15
  <2> QED
    BY <1>0, <2>1, ToldNoWaiter DEF WaitInv, TypeInv
<1>23. RunsAwake'
  <2> SUFFICES ASSUME NEW g \in ToSet(stack'), g.k = "run" PROVE awaits'[g.p] = NULL
    BY DEF RunsAwake
  <2>1. g = r /\ p # NULL
    BY <1>7, <1>16
  <2> QED
    BY <1>9, <1>13, <1>17, <2>1
<1>24. TimeoutsBuffered' /\ Matched'
  BY <1>7, <1>13, <1>16 DEF TimeoutsBuffered, Matched
<1>25. AnsweredBy'
  <2> SUFFICES ASSUME NEW g \in ToSet(stack'), g.k = "answered"
               PROVE  \/ stack'[1].k = "answered"
                      \/ \E q \in ToSet(stack') :
                           q.k = "run" /\ q.why \in Message /\ q.p = mem'[cur'[g.d]].proc
    BY DEF AnsweredBy, AnsweredIn
  <2>1. g = f
    BY <1>13, <1>16
  <2>2. mem'[cur'[g.d]].proc = p
    BY <1>3, <1>4, <1>5, <1>7, <1>8, <2>1
  <2> QED
    BY <1>7, <1>13, <1>16, <2>2
<1> QED
  BY <1>16, <1>20, <1>21, <1>22, <1>23, <1>24, <1>25 DEF WaitInv

LEMMA ShortStack ==
  /\ ToSet(<< >>) = {} /\ Distinct(<< >>)
  /\ \A f : ToSet(<<f>>) = {f} /\ Distinct(<<f>>)
<1>1. ToSet(<< >>) = {} /\ Distinct(<< >>)
  BY DEF ToSet, Distinct
<1>2. ASSUME NEW f PROVE ToSet(<<f>>) = {f} /\ Distinct(<<f>>)
  BY DEF ToSet, Distinct
<1> QED
  BY <1>1, <1>2

\* ... that leaves nothing on the stack.
LEMMA NothingLeft ==
  ASSUME WaitInv, UNCHANGED use, LinkInv', UNCHANGED <<buffer, awaits>>, SamePackets,
         \A t : ~Told(t), stack' = << >>
  PROVE  WaitInv'
<1>1. ToSet(stack') = {} /\ Distinct(stack')
  BY ShortStack
<1>2. ToSet(buffer') = Buffered
  BY DEF Buffered
<1> QED
  BY <1>1, <1>2, NothingTold

\* What begins and what ends without a process that is told.
LEMMA QuietWait ==
  ASSUME WaitInv, UNCHANGED use, LinkInv',
         \/ ThreadWaits \/ ThreadAnswered \/ ThreadSends
         \/ \E d \in Device : \E data \in Incoming(d) : Receive(d, data) \/ Acked(d, data)
         \/ \E d \in Device : Connected(d) \/ Closed(d) \/ Aborted(d) \/ CloseTimedOut(d)
         \/ Timers
  PROVE  WaitInv'
<1>0. TypeInv' /\ TypeInv /\ LinkInv
  BY DEF WaitInv, LinkInv
<1>1. CASE ThreadWaits
  <2>1. /\ stack # << >> /\ stack[1].k = "thread" /\ UNCHANGED <<mem, buffer, awaits>>
        /\ Become(Send(stack[1].d)) \/ Return
    BY <1>1 DEF ThreadWaits, Top, packetVars
  <2>2. stack[1].d \in Device /\ ToSet(stack) = {stack[1]} /\ Tail(stack) = << >>
    BY <1>0, <2>1, ThreadTop DEF ThreadKind
  <2> DEFINE f == Send(stack[1].d)
  <2>3. f.k = "send"
    BY DEF Send
  <2>4. stack' = <<f>> \/ stack' = << >>
    BY <2>1, <2>2, ConcatEmptySeq DEF Become, Return
  <2> HIDE DEF f
  <2>5. Distinct(stack') /\ \A g \in ToSet(stack') : g.k = "send"
    BY <2>3, <2>4, ShortStack
  <2>6. \A t : ~Told(t)
    BY <2>1, <2>2 DEF Told
  <2>7. SamePackets /\ ToSet(buffer') = Buffered
    BY <2>1 DEF SamePackets, Buffered
  <2> QED
    BY <2>1, <2>5, <2>6, <2>7, NothingTold
<1>2. CASE ThreadAnswered
  <2>1. /\ stack # << >> /\ stack[1].k = "answered" /\ UNCHANGED <<mem, awaits>>
        /\ Become(Send(stack[1].d)) /\ RemovePacket(cur[stack[1].d])
    BY <1>2 DEF ThreadAnswered, Top
  <2>2. PICK d \in Device : d = stack[1].d
    BY <1>0, <2>1, ThreadTop DEF ThreadKind
  <2>3. stack[1] \in ToSet(stack) /\ ToSet(stack) = {stack[1]} /\ stack' = <<Send(d)>>
    BY <1>0, <2>1, <2>2, ThreadTop, ToSendStack DEF ThreadKind
  <2>4. ToSet(buffer') = Buffered \ {cur[d]}
    BY <1>0, <2>1, <2>2, RemovePacketTyped DEF TypeInv
  <2>5. \A t : Told(t) <=> t = cur[d]
    BY <2>1, <2>2, <2>3 DEF Told
  <2>6. cur[d] \in Buffered => NoWaiter(cur[d])
    BY <2>5 DEF WaitInv, ToldAwake
  <2> DEFINE f == Send(d)
  <2>7. f.k = "send" /\ stack' = <<f>>
    BY <2>3 DEF Send
  <2> HIDE DEF f
  <2>8. Distinct(stack') /\ \A g \in ToSet(stack') : g.k = "send"
    BY <2>7, ShortStack
  <2>9. SamePackets
    BY <2>1 DEF SamePackets
  <2>10. \A t \in Buffered : t \in ToSet(buffer') \/ NoWaiter(t)
    BY <2>4, <2>6
  <2> QED
    BY <2>1, <2>4, <2>5, <2>8, <2>9, <2>10, NothingTold
<1>3. CASE ThreadSends
  <2>1. stack # << >> /\ stack[1].k = "send" /\ UNCHANGED <<buffer, awaits>>
    BY <1>3 DEF ThreadSends, Top
  <2>2. ToSet(stack) = {stack[1]}
    BY <1>0, <2>1, ThreadTop DEF ThreadKind
  <2>3. stack' = << >>
    BY <1>0, <1>3, ThreadSendsData
  <2>4. \A t : ~Told(t)
    BY <2>1, <2>2 DEF Told
  <2>5. SamePackets /\ ToSet(buffer') = Buffered
    BY <1>0, <1>3, <2>1, SendsSamePackets DEF Buffered
  <2> QED
    BY <2>1, <2>3, <2>4, <2>5, NothingLeft
<1>4. stack = << >> => \A t : ~Told(t)
  BY DEF Told, ToSet
<1>5. CASE \E d \in Device : \E data \in Incoming(d) : Receive(d, data) \/ Acked(d, data)
  <2>0. PICK d \in Device : \E data \in Incoming(d) : Receive(d, data) \/ Acked(d, data)
    BY <1>5
  <2>1. PICK data \in Incoming(d) : Receive(d, data) \/ Acked(d, data)
    BY <2>0
  <2>2. UNCHANGED <<mem, buffer, awaits>>
    BY <1>0, <2>1, ReceivedLinked
  <2>3. stack = << >> /\ stack' = <<Thread(d, data)>>
    BY <1>0, <2>1, ReceivedStack DEF Receive, Acked
  <2> DEFINE f == Thread(d, data)
  <2>4. f.k = "thread" /\ stack' = <<f>>
    BY <2>3 DEF Thread
  <2> HIDE DEF f
  <2>5. Distinct(stack') /\ \A g \in ToSet(stack') : g.k = "thread"
    BY <2>4, ShortStack
  <2>6. SamePackets /\ ToSet(buffer') = Buffered
    BY <2>2 DEF SamePackets, Buffered
  <2> QED
    BY <1>4, <2>2, <2>3, <2>5, <2>6, NothingTold
<1>6. CASE \E d \in Device : Connected(d) \/ Closed(d) \/ Aborted(d) \/ CloseTimedOut(d)
  <2>1. PICK d \in Device : Connected(d) \/ Closed(d) \/ Aborted(d) \/ CloseTimedOut(d)
    BY <1>6
  <2>2. stack = << >> /\ stack' = << >> /\ UNCHANGED <<buffer, awaits>>
    BY <2>1 DEF Connected, Closed, Aborted, CloseTimedOut, Idle, packetVars
  <2>3. SamePackets
    <3>1. mem' = mem \/ SockEnd(d)
      BY <2>1 DEF Connected, Closed, Aborted, CloseTimedOut, packetVars
    <3>2. mem' = mem => SamePackets
      BY DEF SamePackets
    <3> QED
      BY <1>0, <3>1, <3>2, SockEndSamePackets DEF TypeInv
  <2> QED
    BY <1>4, <2>2, <2>3, NothingLeft
<1>7. CASE Timers
  <2>1. ASSUME NEW s \in Slot \cup {SD}, TimerExpires(s) PROVE WaitInv'
    <3>1. stack = << >> /\ stack' = << >> /\ UNCHANGED <<mem, buffer, awaits>>
      BY <2>1 DEF TimerExpires, Idle
    <3>2. SamePackets
      BY <3>1 DEF SamePackets
    <3> QED
      BY <1>4, <3>1, <3>2, NothingLeft
  <2>2. ASSUME NEW d \in Device, Tick(d) PROVE WaitInv'
    <3>1. /\ SamePackets /\ stack = << >>
          /\ stack' = << >> \/ \E s \in Buffered : stack' = <<Timeout(s, FALSE)>>
      BY <1>0, <2>2, TickSamePackets, TickStack DEF TypeInv
    <3>2. UNCHANGED <<buffer, awaits>>
      BY <2>2 DEF Tick
    <3>3. CASE stack' = << >>
      BY <1>4, <3>1, <3>2, <3>3, NothingLeft
    <3>4. CASE \E s \in Buffered : stack' = <<Timeout(s, FALSE)>>
      <4>1. PICK s \in Buffered : stack' = <<Timeout(s, FALSE)>>
        BY <3>4
      <4> DEFINE f == Timeout(s, FALSE)
      <4>2. f.k = "timeout" /\ ~f.told /\ f.s = s /\ stack' = <<f>>
        BY <4>1 DEF Timeout
      <4> HIDE DEF f
      <4>3. ToSet(stack') = {f} /\ Distinct(stack')
        BY <4>2, ShortStack
      <4> QED
        BY <1>4, <3>1, <3>2, <4>2, <4>3, NothingTold DEF Buffered
    <3> QED
      BY <3>1, <3>3, <3>4
  <2> QED
    BY <1>7, <2>1, <2>2 DEF Timers
<1> QED
  BY <1>1, <1>2, <1>3, <1>5, <1>6, <1>7

LEMMA InitWait == Init /\ Server = {} /\ Uncarded => WaitInv
<1> SUFFICES ASSUME Init, Server = {}, Uncarded PROVE WaitInv
  OBVIOUS
<1>1. stack = << >> /\ ToSet(stack) = {} /\ Buffered = {} /\ \A p \in Client : awaits[p] = NULL
  BY DEF Init, Buffered, ToSet
<1> QED
  BY <1>1, InitLinked, ShortStack DEF WaitInv, WaiterHasPacket, RunsAwake, TimeoutsBuffered,
     Owners, ToldAwake, AnsweredBy, AnsweredIn, Matched

LEMMA WaitNext ==
  WaitInv /\ [Next]_<<use, vars>> /\ [~NestedEviction]_<<use, vars>> => WaitInv'
<1> SUFFICES ASSUME WaitInv, [Next]_<<use, vars>>, [~NestedEviction]_<<use, vars>> PROVE WaitInv'
  OBVIOUS
<1>1. LinkInv'
  BY LinkNext DEF WaitInv
<1>2. CASE UNCHANGED <<use, vars>>
  <2>1. UNCHANGED <<use, mem, buffer, cur, awaits, stack>>
    BY <1>2 DEF vars, packetVars, deviceVars
  <2>2. AnsweredBy'
    BY <2>1, SameFrames DEF WaitInv, AnsweredBy, AnsweredIn
  <2> QED
    BY <1>1, <2>1, <2>2, FramesMoved DEF WaitInv
<1>3. CASE Next /\ ~NestedEviction
  <2>1. UNCHANGED use
    BY <1>3 DEF Next
  <2>2. CASE Clients
    BY <1>1, <2>1, <2>2, ClientsWait
  <2>3. CASE Library
    BY <1>1, <1>3, <2>1, <2>3, ReturnsWait, PutEvictsWait, PutFillsWait, TimeoutTellsWait,
       TimeoutRemovesWait, ThreadReplyWait, QuietWait, LinkedNoRequests DEF Library, WaitInv
  <2>4. CASE Network
    BY <1>1, <2>1, <2>4, QuietWait DEF Network
  <2>5. CASE Timers
    BY <1>1, <2>1, <2>5, QuietWait
  <2> QED
    BY <1>3, <2>2, <2>3, <2>4, <2>5 DEF Next
<1> QED
  BY <1>2, <1>3

(***************************************************************************)
(* While no device makes requests, nothing is to be kept on the SD card    *)
(* and no packet times out for want of a slot in the midst of another      *)
(* timeout, a process that waits and a connection that is occupied point   *)
(* to packets that can still end, though the processes that are resumed    *)
(* put packets of their own (SCP_Buffer.c lines 60-96, 170-203; SCP_Comm.c *)
(* lines 334-343).                                                         *)
(***************************************************************************)
THEOREM PointersStayLive ==
  ASSUME Server = {}
  PROVE  Spec /\ Uncarded /\ [][~NestedEviction]_<<use, vars>> => []PointersLive
<1>1. Init /\ Uncarded => WaitInv
  BY InitWait
<1>2. WaitInv => PointersLive
  BY DEF WaitInv, LinkInv, TypeInv, TypeOK, CurLive, CurIsLive, PointersLive
<1> QED
  BY <1>1, <1>2, WaitNext, PTL DEF Spec

(***************************************************************************)
(* ... and what resumes a process is the packet it waits for, with a reply *)
(* to that packet or its timeout (SCP_Comm.c lines 334-341, SCP_Buffer.c   *)
(* lines 60-72).                                                           *)
(***************************************************************************)
THEOREM RepliesMatch ==
  ASSUME Server = {}
  PROVE  Spec /\ Uncarded /\ [][~NestedEviction]_<<use, vars>> => []ReplyMatchesRequest
<1>1. Init /\ Uncarded => WaitInv
  BY InitWait
<1>2. WaitInv => ReplyMatchesRequest
  <2>1. WaitInv => DOMAIN stack = 1..Len(stack)
    BY DEF WaitInv, LinkInv, TypeInv, StackOK
  <2>2. WaitInv => \A i \in 1..Len(stack) : stack[i] \in ToSet(stack)
    BY <2>1 DEF ToSet
  <2> QED
    BY <2>2 DEF WaitInv, Matched, ReplyMatchesRequest
<1> QED
  BY <1>1, <1>2, WaitNext, PTL DEF Spec

(***************************************************************************)
(* That no eviction is nested is the case, whatever the devices send, if   *)
(* no process puts a packet when a reply or a timeout has resumed it       *)
(* (SCP_Buffer.c line 177).                                                *)
(***************************************************************************)
THEOREM CalmEvictions == Spec /\ use.nested = {} => [][~NestedEviction]_<<use, vars>>
<1>1. CalmInv => ~NestedEviction
  <2> SUFFICES ASSUME CalmInv, PutEvicts, NEW f \in ToSet(stack), f.k = "timeout" PROVE FALSE
    BY DEF NestedEviction
  <2>1. stack # << >> /\ stack[1].k \in {"put", "putin"}
    BY DEF PutEvicts, Top
  <2>2. f \in ToSet(Tail(stack)) /\ ~Sensitive(f)
    BY <2>1, TopFrame, ShieldedTop DEF CalmInv, TypeInv, Insensitive
  <2>3. /\ Len(stack) \in Nat \ {0} /\ Len(Tail(stack)) = Len(stack) - 1
        /\ Tail(stack) \in Seq(Frame)
        /\ \A i \in 1..(Len(stack) - 1) : Tail(stack)[i] = stack[i + 1]
    BY <2>1, Popped DEF CalmInv, TypeInv, StackOK
  <2>4. PICK j \in 1..(Len(stack) - 1) : f = Tail(stack)[j]
    BY <2>2, <2>3 DEF ToSet
  <2>5. Under(stack[j], f)
    BY <2>3, <2>4 DEF CalmInv, TypeInv, StackOK, Nested
  <2> QED
    BY <2>2, <2>5 DEF Under, Sensitive
<1>2. CalmInv /\ [Next]_<<use, vars>> => CalmInv'
  BY CalmNext
<1> QED
  BY <1>1, <1>2, InitCalm, PTL DEF Spec
-----------------------------------------------------------------------------
(* A device may send requests of its own.  If there is only the one, and   *)
(* nothing goes to the SD card, then what Cur_Packet and last_send_Packet  *)
(* lead to may have timed out, but is not sent a second time.              *)

\* The packets that can still be sent or replied to.
Held == (Buffered \cup {last[d] : d \in Device}) \ {NULL}
Requests == {s \in Held : ~mem[s].incoming}

OneDevice == \A d, e \in use.devices : d = e
OthersQuiet ==
  \A e \in Device \ use.devices :
    state[e] = "disconnected" /\ cur[e] = NULL /\ last[e] = NULL /\ answers[e] = {}
Unspilled ==
  /\ Uncarded /\ sd = NULL
  /\ \A s \in Slot : ~mem[s].incoming /\ mem[s].proc = NULL => ~mem[s].important
FrameUsed(f) ==
  /\ f.k \in ThreadKind => f.d \in use.devices
  /\ f.k = "put" /\ f.proc = NULL => ~f.important
FramesUsed == \A f \in ToSet(stack) : FrameUsed(f)
PointersHeld == Held \subseteq Slot /\ \A d \in Device : cur[d] \in Held \cup {NULL}

\* A request that may still be answered has been sent, and no other has its id.
OneEach == \A s, t \in Requests : mem[s].id = mem[t].id => s = t
AskedSent == \A s \in Requests : \A d \in Device : mem[s].id \in answers[d] => mem[s].send

OnceInv ==
  /\ TypeInv /\ OneDevice /\ OthersQuiet /\ Unspilled /\ FramesUsed
  /\ PointersHeld /\ OneEach /\ AskedSent

\* A step that puts no packet, ...
LEMMA OnceKept ==
  ASSUME OnceInv, UNCHANGED use, TypeInv', sd' = NULL, SamePackets, OthersQuiet',
         Held' \subseteq Held, \A d \in Device : cur'[d] \in Held' \cup {NULL},
         \A f \in ToSet(stack') : f \in ToSet(stack) \/ FrameUsed(f),
         \A s \in Requests : \A d \in Device : mem[s].id \in answers'[d] => mem'[s].send
  PROVE  OnceInv'
<1>1. OneDevice' /\ FramesUsed' /\ Slot' = Slot
  BY SameFrames DEF OnceInv, OneDevice, FramesUsed, FrameUsed
<1>2. Unspilled'
  BY <1>1 DEF OnceInv, Unspilled, Uncarded, SamePackets
<1>3. PointersHeld' /\ Held \subseteq Slot
  BY <1>1 DEF OnceInv, PointersHeld
<1>4. \A s \in Requests' : s \in Requests /\ s \in Slot /\ mem'[s].id = mem[s].id
  BY <1>3 DEF Requests, SamePackets
<1>5. OneEach'
  BY <1>4 DEF OnceInv, OneEach
<1>6. AskedSent'
  BY <1>4 DEF AskedSent
<1> QED
  BY <1>1, <1>2, <1>3, <1>5, <1>6 DEF OnceInv

\* ... or sends none and has none to be sent again.
LEMMA OnceSame ==
  ASSUME OnceInv, UNCHANGED use, TypeInv', sd' = NULL, \A s \in Slot : mem'[s] = mem[s],
         OthersQuiet', Held' \subseteq Held, \A d \in Device : cur'[d] \in Held' \cup {NULL},
         \A f \in ToSet(stack') : f \in ToSet(stack) \/ FrameUsed(f),
         \A d \in Device : answers'[d] \subseteq answers[d]
  PROVE  OnceInv'
<1>1. SamePackets
  BY DEF SamePackets
<1>2. \A s \in Requests : s \in Slot
  BY DEF OnceInv, PointersHeld, Requests
<1>3. \A s \in Requests : \A d \in Device : mem[s].id \in answers'[d] => mem'[s].send
  BY <1>2 DEF OnceInv, AskedSent
<1> QED
  BY <1>1, <1>3, OnceKept

\* A step that moves frames and, it may be, Cur_Packet.
LEMMA OnceMoved ==
  ASSUME OnceInv, UNCHANGED use, TypeInv', UNCHANGED <<mem, buffer, sd, last>>,
         OthersQuiet', \A d \in Device : cur'[d] \in Held \cup {NULL},
         \A f \in ToSet(stack') : f \in ToSet(stack) \/ FrameUsed(f),
         \A d \in Device : answers'[d] \subseteq answers[d]
  PROVE  OnceInv'
<1>1. Held' = Held
  BY DEF Held, Buffered
<1>2. sd' = NULL
  BY DEF OnceInv, Unspilled
<1> QED
  BY <1>1, <1>2, OnceSame

LEMMA HeldFacts ==
  ASSUME OnceInv
  PROVE  /\ Buffered \subseteq Held /\ Held \subseteq Slot /\ NULL \notin Held
         /\ \A d \in Device : last[d] \in Held \cup {NULL} /\ cur[d] \in Held \cup {NULL}
         /\ SD \notin Held /\ NULL # SD /\ NULL \notin Slot
<1>1. Buffered \subseteq Slot /\ NULL \notin Slot /\ SD \notin Slot /\ NULL # SD
  BY TypeFields DEF OnceInv, TypeInv
<1>2. Held \subseteq Slot /\ \A d \in Device : cur[d] \in Held \cup {NULL}
  BY DEF OnceInv, PointersHeld
<1> QED
  BY <1>1, <1>2 DEF Held

\* An event of a connection is one of a device that is used.
LEMMA UsedDevice ==
  ASSUME OnceInv, NEW d \in Device, state[d] # "disconnected"
  PROVE  d \in use.devices /\ \A e \in Device : e # d => e \notin use.devices
BY DEF OnceInv, OthersQuiet, OneDevice

LEMMA ClientsOnce ==
  ASSUME OnceInv, UNCHANGED use, TypeInv', Clients \/ ClientReturns
  PROVE  OnceInv'
<1>1. UNCHANGED <<mem, buffer, sd, state, cur, last, answers>>
  BY DEF Clients, ClientRuns, ClientPuts, ClientReturns, packetVars, deviceVars
<1>2. \A f \in ToSet(stack') : f \in ToSet(stack) \/ FrameUsed(f)
  <2>1. ASSUME NEW p \in Client, ClientRuns(p)
        PROVE  \A f \in ToSet(stack') : f \in ToSet(stack) \/ FrameUsed(f)
    <3> DEFINE f == Run(p, NULL, NULL, "own")
    <3>1. stack' = <<f>> \o stack /\ f \in Frame
      BY <2>1, FramesBuilt DEF ClientRuns, Call, Pointer
    <3>2. FrameUsed(f)
      BY DEF Run, FrameUsed, ThreadKind
    <3> HIDE DEF f
    <3> QED
      BY <3>1, <3>2, Pushed DEF OnceInv, TypeInv, StackOK
  <2>2. ASSUME NEW kind \in Kind, NEW d \in Device, ClientPuts(kind, d)
        PROVE  \A f \in ToSet(stack') : f \in ToSet(stack) \/ FrameUsed(f)
    <3> DEFINE f == Put(IF kind = "send" THEN stack[1].p ELSE NULL, kind # "buffer", d)
    <3>1. stack # << >> /\ stack[1].k = "run" /\ stack' = <<f>> \o stack /\ kind # "important"
      BY <2>2 DEF ClientPuts, Top, Call, OnceInv, Unspilled, Uncarded
    <3>2. stack[1].p \in Client /\ NULL \notin Client
      BY <3>1, TopFrame, FrameFields, TypeFields DEF OnceInv, TypeInv
    <3>3. f \in Frame
      BY <3>2, FramesBuilt
    <3>4. FrameUsed(f)
      BY <3>1, <3>2 DEF Put, FrameUsed, Kind, ThreadKind
    <3> HIDE DEF f
    <3> QED
      BY <3>1, <3>3, <3>4, Pushed DEF OnceInv, TypeInv, StackOK
  <2>3. CASE ClientReturns
    <3>1. stack # << >> /\ stack' = Tail(stack)
      BY <2>3 DEF ClientReturns, Top, Return
    <3> QED
      BY <3>1, TopFrame DEF OnceInv, TypeInv
  <2> QED
    BY <2>1, <2>2, <2>3 DEF Clients
<1>3. OthersQuiet'
  BY <1>1 DEF OnceInv, OthersQuiet
<1> QED
  BY <1>1, <1>2, <1>3, OnceMoved, HeldFacts

LEMMA PutEvictsOnce ==
  ASSUME OnceInv, UNCHANGED use, TypeInv', PutEvicts
  PROVE  OnceInv'
<1>1. /\ stack # << >> /\ stack[1] \in ToSet(stack) /\ stack' = <<Evict>> \o stack
      /\ stack[1].k \in {"put", "putin"} /\ Free = {}
      /\ UNCHANGED <<mem, buffer, sd, state, last, answers>>
  BY TopFrame DEF PutEvicts, Top, Call, OnceInv, TypeInv, packetVars
<1>2. Evict \in Frame /\ FrameUsed(Evict)
  BY TypeFields, FramesBuilt DEF Evict, Timeout, FrameUsed, ThreadKind, OnceInv, TypeInv
<1>3. ToSet(stack') = {Evict} \cup ToSet(stack)
  BY <1>1, <1>2, Pushed DEF OnceInv, TypeInv, StackOK
<1>4. 1 \in Held
  BY <1>1, TypeFields, HeldFacts DEF Free, OnceInv, TypeInv
<1>5. \A e \in Device :
        cur'[e] = cur[e] \/ (stack[1].k = "putin" /\ e = stack[1].d /\ cur'[e] = 1)
  BY <1>1 DEF PutEvicts, Top, OnceInv, TypeInv, TypeOK
<1>6. stack[1].k = "putin" => stack[1].d \in use.devices
  BY <1>1 DEF OnceInv, FramesUsed, FrameUsed, ThreadKind
<1>7. OthersQuiet'
  BY <1>1, <1>5, <1>6 DEF OnceInv, OthersQuiet
<1> QED
  BY <1>1, <1>2, <1>3, <1>4, <1>5, <1>7, OnceMoved, HeldFacts

LEMMA TimeoutTellsOnce ==
  ASSUME OnceInv, UNCHANGED use, TypeInv', TimeoutTells
  PROVE  OnceInv'
<1>1. /\ stack # << >> /\ UNCHANGED <<mem, buffer, sd, state, cur, last, answers>>
  BY DEF TimeoutTells, Top, packetVars, deviceVars
<1> DEFINE s == stack[1].s
           r == Run(mem[s].proc, awaits[mem[s].proc], s, "timeout")
<1>2. /\ ToSet(stack') \subseteq {r, Timeout(s, TRUE)} \cup ToSet(Tail(stack))
      /\ ToSet(stack) = {stack[1]} \cup ToSet(Tail(stack))
  BY <1>1, TimeoutTellsStack, TopFrame DEF OnceInv, TypeInv
<1>3. FrameUsed(r) /\ FrameUsed(Timeout(s, TRUE))
  BY DEF Run, Timeout, FrameUsed, ThreadKind
<1> HIDE DEF r, s
<1>4. OthersQuiet'
  BY <1>1 DEF OnceInv, OthersQuiet
<1> QED
  BY <1>1, <1>2, <1>3, <1>4, OnceMoved, HeldFacts

LEMMA TimeoutRemovesOnce ==
  ASSUME OnceInv, UNCHANGED use, TypeInv', TimeoutRemoves
  PROVE  OnceInv'
<1>1. /\ stack # << >> /\ stack' = Tail(stack) /\ UNCHANGED <<mem, last, answers>>
  BY DEF TimeoutRemoves, Top, Return
<1>2. PICK s \in Slot : s = stack[1].s
  BY TimeoutTop DEF TimeoutRemoves, OnceInv
<1>3. /\ stack[1].told \/ mem[s].proc = NULL
      /\ sd' = Spilled(s) /\ buffer' = Without(s) /\ cur' = Unused(s) /\ state' = Closing(s)
  BY <1>2 DEF TimeoutRemoves
<1>4. ToSet(buffer') = Buffered \ {s}
  BY <1>3, WithoutList DEF OnceInv, TypeInv, TypeOK
<1>5. \A d \in Device : cur'[d] = IF cur[d] = s THEN NULL ELSE cur[d]
  BY <1>3 DEF Unused
<1>6. \A d \in Device : state[d] # "connected" => state'[d] = state[d]
  BY <1>3 DEF Closing
<1>7. sd' = NULL
  BY <1>3 DEF Spilled, OnceInv, Unspilled
<1>8. /\ Held' \subseteq Held /\ \A t \in Held : t # s => t \in Held'
  BY <1>1, <1>4 DEF Held, Buffered
<1>9. OthersQuiet'
  BY <1>1, <1>5, <1>6 DEF OnceInv, OthersQuiet
<1>10. \A f \in ToSet(stack') : f \in ToSet(stack)
  BY <1>1, TopFrame DEF OnceInv, TypeInv
<1>11. \A d \in Device : cur'[d] \in Held' \cup {NULL}
  BY <1>5, <1>8, HeldFacts
<1> QED
  BY <1>1, <1>7, <1>8, <1>9, <1>10, <1>11, OnceSame

LEMMA PutFillsOnce ==
  ASSUME OnceInv, UNCHANGED use, TypeInv', PutFills
  PROVE  OnceInv'
<1>1. /\ stack # << >> /\ stack[1] \in ToSet(stack) /\ stack[1].k = "put"
      /\ ToSet(stack') \subseteq ToSet(stack)
      /\ UNCHANGED <<sd, state, cur, last, place, answers>>
  BY PutFillsStack, TopFrame DEF OnceInv, TypeInv, PutFills, deviceVars
<1>2. PICK s \in Slot, id \in Nat :
        /\ s \in Free /\ NewId(id) /\ ToSet(buffer') = Buffered \cup {s}
        /\ mem'[s].proc = stack[1].proc /\ mem'[s].id = id /\ ~mem'[s].incoming
        /\ mem'[s].important = stack[1].important
        /\ \A t \in Slot \cup {SD} : t # s => mem'[t] = mem[t]
  BY PutFillsSlot DEF OnceInv
<1>3. OneDevice' /\ FramesUsed' /\ Slot' = Slot /\ OthersQuiet'
  BY <1>1, SameFrames DEF OnceInv, OneDevice, FramesUsed, FrameUsed, OthersQuiet
<1>4. stack[1].proc = NULL => ~stack[1].important
  BY <1>1 DEF OnceInv, FramesUsed, FrameUsed
<1>5. Unspilled'
  BY <1>1, <1>2, <1>3, <1>4 DEF OnceInv, Unspilled, Uncarded
<1>6. Held' = Held \cup {s}
  BY <1>1, <1>2, HeldFacts DEF Held, Buffered
<1>7. PointersHeld'
  BY <1>1, <1>3, <1>6 DEF OnceInv, PointersHeld
<1>8. /\ \A t \in Held : mem[t].id # id
      /\ \A d \in Device : id \notin answers[d]
  BY <1>2 DEF NewId, Remembered, Held
<1>9. \A t \in Requests' :
        \/ t = s
        \/ t \in Requests /\ t # s /\ t \in Held /\ mem'[t] = mem[t]
  BY <1>2, <1>6, HeldFacts DEF Requests
<1>10. OneEach'
  BY <1>2, <1>8, <1>9 DEF OnceInv, OneEach
<1>11. AskedSent'
  BY <1>1, <1>2, <1>8, <1>9 DEF OnceInv, AskedSent
<1> QED
  BY <1>3, <1>5, <1>7, <1>10, <1>11 DEF OnceInv

LEMMA PutInFillsOnce ==
  ASSUME OnceInv, UNCHANGED use, TypeInv', PutInFills
  PROVE  OnceInv'
<1>1. /\ stack # << >> /\ stack[1] \in ToSet(stack) /\ stack[1].k = "putin"
      /\ stack[1].d \in Device
      /\ ToSet(stack') = {IF stack[1].ignored THEN Ignored(stack[1].d) ELSE Send(stack[1].d)}
      /\ UNCHANGED <<sd, state, last, place, answers>>
  BY PutInFillsData, TopFrame DEF OnceInv, TypeInv, PutInFills
<1>2. PICK s \in Slot :
        /\ s \in Free /\ ToSet(buffer') = Buffered \cup {s}
        /\ mem' = [mem EXCEPT ![s] = [proc |-> NULL, id |-> stack[1].id, dest |-> stack[1].d,
                        send |-> FALSE, incoming |-> TRUE, important |-> mem[s].important]]
        /\ cur' = [cur EXCEPT ![stack[1].d] = s]
  BY PutInFillsData DEF OnceInv
<1>3. /\ mem'[s].incoming /\ \A t \in Slot : t # s => mem'[t] = mem[t]
      /\ \A d \in Device : cur'[d] = IF d = stack[1].d THEN s ELSE cur[d]
  BY <1>2 DEF OnceInv, TypeInv, TypeOK
<1>4. stack[1].d \in use.devices
  BY <1>1 DEF OnceInv, FramesUsed, FrameUsed, ThreadKind
<1>5. OneDevice' /\ FramesUsed' /\ Slot' = Slot /\ OthersQuiet'
  BY <1>1, <1>3, <1>4, SameFrames DEF OnceInv, OneDevice, FramesUsed, FrameUsed, OthersQuiet,
     Ignored, Send, ThreadKind
<1>6. Unspilled'
  BY <1>1, <1>3, <1>5 DEF OnceInv, Unspilled, Uncarded
<1>7. Held' = Held \cup {s}
  BY <1>1, <1>2, HeldFacts DEF Held, Buffered
<1>8. PointersHeld'
  BY <1>3, <1>5, <1>7 DEF OnceInv, PointersHeld
<1>9. \A t \in Requests' : t \in Requests /\ mem'[t] = mem[t]
  BY <1>3, <1>7, HeldFacts DEF Requests
<1>10. OneEach' /\ AskedSent'
  BY <1>1, <1>9 DEF OnceInv, OneEach, AskedSent
<1> QED
  BY <1>5, <1>6, <1>8, <1>10 DEF OnceInv

\* A protothread runs on its own, over the one device that is in use.
LEMMA ThreadUsed ==
  ASSUME OnceInv, stack # << >>, stack[1].k \in ThreadKind
  PROVE  /\ stack[1].d \in Device /\ stack[1].d \in use.devices
         /\ place[stack[1].d] = "wait" /\ ToSet(stack) = {stack[1]} /\ Tail(stack) = << >>
         /\ \A e \in Device : e # stack[1].d => cur[e] = NULL /\ last[e] = NULL /\ answers[e] = {}
<1>1. /\ stack[1].d \in Device /\ place[stack[1].d] = "wait" /\ stack[1] \in ToSet(stack)
      /\ ToSet(stack) = {stack[1]} /\ Tail(stack) = << >>
  BY ThreadTop DEF OnceInv
<1>2. stack[1].d \in use.devices
  BY <1>1 DEF OnceInv, FramesUsed, FrameUsed
<1> QED
  BY <1>1, <1>2 DEF OnceInv, OneDevice, OthersQuiet

LEMMA ThreadPassesOnce ==
  ASSUME OnceInv, UNCHANGED use, TypeInv', ThreadWaits \/ ThreadParseError \/ ThreadRequest
  PROVE  OnceInv'
<1>1. /\ stack # << >> /\ stack[1].k = "thread" /\ stack[1].k \in ThreadKind
      /\ UNCHANGED <<mem, buffer, sd, state, last, answers>>
  BY DEF ThreadWaits, ThreadParseError, ThreadRequest, Top, ThreadKind, packetVars, deviceVars
<1>2. /\ stack[1].d \in Device /\ stack[1].d \in use.devices
      /\ ToSet(stack) = {stack[1]} /\ Tail(stack) = << >>
  BY <1>1, ThreadUsed
<1>3. \A d \in Device : cur'[d] \in {cur[d], NULL}
  BY <1>1 DEF ThreadWaits, ThreadParseError, ThreadRequest, deviceVars, OnceInv, TypeInv, TypeOK
<1>4. \A f \in ToSet(stack') : FrameUsed(f)
  <2>1. CASE stack' = << >>
    BY <2>1 DEF ToSet
  <2>2. CASE ThreadWaits /\ Become(Send(stack[1].d))
    <3>1. ToSet(stack') = {Send(stack[1].d)}
      BY <1>1, <2>2, ToSendStack DEF OnceInv
    <3> QED
      BY <1>2, <3>1 DEF FrameUsed, Send
  <2>3. CASE ThreadRequest
    <3>1. ToSet(stack') = {PutIn(stack[1].d, stack[1].data.id, stack[1].data.k = "ignored")}
      BY <2>3, ThreadRequestStack DEF OnceInv
    <3> QED
      BY <1>2, <3>1 DEF FrameUsed, PutIn
  <2> QED
    BY <1>2, <2>1, <2>2, <2>3 DEF ThreadWaits, ThreadParseError, Return
<1>5. OthersQuiet'
  BY <1>1, <1>3 DEF OnceInv, OthersQuiet
<1> QED
  BY <1>1, <1>3, <1>4, <1>5, OnceMoved, HeldFacts

LEMMA ThreadReplyOnce ==
  ASSUME OnceInv, UNCHANGED use, TypeInv', ThreadReply
  PROVE  OnceInv'
<1>1. /\ stack # << >> /\ stack[1].k = "thread" /\ stack[1].k \in ThreadKind
      /\ UNCHANGED <<mem, buffer, sd, state, last, answers>>
  BY DEF ThreadReply, Top, ThreadKind, packetVars, deviceVars
<1>2. /\ stack[1].d \in Device /\ stack[1].d \in use.devices
  BY <1>1, ThreadUsed
<1> DEFINE d == stack[1].d
           s == last[d]
           p == mem[s].proc
           r == Run(p, awaits[p], s, stack[1].data.k)
<1>3. cur' = [cur EXCEPT ![d] = s] /\ ToSet(stack') \subseteq {r, Answered(d), Send(d)}
  BY ThreadReplyStack DEF OnceInv
<1>4. FrameUsed(r) /\ FrameUsed(Answered(d)) /\ FrameUsed(Send(d))
  BY <1>2 DEF Run, Answered, Send, FrameUsed, ThreadKind
<1>5. \A e \in Device : cur'[e] = IF e = d THEN last[d] ELSE cur[e]
  BY <1>3 DEF OnceInv, TypeInv, TypeOK
<1> HIDE DEF r
<1>6. OthersQuiet'
  BY <1>1, <1>2, <1>5 DEF OnceInv, OthersQuiet
<1>7. \A e \in Device : cur'[e] \in Held \cup {NULL}
  BY <1>2, <1>5, HeldFacts
<1> QED
  BY <1>1, <1>3, <1>4, <1>6, <1>7, OnceMoved

\* What is removed is the packet of the device.
LEMMA ThreadEndsOnce ==
  ASSUME OnceInv, UNCHANGED use, TypeInv', ThreadAnswered \/ ThreadIgnores
  PROVE  OnceInv'
<1>1. /\ stack # << >> /\ stack[1].k \in ThreadKind
      /\ Become(Send(stack[1].d)) /\ UNCHANGED <<mem, state, answers>>
  BY DEF ThreadAnswered, ThreadIgnores, Top, ThreadKind
<1>2. PICK d \in Device : d = stack[1].d
  BY <1>1, ThreadUsed
<1>3. d \in use.devices /\ \A e \in Device : e # d => cur[e] = NULL /\ last[e] = NULL
  BY <1>1, <1>2, ThreadUsed
<1>4. ToSet(stack') = {Send(d)}
  BY <1>1, <1>2, ToSendStack DEF OnceInv
<1>5. RemovePacket(cur[d])
  BY <1>2 DEF ThreadAnswered, ThreadIgnores, IgnoredPacket
<1>6. ToSet(buffer') = Buffered \ {cur[d]}
  BY <1>5, RemovePacketTyped DEF OnceInv, TypeInv
<1>7. sd' = NULL
  BY <1>5 DEF RemovePacket, OnceInv, Unspilled
<1>8. /\ \A e \in Device : e # d => cur'[e] = NULL /\ last'[e] = NULL
      /\ cur'[d] \in {NULL, last'[d]} /\ last'[d] \in {NULL, last[d]}
  BY <1>2, <1>3 DEF ThreadAnswered, ThreadIgnores, Forget, OnceInv, TypeInv, TypeOK
<1>9. OthersQuiet'
  BY <1>1, <1>3, <1>8 DEF OnceInv, OthersQuiet
<1>10. Held' \subseteq Held
  BY <1>6, <1>8, HeldFacts DEF Held, Buffered
<1>11. \A e \in Device : cur'[e] \in Held' \cup {NULL}
  BY <1>8 DEF Held
<1>12. FrameUsed(Send(d))
  BY <1>3 DEF Send, FrameUsed
<1> QED
  BY <1>1, <1>4, <1>7, <1>9, <1>10, <1>11, <1>12, OnceSame

\* A packet is sent: no other request has its id.
LEMMA ThreadSendsOnce ==
  ASSUME OnceInv, UNCHANGED use, TypeInv', ThreadSends
  PROVE  /\ OnceInv'
         /\ place'[stack[1].d] = "send" /\ cur'[stack[1].d] # NULL
              /\ ~mem'[cur'[stack[1].d]].incoming
            => mem'[cur'[stack[1].d]].id \notin answers[stack[1].d]
<1>1. PICK d \in Device, c \in Slot \cup {SD, NULL}, m \in [Slot \cup {SD} -> Packet] :
        /\ d = stack[1].d /\ c = Chosen(d) /\ m = MemSeen(d)
        /\ stack # << >> /\ stack[1].k = "send" /\ place[d] = "wait" /\ ToSet(stack') = {}
        /\ cur' = [cur EXCEPT ![d] = c]
        /\ c # NULL /\ ~m[c].send =>
             /\ mem' = [m EXCEPT ![c].send = TRUE]
             /\ place' = [place EXCEPT ![d] = "send"]
             /\ answers' = [answers EXCEPT ![d] = IF m[c].incoming THEN @ ELSE @ \cup {m[c].id}]
        /\ ~(c # NULL /\ ~m[c].send) => mem' = m /\ place' = place /\ answers' = answers
  BY ThreadSendsData DEF OnceInv
<1>2. d \in use.devices /\ \A e \in Device : e # d => cur[e] = NULL /\ answers[e] = {}
  BY <1>1, ThreadUsed DEF ThreadKind
<1>3. sd = NULL /\ UNCHANGED <<buffer, sd, state, last>>
  BY DEF ThreadSends, OnceInv, Unspilled
<1>4. m = mem
  BY <1>1, <1>3 DEF MemSeen, MemAfterGet
<1>5. c \in Held \cup {NULL}
  <2>1. Get(d) \in Buffered \cup {SD, NULL} /\ Get(d) # SD
    BY <1>3, GetTyped DEF OnceInv, TypeInv
  <2> QED
    BY <1>1, <2>1, HeldFacts DEF Chosen
<1>6. Held' = Held
  BY <1>3 DEF Held, Buffered
<1>7. \A e \in Device : cur'[e] = IF e = d THEN c ELSE cur[e]
  BY <1>1 DEF OnceInv, TypeInv, TypeOK
<1>8. \A e \in Device : cur'[e] \in Held' \cup {NULL}
  BY <1>5, <1>6, <1>7, HeldFacts
<1>9. \A e \in Device : e # d => answers'[e] = answers[e]
  BY <1>1 DEF OnceInv, TypeInv, TypeOK
<1>10. OthersQuiet'
  BY <1>2, <1>3, <1>7, <1>9 DEF OnceInv, OthersQuiet
<1>11. SamePackets
  BY SendsSamePackets DEF OnceInv
<1>12. sd' = NULL
  BY <1>3
<1>13. CASE c # NULL /\ ~mem[c].send
  <2>1. /\ c \in Held /\ c \in Slot /\ mem' = [mem EXCEPT ![c].send = TRUE]
        /\ answers' = [answers EXCEPT ![d] = IF mem[c].incoming THEN @ ELSE @ \cup {mem[c].id}]
    BY <1>1, <1>4, <1>5, <1>13, HeldFacts
  <2>2. /\ mem'[c].send /\ mem'[c].id = mem[c].id /\ mem'[c].incoming = mem[c].incoming
        /\ \A t \in Slot : t # c => mem'[t] = mem[t]
    BY <2>1 DEF OnceInv, TypeInv, TypeOK, Packet
  <2>3. answers'[d] = IF mem[c].incoming THEN answers[d] ELSE answers[d] \cup {mem[c].id}
    BY <2>1 DEF OnceInv, TypeInv, TypeOK
  <2>4. ASSUME NEW s \in Requests, NEW e \in Device, mem[s].id \in answers'[e] PROVE mem'[s].send
    <3>1. s \in Slot
      BY HeldFacts DEF Requests
    <3>2. CASE s = c
      BY <2>2, <3>2
    <3>3. CASE s # c
      <4>1. mem[s].id \in answers[e]
        <5>1. CASE e # d
          BY <1>9, <2>4, <5>1
        <5>2. CASE e = d /\ mem[c].incoming
          BY <2>3, <2>4, <5>2
        <5>3. CASE e = d /\ ~mem[c].incoming
          <6>1. c \in Requests
            BY <2>1, <5>3 DEF Requests
          <6>2. mem[s].id # mem[c].id
            BY <3>3, <6>1 DEF OnceInv, OneEach
          <6> QED
            BY <2>3, <2>4, <5>3, <6>2
        <5> QED
          BY <5>1, <5>2, <5>3
      <4> QED
        BY <2>2, <3>1, <3>3, <4>1 DEF OnceInv, AskedSent
    <3> QED
      BY <3>2, <3>3
  <2>5. OnceInv'
    BY <1>1, <1>6, <1>8, <1>10, <1>11, <1>12, <2>4, OnceKept
  <2>6. ~mem[c].incoming => mem[c].id \notin answers[d]
    BY <1>13, <2>1 DEF OnceInv, AskedSent, Requests
  <2>7. cur'[d] = c
    BY <1>7
  <2> QED
    BY <1>1, <2>2, <2>5, <2>6, <2>7
<1>14. CASE ~(c # NULL /\ ~mem[c].send)
  <2>1. mem' = mem /\ place' = place /\ answers' = answers
    BY <1>1, <1>4, <1>14
  <2>2. OnceInv'
    BY <1>1, <1>6, <1>8, <1>10, <1>12, <2>1, OnceSame
  <2> QED
    BY <1>1, <2>1, <2>2
<1> QED
  BY <1>13, <1>14

LEMMA ReceivedOnce ==
  ASSUME OnceInv, UNCHANGED use, TypeInv', NEW d \in Device, NEW data \in Incoming(d),
         Receive(d, data) \/ Acked(d, data)
  PROVE  OnceInv'
<1>1. /\ Idle /\ state[d] = "connected" /\ Call(Thread(d, data))
      /\ answers' = [answers EXCEPT ![d] = @ \ {data.id}]
      /\ UNCHANGED <<mem, sd, state>>
  BY DEF Receive, Acked, packetVars
<1>2. ToSet(stack') = {Thread(d, data)}
  BY <1>1, ReceivedStack DEF OnceInv
<1>3. d \in use.devices /\ \A e \in Device : e # d => cur[e] = NULL /\ last[e] = NULL
  BY <1>1, UsedDevice DEF OnceInv, OthersQuiet
<1>4. FrameUsed(Thread(d, data))
  BY <1>3 DEF Thread, FrameUsed
<1>5. \A e \in Device : answers'[e] \subseteq answers[e]
  BY <1>1 DEF OnceInv, TypeInv, TypeOK
<1>6. sd' = NULL
  BY <1>1 DEF OnceInv, Unspilled
<1>7. /\ \A e \in Device : e # d => cur'[e] = NULL /\ last'[e] = NULL
      /\ \/ UNCHANGED <<buffer, cur, last>>
         \/ buffer' = Without(cur[d]) /\ cur'[d] = last[d] /\ last'[d] = last[d]
         \/ buffer' = buffer /\ cur'[d] = cur[d] /\ last'[d] = cur[d]
  BY <1>3 DEF Receive, Acked, packetVars, OnceInv, TypeInv, TypeOK
<1>8. ToSet(buffer') \subseteq Buffered
  BY <1>7, WithoutList DEF OnceInv, TypeInv, TypeOK, Buffered
<1>9. OthersQuiet'
  BY <1>1, <1>3, <1>5, <1>7 DEF OnceInv, OthersQuiet
<1>10. Held' \subseteq Held
  BY <1>7, <1>8, HeldFacts DEF Held, Buffered
<1>11. \A e \in Device : cur'[e] \in Held' \cup {NULL}
  <2>1. CASE UNCHANGED <<buffer, cur, last>>
    BY <2>1, HeldFacts DEF Held, Buffered
  <2>2. CASE cur'[d] = last'[d]
    BY <1>7, <2>2 DEF Held
  <2> QED
    BY <1>7, <2>1, <2>2
<1> QED
  BY <1>1, <1>2, <1>4, <1>5, <1>6, <1>9, <1>10, <1>11, OnceSame

\* A connection that ends takes its answers with it.
LEMMA ConnectionEndsOnce ==
  ASSUME OnceInv, UNCHANGED use, TypeInv', NEW d \in Device,
         Connected(d) \/ Closed(d) \/ Aborted(d) \/ CloseTimedOut(d)
  PROVE  OnceInv'
<1>1. /\ Idle /\ state[d] # "disconnected" /\ UNCHANGED <<buffer, sd, last, stack>>
  BY DEF Connected, Closed, Aborted, CloseTimedOut, packetVars
<1>2. d \in use.devices
  BY <1>1, UsedDevice
<1>3. \A e \in Device : e # d => answers[e] = {}
  BY <1>1, UsedDevice DEF OnceInv, OthersQuiet
<1>4. \A e \in Device : e # d => state'[e] = state[e] /\ cur'[e] = cur[e] /\ answers'[e] = answers[e]
  BY DEF Connected, Closed, Aborted, CloseTimedOut, NoAnswers, SockEnd, packetVars, OnceInv,
     TypeInv, TypeOK
<1>5. cur'[d] \in {cur[d], NULL}
  BY DEF Connected, Closed, Aborted, CloseTimedOut, SockEnd, packetVars, OnceInv, TypeInv, TypeOK
<1>6. answers'[d] = {} \/ (Connected(d) /\ answers'[d] = answers[d])
  BY DEF Connected, Closed, Aborted, CloseTimedOut, NoAnswers, OnceInv, TypeInv, TypeOK
<1>7. OthersQuiet'
  BY <1>1, <1>2, <1>4 DEF OnceInv, OthersQuiet
<1>8. Held' = Held /\ sd' = NULL
  BY <1>1 DEF Held, Buffered, OnceInv, Unspilled
<1>9. \A e \in Device : cur'[e] \in Held' \cup {NULL}
  BY <1>4, <1>5, <1>8, HeldFacts
<1>10. SamePackets
  <2>1. mem' = mem \/ SockEnd(d)
    BY DEF Connected, Closed, Aborted, CloseTimedOut, packetVars
  <2> QED
    BY <2>1, SockEndSamePackets DEF SamePackets, OnceInv, TypeInv
<1>11. \A s \in Requests : \A e \in Device : mem[s].id \in answers'[e] => mem'[s].send
  <2>1. CASE answers'[d] = {}
    BY <1>3, <1>4, <2>1
  <2>2. CASE Connected(d) /\ answers'[d] = answers[d]
    BY <1>3, <1>4, <2>2 DEF Connected, packetVars, OnceInv, AskedSent
  <2> QED
    BY <1>6, <2>1, <2>2
<1> QED
  BY <1>1, <1>7, <1>8, <1>9, <1>10, <1>11, OnceKept

LEMMA TimersOnce ==
  ASSUME OnceInv, UNCHANGED use, TypeInv', Timers
  PROVE  OnceInv'
<1>1. ASSUME NEW s \in Slot \cup {SD}, TimerExpires(s) PROVE OnceInv'
  <2>1. UNCHANGED <<mem, buffer, sd, deviceVars, stack>>
    BY <1>1 DEF TimerExpires
  <2>2. OthersQuiet'
    BY <2>1 DEF OnceInv, OthersQuiet, deviceVars
  <2> QED
    BY <2>1, <2>2, OnceMoved, HeldFacts DEF deviceVars
<1>2. ASSUME NEW d \in Device, Tick(d) PROVE OnceInv'
  <2>1. stack' = << >> \/ \E s \in Buffered : stack' = <<Timeout(s, FALSE)>>
    BY <1>2, TickStack DEF OnceInv
  <2>2. /\ UNCHANGED <<buffer, sd, cur, last, answers>> /\ d \in use.devices
        /\ \A e \in Device : e # d => state'[e] = state[e]
        /\ \A s \in Slot : mem'[s] = mem[s]
    BY <1>2, TypeFields DEF Tick, OnceInv, TypeInv, TypeOK
  <2>3. \A f \in ToSet(stack') : FrameUsed(f)
    <3>1. CASE stack' = << >>
      BY <3>1 DEF ToSet
    <3>2. CASE \E s \in Buffered : stack' = <<Timeout(s, FALSE)>>
      <4>1. PICK s \in Buffered : stack' = <<Timeout(s, FALSE)>>
        BY <3>2
      <4> DEFINE f == Timeout(s, FALSE)
      <4>2. FrameUsed(f)
        BY DEF Timeout, FrameUsed, ThreadKind
      <4> HIDE DEF f
      <4>3. stack' = <<f>>
        BY <4>1 DEF f
      <4> QED
        BY <4>2, <4>3 DEF ToSet
    <3> QED
      BY <2>1, <3>1, <3>2
  <2>4. OthersQuiet'
    BY <2>2 DEF OnceInv, OthersQuiet
  <2>5. Held' = Held /\ sd' = NULL
    BY <2>2 DEF Held, Buffered, OnceInv, Unspilled
  <2> QED
    BY <2>2, <2>3, <2>4, <2>5, OnceSame, HeldFacts
<1> QED
  BY <1>1, <1>2 DEF Timers

LEMMA InitOnce == Init /\ Uncarded /\ OneDevice => OnceInv
<1> SUFFICES ASSUME Init, Uncarded, OneDevice PROVE OnceInv
  OBVIOUS
<1>1. TypeInv
  BY InitTyped
<1>2. ToSet(stack) = {} /\ Held = {}
  BY DEF Init, ToSet, Held, Buffered
<1>3. \A s \in Slot : ~mem[s].important
  BY DEF Init
<1> QED
  BY <1>1, <1>2, <1>3 DEF Init, OnceInv, OthersQuiet, Unspilled, FramesUsed, PointersHeld,
     OneEach, AskedSent, Requests

LEMMA OnceNext == OnceInv /\ [Next]_<<use, vars>> => OnceInv'
<1> SUFFICES ASSUME OnceInv, [Next]_<<use, vars>> PROVE OnceInv'
  OBVIOUS
<1>1. TypeInv'
  BY NextTyped DEF OnceInv
<1>2. CASE UNCHANGED <<use, vars>>
  <2>1. OthersQuiet'
    BY <1>2 DEF vars, deviceVars, OnceInv, OthersQuiet
  <2> QED
    BY <1>1, <1>2, <2>1, OnceMoved, HeldFacts DEF vars, packetVars, deviceVars
<1>3. CASE Clients /\ UNCHANGED use
  BY <1>1, <1>3, ClientsOnce
<1>4. CASE Library /\ UNCHANGED use
  BY <1>1, <1>4, ClientsOnce, PutEvictsOnce, PutFillsOnce, PutInFillsOnce, TimeoutTellsOnce,
     TimeoutRemovesOnce, ThreadPassesOnce, ThreadReplyOnce, ThreadEndsOnce, ThreadSendsOnce
     DEF Library
<1>5. CASE Network /\ UNCHANGED use
  BY <1>1, <1>5, ReceivedOnce, ConnectionEndsOnce DEF Network
<1>6. CASE Timers /\ UNCHANGED use
  BY <1>1, <1>6, TimersOnce
<1> QED
  BY <1>2, <1>3, <1>4, <1>5, <1>6 DEF Next

(***************************************************************************)
(* With one device, whatever it sends, and nothing for the SD card, a      *)
(* request is not sent twice over one connection while its reply may still *)
(* come: not by the resends, time-outs and requests of the device, behind  *)
(* which Cur_Packet is set to a packet that is gone (SCP_Comm.c lines 332, *)
(* 355-371).  With two devices the packet may be the other's.              *)
(***************************************************************************)
THEOREM SentOnceWithRequests == Spec /\ Uncarded /\ OneDevice => NotSentTwice
<1>1. OnceInv /\ [Next]_<<use, vars>> =>
        [\A d \in Device :
           /\ ThreadSends /\ stack[1].d = d /\ place'[d] = "send"
           /\ cur'[d] # NULL /\ ~mem'[cur'[d]].incoming
           => mem'[cur'[d]].id \notin answers[d]]_vars
  <2> SUFFICES ASSUME OnceInv, [Next]_<<use, vars>>, ~UNCHANGED vars, ThreadSends,
                      NEW d \in Device, stack[1].d = d, place'[d] = "send",
                      cur'[d] # NULL, ~mem'[cur'[d]].incoming
               PROVE  mem'[cur'[d]].id \notin answers[d]
    OBVIOUS
  <2>1. UNCHANGED use /\ TypeInv'
    BY NextTyped DEF OnceInv, Next
  <2> QED
    BY <2>1, ThreadSendsOnce
<1> QED
  BY <1>1, InitOnce, OnceNext, PTL DEF Spec, NotSentTwice
=============================================================================
