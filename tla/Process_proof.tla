--------------------------- MODULE Process_proof ---------------------------
(***************************************************************************)
(* Proofs about the kernel, for every set of processes, every size of the  *)
(* event ring and every behaviour of the protothreads:                     *)
(*   TypeCorrect     the state stays well typed                            *)
(*   CurrentCorrect  a running protothread is PROCESS_CURRENT()            *)
(*   NestingCorrect  a frame on the stack remembers the caller below it    *)
(*   FifoRefinement  the event ring implements a bounded queue             *)
(* and, for any nesting of starts, exits and calls: the list of processes  *)
(* stays a list, no process on it is silenced, no poll request is lost,    *)
(* and a broadcast reaches everybody once.                                 *)
(***************************************************************************)
EXTENDS Process, DataInduction, SequenceTheorems, FiniteSetTheorems, TLAPS

-----------------------------------------------------------------------------
(* The four ways a step changes the stack. *)

\* A new frame may be pushed if it remembers the protothread it lies on.
LEMMA PushOK ==
  ASSUME NEW S \in Seq(FrameType), WellNested(S),
         NEW f \in FrameType, FrameOK(f),
         S # << >> => CallerSaved(S[Len(S)], f)
  PROVE  /\ Append(S, f) \in Seq(FrameType)
         /\ WellNested(Append(S, f))
         /\ Append(S, f) # << >>
         /\ Len(Append(S, f)) = Len(S) + 1
         /\ Append(S, f)[Len(S) + 1] = f
<1> DEFINE T == Append(S, f)
<1>1. /\ T \in Seq(FrameType)
      /\ T # << >>
      /\ Len(T) = Len(S) + 1
      /\ \A i \in 1..Len(S) : T[i] = S[i]
      /\ T[Len(S) + 1] = f
  BY AppendProperties
<1>2. Len(S) \in Nat /\ (S = << >> <=> Len(S) = 0)
  BY LenProperties, EmptySeq
<1>3. ASSUME NEW i \in 1..Len(T) PROVE FrameOK(T[i])
  BY <1>1, <1>2, <1>3 DEF WellNested
<1>4. ASSUME NEW i \in 1..(Len(T) - 1) PROVE CallerSaved(T[i], T[i + 1])
  <2>1. CASE i = Len(S)
    BY <1>1, <1>2, <2>1
  <2>2. CASE i < Len(S)
    <3>1. i \in 1..(Len(S) - 1) /\ i + 1 \in 1..Len(S)
      BY <1>1, <1>2, <2>2
    <3>2. QED
      BY <1>1, <3>1 DEF WellNested
  <2>3. QED
    BY <1>1, <1>2, <2>1, <2>2
<1>5. QED
  BY <1>1, <1>3, <1>4 DEF WellNested

\* A first frame.
LEMMA SingleOK ==
  ASSUME NEW f \in FrameType, FrameOK(f)
  PROVE  /\ <<f>> \in Seq(FrameType)
         /\ WellNested(<<f>>)
         /\ <<f>> # << >>
         /\ Len(<<f>>) = 1
         /\ <<f>>[1] = f
BY DEF WellNested

\* Returning: the frames below stay as they were.
LEMMA PopOK ==
  ASSUME NEW S \in Seq(FrameType), WellNested(S), S # << >>
  PROVE  LET T == SubSeq(S, 1, Len(S) - 1)
         IN  /\ T \in Seq(FrameType)
             /\ WellNested(T)
             /\ Len(T) = Len(S) - 1
             /\ T # << >> => CallerSaved(T[Len(T)], S[Len(S)])
<1> DEFINE T == SubSeq(S, 1, Len(S) - 1)
<1>1. Len(S) \in Nat \ {0} /\ S \in [1..Len(S) -> FrameType]
  BY LenProperties, EmptySeq
<1>2. /\ T \in Seq(FrameType)
      /\ Len(T) = Len(S) - 1
      /\ \A i \in 1..(Len(S) - 1) : T[i] = S[i]
  <2>1. \A i \in 1..(Len(S) - 1) : S[i] \in FrameType
    BY <1>1
  <2>2. /\ T \in Seq(FrameType)
        /\ Len(T) = IF 1 <= Len(S) - 1 THEN (Len(S) - 1) - 1 + 1 ELSE 0
        /\ \A i \in 1..((Len(S) - 1) - 1 + 1) : T[i] = S[1 + i - 1]
    BY <1>1, <2>1, SubSeqProperties
  <2>3. QED
    BY <1>1, <2>2
<1>3. WellNested(T)
  BY <1>1, <1>2 DEF WellNested
<1>4. T # << >> => CallerSaved(T[Len(T)], S[Len(S)])
  <2> SUFFICES ASSUME T # << >> PROVE CallerSaved(T[Len(T)], S[Len(S)])
    OBVIOUS
  <2>1. Len(T) \in Nat \ {0}
    BY <1>2, EmptySeq
  <2>2. Len(S) - 1 \in 1..(Len(S) - 1) /\ (Len(S) - 1) + 1 = Len(S)
    BY <1>1, <1>2, <2>1
  <2>3. CallerSaved(S[Len(S) - 1], S[Len(S)])
    BY <2>2 DEF WellNested
  <2>4. QED
    BY <1>2, <2>2, <2>3
<1>5. QED
  BY <1>2, <1>3, <1>4

\* Moving on within a frame: what its neighbours look at stays the same.
LEMMA ReplaceOK ==
  ASSUME NEW S \in Seq(FrameType), WellNested(S), S # << >>,
         NEW f \in FrameType, FrameOK(f),
         f.k = S[Len(S)].k, f.saved = S[Len(S)].saved
  PROVE  LET T == [S EXCEPT ![Len(S)] = f]
         IN  /\ T \in Seq(FrameType)
             /\ WellNested(T)
             /\ T # << >>
             /\ Len(T) = Len(S)
             /\ T[Len(T)] = f
<1> DEFINE T == [S EXCEPT ![Len(S)] = f]
<1>1. Len(S) \in Nat \ {0}
  BY EmptySeq
<1>2. /\ T \in Seq(FrameType)
      /\ Len(T) = Len(S)
      /\ \A j \in 1..Len(S) : T[j] = IF j = Len(S) THEN f ELSE S[j]
  BY <1>1, ExceptSeq
<1> HIDE DEF T
<1>3. T # << >>
  BY <1>1, <1>2, EmptySeq
<1>4. \A i \in 1..Len(T) : FrameOK(T[i])
  BY <1>1, <1>2 DEF WellNested
<1>5. ASSUME NEW i \in 1..(Len(T) - 1) PROVE CallerSaved(T[i], T[i + 1])
  <2>0. i \in 1..(Len(S) - 1) /\ i \in 1..Len(S) /\ i # Len(S)
        /\ i + 1 \in 1..Len(S)
    BY <1>1, <1>2
  <2>1. CallerSaved(S[i], S[i + 1]) /\ T[i] = S[i]
    BY <1>2, <2>0 DEF WellNested
  <2>2. T[i + 1].k = S[i + 1].k /\ T[i + 1].saved = S[i + 1].saved
    BY <1>2, <2>0
  <2>3. QED
    BY <2>1, <2>2 DEF CallerSaved
<1>6. T[Len(T)] = f
  BY <1>1, <1>2
<1>7. WellNested(T)
  BY <1>4, <1>5 DEF WellNested
<1>8. QED
  BY <1>2, <1>3, <1>6, <1>7 DEF T

-----------------------------------------------------------------------------
(***************************************************************************)
(* The inductive invariant.  CurrentIsRunner is not inductive by itself: a *)
(* return restores process_current from the frame that is popped, so the   *)
(* frames must be known to hold the right process, which WellNested says.  *)
(***************************************************************************)
IInv == TypeOK /\ StackWellNested /\ CurrentIsRunner

StateType == [Proc -> {"NONE", "RUNNING", "CALLED"}]

\* What call_process and its kin change.
ControlOK ==
  /\ state \in StateType
  /\ process_current \in Pointer
  /\ stack \in Seq(FrameType)
  /\ WellNested(stack)
  /\ CurrentIsRunner

\* Every constructor of frames yields frames.
LEMMA FrameTyped ==
  ASSUME NEW k \in Kind, NEW at \in Place, NEW p \in Pointer
  PROVE  /\ Frame(k, at, p) \in FrameType
         /\ Frame(k, at, p).k = k
         /\ Frame(k, at, p).at = at
         /\ Frame(k, at, p).p = p
BY BoundAssumption DEF Frame, FrameType, Pointer

\* call_process leaves the stack well nested and the callee current.
LEMMA CallOK ==
  ASSUME process_current \in Pointer,
         NEW st \in StateType,
         NEW S \in Seq(FrameType), WellNested(S),
         S # << >> => ~IsThread(S[Len(S)]),
         NEW p \in Proc, NEW ev \in Ev \cup {"NONE"},
         Call(st, S, p, ev)
  PROVE  ControlOK'
<1>1. CASE Callable(st, p)
  <2> DEFINE f == [Frame("thread", "run", p) EXCEPT !.ev = ev]
  <2>1. /\ process_current' = p
        /\ state' = [st EXCEPT ![p] = "CALLED"]
        /\ stack' = Append(S, f)
    BY <1>1 DEF Call
  <2>2. f \in FrameType /\ f.p = p
    BY BoundAssumption DEF Frame, FrameType, Pointer, Kind, Place
  <2>3. FrameOK(f)
    BY <2>2, NullAssumption DEF FrameOK, Frame
  <2>4. S # << >> => CallerSaved(S[Len(S)], f)
    BY DEF CallerSaved
  <2> HIDE DEF f
  <2>5. /\ stack' \in Seq(FrameType)
        /\ WellNested(stack')
        /\ stack'[Len(stack')] = f
    BY <2>1, <2>2, <2>3, <2>4, PushOK
  <2>6. CurrentIsRunner'
    BY <2>1, <2>2, <2>5 DEF CurrentIsRunner, Top
  <2>7. state' \in StateType /\ process_current' \in Pointer
    BY <2>1 DEF StateType, Pointer
  <2>8. QED
    BY <2>5, <2>6, <2>7 DEF ControlOK
<1>2. CASE ~Callable(st, p)
  <2>1. state' = st /\ stack' = S /\ process_current' = process_current
    BY <1>2 DEF Call
  <2>2. CurrentIsRunner'
    BY <2>1 DEF CurrentIsRunner, InThread, Top
  <2>3. QED
    BY <2>1, <2>2 DEF ControlOK
<1>3. QED
  BY <1>1, <1>2

\* The stack a step returns to when it pops a frame that is not directly on
\* a protothread.
LEMMA TopTyped ==
  ASSUME IInv, stack # << >>
  PROVE  /\ Len(stack) \in Nat \ {0}
         /\ Top \in FrameType
         /\ FrameOK(Top)
<1>1. Len(stack) \in Nat \ {0} /\ stack \in [1..Len(stack) -> FrameType]
  BY LenProperties, EmptySeq DEF IInv, TypeOK
<1>2. QED
  BY <1>1 DEF IInv, StackWellNested, WellNested, Top

-----------------------------------------------------------------------------
(* The steps that only move within the running frame, or return from it. *)

\* A frame that moves on (its cursor, its place, its count of calls).
LEMMA MoveOK ==
  ASSUME IInv, stack # << >>,
         NEW f \in FrameType, FrameOK(f),
         f.k = Top.k, f.saved = Top.saved
  PROVE  LET T == Replace(f)
         IN  /\ T \in Seq(FrameType)
             /\ WellNested(T)
             /\ T # << >>
             /\ Len(T) = Len(stack)
             /\ T[Len(T)] = f
BY ReplaceOK DEF IInv, TypeOK, StackWellNested, Replace, Top

\* A loop or exit frame that moves on, nobody being called.
LEMMA StayOK ==
  ASSUME IInv, stack # << >>,
         NEW f \in FrameType, FrameOK(f),
         f.k = Top.k, f.saved = Top.saved, ~IsThread(f),
         stack' = Replace(f),
         UNCHANGED <<state, process_current>>
  PROVE  ControlOK'
<1>1. /\ stack' \in Seq(FrameType)
      /\ WellNested(stack')
      /\ stack'[Len(stack')] = f
  BY MoveOK
<1>2. CurrentIsRunner'
  BY <1>1 DEF CurrentIsRunner, InThread, Top
<1>3. QED
  BY <1>1, <1>2 DEF ControlOK, IInv, TypeOK, StateType

\* The running protothread makes a call that changes no control state.
LEMMA CountOK ==
  ASSUME IInv, InThread, Top.n < MaxOps
  PROVE  /\ Counted \in Seq(FrameType)
         /\ WellNested(Counted)
         /\ Counted # << >>
         /\ Counted[Len(Counted)] = [Top EXCEPT !.n = @ + 1]
         /\ IsThread(Counted[Len(Counted)])
         /\ Counted[Len(Counted)].p = Top.p
<1> DEFINE f == [Top EXCEPT !.n = @ + 1]
<1>1. stack # << >> /\ IsThread(Top)
  BY DEF InThread
<1>2. Top \in FrameType /\ FrameOK(Top)
  BY <1>1, TopTyped
<1>3. f \in FrameType
  BY <1>2, BoundAssumption DEF FrameType
<1>4. /\ f.k = Top.k /\ f.saved = Top.saved /\ f.p = Top.p
      /\ f.of = Top.of /\ f.at = Top.at
  BY <1>2 DEF FrameType
<1>5. FrameOK(f) /\ IsThread(f)
  BY <1>1, <1>2, <1>4 DEF FrameOK, IsThread
<1> HIDE DEF f
<1>6. QED
  BY <1>1, <1>3, <1>4, <1>5, MoveOK DEF Counted, f

LEMMA QuietCallOK ==
  ASSUME IInv, InThread, Top.n < MaxOps, stack' = Counted,
         UNCHANGED <<state, process_current>>
  PROVE  ControlOK'
<1>1. /\ stack' \in Seq(FrameType) /\ WellNested(stack')
      /\ stack'[Len(stack')].p = Top.p
  BY CountOK
<1>2. process_current = Top.p
  BY DEF IInv, CurrentIsRunner
<1>3. CurrentIsRunner'
  BY <1>1, <1>2 DEF CurrentIsRunner, Top
<1>4. QED
  BY <1>1, <1>3 DEF ControlOK, IInv, TypeOK, StateType

\* Returning from a frame.
LEMMA BelowOK ==
  ASSUME IInv, stack # << >>
  PROVE  /\ Below \in Seq(FrameType)
         /\ WellNested(Below)
         /\ Below # << >> => CallerSaved(Below[Len(Below)], Top)
BY PopOK DEF IInv, TypeOK, StackWellNested, Below, Top

\* A return that is neither from a synchronous post nor from an exit leads to
\* a loop, an exit or main, never into a protothread.
LEMMA ReturnOK ==
  ASSUME IInv, stack # << >>, Top.k \notin {"synch", "exit"},
         stack' = Below, state' \in StateType, UNCHANGED process_current
  PROVE  ControlOK'
<1>1. /\ Below \in Seq(FrameType) /\ WellNested(Below)
      /\ Below # << >> => ~IsThread(Below[Len(Below)])
  BY BelowOK DEF CallerSaved
<1>2. CurrentIsRunner'
  BY <1>1 DEF CurrentIsRunner, InThread, Top
<1>3. QED
  BY <1>1, <1>2 DEF ControlOK, IInv, TypeOK

\* A return from a synchronous post or an exit restores the process it holds.
LEMMA RestoreOK ==
  ASSUME IInv, stack # << >>, stack' = Below, process_current' = Top.saved,
         UNCHANGED state
  PROVE  ControlOK'
<1>1. /\ Below \in Seq(FrameType) /\ WellNested(Below)
      /\ Below # << >> => CallerSaved(Below[Len(Below)], Top)
  BY BelowOK
<1>2. CurrentIsRunner'
  BY <1>1 DEF CurrentIsRunner, InThread, Top, CallerSaved
<1>3. Top.saved \in Pointer
  BY TopTyped DEF FrameType
<1>4. QED
  BY <1>1, <1>2, <1>3 DEF ControlOK, IInv, TypeOK, StateType

\* The caller's frame with a process_post_synch frame on it.
LEMMA SynchOK ==
  ASSUME IInv,
         NEW S \in Seq(FrameType), WellNested(S),
         S # << >> /\ IsThread(S[Len(S)]) => S[Len(S)].p = process_current
  PROVE  LET T == Append(S, [Frame("synch", "run", NULL) EXCEPT
                               !.saved = process_current])
         IN  /\ T \in Seq(FrameType)
             /\ WellNested(T)
             /\ ~IsThread(T[Len(T)])
<1> DEFINE f == [Frame("synch", "run", NULL) EXCEPT !.saved = process_current]
<1>1. process_current \in Pointer
  BY DEF IInv, TypeOK
<1>2. f \in FrameType /\ f.k = "synch" /\ f.at = "run" /\ f.saved = process_current
  BY <1>1, BoundAssumption DEF Frame, FrameType, Pointer, Kind, Place
<1> HIDE DEF f
<1>3. FrameOK(f) /\ ~IsThread(f)
  BY <1>2 DEF FrameOK, IsThread
<1>4. S # << >> => CallerSaved(S[Len(S)], f)
  BY <1>2 DEF CallerSaved
<1>5. /\ Append(S, f) \in Seq(FrameType)
      /\ WellNested(Append(S, f))
      /\ Append(S, f)[Len(Append(S, f))] = f
  BY <1>2, <1>3, <1>4, PushOK
<1>6. QED
  BY <1>3, <1>5 DEF f

\* process_start, from main or from a protothread.
LEMMA StartOK ==
  ASSUME IInv,
         NEW S \in Seq(FrameType), WellNested(S),
         S # << >> => IsThread(S[Len(S)]) /\ S[Len(S)].p = process_current,
         NEW p \in Proc, Start(p, S)
  PROVE  ControlOK'
<1>1. CASE OnList(p)
  <2>1. stack' = S /\ UNCHANGED <<state, process_current>>
    BY <1>1 DEF Start
  <2>2. CurrentIsRunner'
    BY <2>1 DEF CurrentIsRunner, InThread, Top
  <2>3. QED
    BY <2>1, <2>2 DEF ControlOK, IInv, TypeOK, StateType
<1>2. CASE ~OnList(p)
  <2> DEFINE T == Append(S, [Frame("synch", "run", NULL) EXCEPT
                               !.saved = process_current])
             st == [state EXCEPT ![p] = "RUNNING"]
  <2>1. Call(st, T, p, "INIT")
    BY <1>2 DEF Start
  <2>2. T \in Seq(FrameType) /\ WellNested(T) /\ ~IsThread(T[Len(T)])
    BY SynchOK
  <2>3. st \in StateType /\ process_current \in Pointer
    BY DEF IInv, TypeOK, StateType
  <2>4. "INIT" \in Ev \cup {"NONE"}
    BY DEF Ev
  <2> HIDE DEF T, st
  <2>5. QED
    BY <2>1, <2>2, <2>3, <2>4, CallOK
<1>3. QED
  BY <1>1, <1>2

\* exit_process is entered: on a protothread, or after one has been popped.
LEMMA BeginExitOK ==
  ASSUME IInv,
         NEW S \in Seq(FrameType), WellNested(S),
         S # << >> /\ IsThread(S[Len(S)]) => S[Len(S)].p = process_current,
         NEW p \in Proc, NEW from \in Pointer, BeginExit(p, from, S)
  PROVE  ControlOK'
<1>0. process_current \in Pointer /\ state \in StateType /\ process_list \in Pointer
  BY DEF IInv, TypeOK, StateType
<1>1. CASE OnList(p)
  <2> DEFINE f == ExitFrame(p, from)
  <2>1. /\ state' = [state EXCEPT ![p] = "NONE"]
        /\ stack' = Append(S, f)
        /\ process_current' = process_current
    BY <1>1 DEF BeginExit
  <2>2. /\ f \in FrameType /\ f.k = "exit" /\ f.at \in {"visit", "unlink"}
        /\ f.of = p /\ f.saved = process_current
    BY <1>0, BoundAssumption
    DEF ExitFrame, FrameType, Pointer, Kind, Place
  <2> HIDE DEF f
  <2>3. FrameOK(f) /\ ~IsThread(f)
    BY <2>2, NullAssumption DEF FrameOK, IsThread
  <2>4. S # << >> => CallerSaved(S[Len(S)], f)
    BY <2>2 DEF CallerSaved
  <2>5. /\ stack' \in Seq(FrameType)
        /\ WellNested(stack')
        /\ stack'[Len(stack')] = f
    BY <2>1, <2>2, <2>3, <2>4, PushOK
  <2>6. CurrentIsRunner'
    BY <2>3, <2>5 DEF CurrentIsRunner, InThread, Top
  <2>7. state' \in StateType
    BY <1>0, <2>1 DEF StateType
  <2>8. QED
    BY <1>0, <2>1, <2>5, <2>6, <2>7 DEF ControlOK
<1>2. CASE ~OnList(p)
  <2>1. stack' = S /\ UNCHANGED <<state, process_current>>
    BY <1>2 DEF BeginExit
  <2>2. CurrentIsRunner'
    BY <2>1 DEF CurrentIsRunner, InThread, Top
  <2>3. QED
    BY <1>0, <2>1, <2>2 DEF ControlOK
<1>3. QED
  BY <1>1, <1>2

-----------------------------------------------------------------------------
(* The parts of Next keep the control state in order. *)

\* A loop over the list is started with an empty stack.
LEMMA FirstFrameOK ==
  ASSUME IInv, NEW f \in FrameType, f.k \in LoopKind, f.at = "visit",
         stack' = <<f>>, UNCHANGED <<state, process_current>>
  PROVE  ControlOK'
<1>1. FrameOK(f) /\ ~IsThread(f)
  BY DEF FrameOK, IsThread, LoopKind
<1>2. /\ stack' \in Seq(FrameType) /\ WellNested(stack')
      /\ stack'[Len(stack')] = f
  BY <1>1, SingleOK
<1>3. CurrentIsRunner'
  BY <1>1, <1>2 DEF CurrentIsRunner, InThread, Top
<1>4. QED
  BY <1>2, <1>3 DEF ControlOK, IInv, TypeOK, StateType

\* The empty stack.
LEMMA EmptyOK ==
  /\ << >> \in Seq(FrameType)
  /\ WellNested(<< >>)
BY DEF WellNested

LEMMA MainOK == IInv /\ Main => ControlOK'
<1> SUFFICES ASSUME IInv, Main PROVE ControlOK'
  OBVIOUS
<1>0. process_list \in Pointer /\ process_current \in Pointer
      /\ state \in StateType
  BY DEF IInv, TypeOK, StateType
<1>1. ASSUME NEW p \in Proc, BootStart(p) PROVE ControlOK'
  <2>1. stack = << >> /\ Start(p, stack)
    BY <1>1 DEF BootStart, InMain
  <2>2. QED
    BY <2>1, EmptyOK, StartOK
<1>2. CASE EnterLoop
  BY <1>2 DEF EnterLoop, procVars, ControlOK, IInv, TypeOK, StateType,
              StackWellNested, CurrentIsRunner, InThread, Top
<1>3. CASE RunPoll
  <2> DEFINE f == Frame("poll", "visit", process_list)
  <2>1. UNCHANGED <<state, process_current>> /\ stack' \in {<<f>>, << >>}
    BY <1>3 DEF RunPoll, procVars
  <2>2. f \in FrameType /\ f.k \in LoopKind /\ f.at = "visit"
    BY <1>0, FrameTyped DEF Kind, Place, LoopKind
  <2> HIDE DEF f
  <2>3. CASE stack' = <<f>>
    BY <2>1, <2>2, <2>3, FirstFrameOK
  <2>4. CASE stack' = << >>
    BY <1>0, <2>1, <2>4, EmptyOK DEF ControlOK, CurrentIsRunner, InThread
  <2>5. QED
    BY <2>1, <2>3, <2>4
<1>4. CASE RunEvent
  <2>1. stack = << >>
    BY <1>4 DEF RunEvent, InMain
  <2>2. CASE nevents = 0
    BY <1>0, <1>4, <2>1, <2>2, EmptyOK
    DEF RunEvent, procVars, ControlOK, CurrentIsRunner, InThread
  <2>3. CASE nevents # 0
    <3> DEFINE e == events[fevent]
               f == [Frame("bcast", "visit", process_list) EXCEPT !.ev = e.ev]
               st == IF e.ev = "INIT" THEN [state EXCEPT ![e.p] = "RUNNING"]
                                      ELSE state
    <3>1. e \in Entry
      BY DEF IInv, TypeOK
    <3>2. e.ev \in Ev \cup {"NONE"} /\ e.p \in Pointer
      BY <3>1 DEF Entry, Ev
    <3>3. CASE e.p = NULL
      <4>1. stack' = <<f>> /\ UNCHANGED <<state, process_current>>
        BY <1>4, <2>3, <3>3 DEF RunEvent
      <4>2. f \in FrameType /\ f.k \in LoopKind /\ f.at = "visit"
        BY <1>0, <3>2, BoundAssumption
        DEF Frame, FrameType, Kind, Place, LoopKind, Pointer
      <4> HIDE DEF f
      <4>3. QED
        BY <4>1, <4>2, FirstFrameOK
    <3>4. CASE e.p # NULL
      <4>1. Call(st, << >>, e.p, e.ev)
        BY <1>4, <2>3, <3>4 DEF RunEvent
      <4>2. e.p \in Proc
        BY <3>2, <3>4 DEF Pointer
      <4>3. st \in StateType
        BY <1>0, <4>2 DEF StateType
      <4> HIDE DEF st, e
      <4>4. QED
        BY <1>0, <3>2, <4>1, <4>2, <4>3, EmptyOK, CallOK
    <3>5. QED
      BY <3>3, <3>4
  <2>4. QED
    BY <2>2, <2>3
<1>5. CASE RunCall
  <2> DEFINE f == Frame("docall", "visit", process_list)
  <2>1. UNCHANGED <<state, process_current>> /\ stack' = <<f>>
    BY <1>5 DEF RunCall, procVars
  <2>2. f \in FrameType /\ f.k \in LoopKind /\ f.at = "visit"
    BY <1>0, FrameTyped DEF Kind, Place, LoopKind
  <2> HIDE DEF f
  <2>3. QED
    BY <2>1, <2>2, FirstFrameOK
<1>6. QED
  BY <1>1, <1>2, <1>3, <1>4, <1>5 DEF Main

LEMMA LoopsOK == IInv /\ Loops => ControlOK'
<1> SUFFICES ASSUME IInv, Loops PROVE ControlOK'
  OBVIOUS
<1>0. /\ process_list \in Pointer /\ process_current \in Pointer
      /\ state \in StateType /\ next \in [Proc -> Pointer]
  BY DEF IInv, TypeOK, StateType
<1>1. stack # << >> /\ Top.k \in LoopKind
  BY DEF Loops, LoopEnd, LoopAdvance, PollVisit, InnerPoll, BroadcastDeliver,
         CallDeliver, AtPlace, Running, LoopKind
<1>2. Top \in FrameType /\ FrameOK(Top) /\ ~IsThread(Top)
  BY <1>1, TopTyped DEF LoopKind, IsThread
\* A loop frame stays one when its cursor or its place changes.
<1>3. ASSUME NEW at \in Place, NEW p \in Pointer,
             at \in {"deliver", "advance"} => p # NULL
      PROVE  LET f == [Top EXCEPT !.at = at, !.p = p]
             IN  /\ f \in FrameType /\ FrameOK(f) /\ ~IsThread(f)
                 /\ f.k = Top.k /\ f.saved = Top.saved
  BY <1>1, <1>2, <1>3 DEF FrameType, FrameOK, IsThread, LoopKind
<1>4. ASSUME NEW at \in Place, at \in {"deliver", "advance"} => Top.p # NULL
      PROVE  LET f == [Top EXCEPT !.at = at]
             IN  /\ f \in FrameType /\ FrameOK(f) /\ ~IsThread(f)
                 /\ f.k = Top.k /\ f.saved = Top.saved
  BY <1>1, <1>2, <1>4 DEF FrameType, FrameOK, IsThread, LoopKind
\* Calling a process from the loop.
<1>5. ASSUME NEW st \in StateType, NEW p \in Proc, NEW ev \in Ev \cup {"NONE"},
             Top.p # NULL,
             Call(st, Replace([Top EXCEPT !.at = "advance"]), p, ev)
      PROVE  ControlOK'
  <2> DEFINE f == [Top EXCEPT !.at = "advance"]
  <2>1. /\ f \in FrameType /\ FrameOK(f) /\ ~IsThread(f)
        /\ f.k = Top.k /\ f.saved = Top.saved
    BY <1>4, <1>5 DEF Place
  <2>2. Call(st, Replace(f), p, ev)
    BY <1>5
  <2> HIDE DEF f
  <2>3. /\ Replace(f) \in Seq(FrameType) /\ WellNested(Replace(f))
        /\ Replace(f)[Len(Replace(f))] = f
    BY <1>1, <2>1, MoveOK
  <2>4. QED
    BY <1>0, <2>1, <2>2, <2>3, CallOK
<1>6. ASSUME NEW p \in Proc, Top.p # NULL, CallPoll(p) PROVE ControlOK'
  <2>1. [state EXCEPT ![p] = "RUNNING"] \in StateType
    BY <1>0 DEF StateType
  <2>2. QED
    BY <1>5, <1>6, <2>1 DEF CallPoll, Ev
<1>7. CASE LoopEnd
  BY <1>0, <1>1, <1>7, ReturnOK DEF LoopEnd, procVars, LoopKind
<1>8. CASE LoopAdvance
  <2>1. Top.p \in Proc
    BY <1>2, <1>8 DEF LoopAdvance, AtPlace, FrameOK, FrameType, Pointer
  <2>2. next[Top.p] \in Pointer
    BY <1>0, <2>1
  <2>3. stack' = Replace([Top EXCEPT !.at = "visit", !.p = next[Top.p]])
        /\ UNCHANGED <<state, process_current>>
    BY <1>8 DEF LoopAdvance, procVars
  <2> DEFINE f == [Top EXCEPT !.at = "visit", !.p = next[Top.p]]
  <2>4. /\ f \in FrameType /\ FrameOK(f) /\ ~IsThread(f)
        /\ f.k = Top.k /\ f.saved = Top.saved
    BY <1>3, <2>2 DEF Place
  <2>5. stack' = Replace(f)
    BY <2>3
  <2> HIDE DEF f
  <2>6. QED
    BY <1>1, <2>3, <2>4, <2>5, StayOK
<1>9. CASE PollVisit
  <2>1. Top.p \in Proc
    BY <1>2, <1>9 DEF PollVisit, FrameType, Pointer
  <2>2. CASE needspoll[Top.p]
    BY <1>6, <1>9, <2>1, <2>2, NullAssumption DEF PollVisit
  <2>3. CASE ~needspoll[Top.p]
    <3> DEFINE f == [Top EXCEPT !.p = next[Top.p]]
    <3>1. stack' = Replace(f) /\ UNCHANGED <<state, process_current>>
      BY <1>9, <2>3 DEF PollVisit
    <3>2. next[Top.p] \in Pointer /\ Top.at = "visit"
      BY <1>0, <1>9, <2>1 DEF PollVisit, AtPlace
    <3>3. /\ f \in FrameType /\ FrameOK(f) /\ ~IsThread(f)
          /\ f.k = Top.k /\ f.saved = Top.saved
      BY <1>1, <1>2, <3>2 DEF FrameType, FrameOK, IsThread, LoopKind
    <3> HIDE DEF f
    <3>4. QED
      BY <1>1, <3>1, <3>3, StayOK
  <2>4. QED
    BY <2>2, <2>3
<1>10. CASE InnerPoll
  <2> DEFINE f == [Top EXCEPT !.at = "deliver"]
             g == Frame("poll", "visit", process_list)
  <2>1. /\ f \in FrameType /\ FrameOK(f) /\ ~IsThread(f)
        /\ f.k = Top.k /\ f.saved = Top.saved
    BY <1>4, <1>10 DEF Place, InnerPoll
  <2>2. /\ UNCHANGED <<state, process_current>>
        /\ stack' = IF poll_requested THEN Append(Replace(f), g)
                                      ELSE Replace(f)
    BY <1>10 DEF InnerPoll, procVars
  <2>3. g \in FrameType /\ g.k = "poll" /\ g.at = "visit"
    BY <1>0, FrameTyped DEF Kind, Place
  <2> HIDE DEF f, g
  <2>4. FrameOK(g) /\ ~IsThread(g)
    BY <2>3 DEF FrameOK, IsThread
  <2>5. /\ Replace(f) \in Seq(FrameType) /\ WellNested(Replace(f))
        /\ Replace(f)[Len(Replace(f))] = f
    BY <1>1, <2>1, MoveOK
  <2>6. CASE poll_requested
    <3>1. CallerSaved(f, g)
      BY <2>1 DEF CallerSaved
    <3>2. /\ stack' \in Seq(FrameType) /\ WellNested(stack')
          /\ stack'[Len(stack')] = g
      BY <2>2, <2>3, <2>4, <2>5, <2>6, <3>1, PushOK
    <3>3. CurrentIsRunner'
      BY <2>4, <3>2 DEF CurrentIsRunner, InThread, Top
    <3>4. QED
      BY <1>0, <2>2, <3>2, <3>3 DEF ControlOK
  <2>7. CASE ~poll_requested
    BY <1>1, <2>1, <2>2, <2>7, StayOK
  <2>8. QED
    BY <2>6, <2>7
<1>11. CASE BroadcastDeliver
  <2>1. Top.p \in Proc /\ Top.ev \in Ev \cup {"NONE"}
    BY <1>2, <1>11
    DEF BroadcastDeliver, AtPlace, FrameOK, FrameType, Pointer
  <2>2. QED
    BY <1>0, <1>5, <1>11, <2>1, NullAssumption DEF BroadcastDeliver
<1>12. CASE CallDeliver
  <2>1. Top.p \in Proc
    BY <1>2, <1>12 DEF CallDeliver, AtPlace, FrameOK, FrameType, Pointer
  <2>2. CASE needscall[Top.p]
    BY <1>6, <1>12, <2>1, <2>2, NullAssumption DEF CallDeliver
  <2>3. CASE ~needscall[Top.p]
    <3> DEFINE f == [Top EXCEPT !.at = "advance"]
    <3>1. stack' = Replace(f) /\ UNCHANGED <<state, process_current>>
      BY <1>12, <2>3 DEF CallDeliver
    <3>2. /\ f \in FrameType /\ FrameOK(f) /\ ~IsThread(f)
          /\ f.k = Top.k /\ f.saved = Top.saved
      BY <1>4, <2>1, NullAssumption DEF Place
    <3> HIDE DEF f
    <3>3. QED
      BY <1>1, <3>1, <3>2, StayOK
  <2>4. QED
    BY <2>2, <2>3
<1>13. QED
  BY <1>7, <1>8, <1>9, <1>10, <1>11, <1>12 DEF Loops

LEMMA ThreadOK == IInv /\ Thread => ControlOK'
<1> SUFFICES ASSUME IInv, Thread PROVE ControlOK'
  OBVIOUS
<1>0. /\ process_current \in Pointer /\ state \in StateType
      /\ process_list \in Pointer /\ Proc \subseteq Pointer
      /\ UserEvent \subseteq Ev
  BY DEF IInv, TypeOK, StateType, Pointer, Ev
\* A call made with the caller's frame counted.
<1>1. ASSUME NEW name, MayCall(name)
      PROVE  /\ InThread /\ Top.n < MaxOps
             /\ Counted \in Seq(FrameType) /\ WellNested(Counted)
             /\ IsThread(Counted[Len(Counted)])
             /\ Counted[Len(Counted)].p = process_current
  BY <1>1, CountOK DEF MayCall, IInv, CurrentIsRunner
<1>2. ASSUME NEW to \in Pointer, NEW ev \in UserEvent, ThreadPost(to, ev)
      PROVE  ControlOK'
  BY <1>1, <1>2, QuietCallOK DEF ThreadPost, procVars
<1>3. ASSUME NEW q \in Proc, NEW ev \in UserEvent, ThreadPostSynch(q, ev)
      PROVE  ControlOK'
  <2> DEFINE T == Append(Counted, [Frame("synch", "run", NULL) EXCEPT
                                     !.saved = process_current])
  <2>1. Call(state, T, q, ev) /\ MayCall("synch")
    BY <1>3 DEF ThreadPostSynch
  <2>2. T \in Seq(FrameType) /\ WellNested(T) /\ ~IsThread(T[Len(T)])
    BY <1>1, <2>1, SynchOK
  <2> HIDE DEF T
  <2>3. QED
    BY <1>0, <2>1, <2>2, CallOK
<1>4. ASSUME NEW q \in Proc, ThreadStart(q) PROVE ControlOK'
  BY <1>1, <1>4, StartOK DEF ThreadStart
<1>5. ASSUME NEW q \in Proc, ThreadExit(q) PROVE ControlOK'
  BY <1>0, <1>1, <1>5, BeginExitOK DEF ThreadExit
<1>6. ASSUME NEW q \in Proc, ThreadPoll(q) PROVE ControlOK'
  BY <1>1, <1>6, QuietCallOK DEF ThreadPoll, procVars
<1>7. ASSUME NEW q \in Proc, ThreadAddPollEvent(q) PROVE ControlOK'
  BY <1>1, <1>7, QuietCallOK DEF ThreadAddPollEvent
<1>8. CASE ThreadYield
  <2>1. stack # << >> /\ Top.k = "thread"
    BY <1>8 DEF ThreadYield, Running
  <2>2. state' \in StateType
    BY <1>0, <1>8 DEF ThreadYield, StateType
  <2>3. QED
    BY <1>8, <2>1, <2>2, ReturnOK DEF ThreadYield
<1>9. CASE ThreadEnd
  <2>1. stack # << >> /\ Top.k = "thread"
    BY <1>9 DEF ThreadEnd, Running
  <2>2. Top.p \in Proc
    BY <2>1, TopTyped DEF FrameOK, FrameType, IsThread, Pointer
  <2>3. /\ Below \in Seq(FrameType) /\ WellNested(Below)
        /\ Below # << >> => ~IsThread(Below[Len(Below)])
    BY <2>1, BelowOK DEF CallerSaved
  <2>4. QED
    BY <1>0, <1>9, <2>2, <2>3, BeginExitOK DEF ThreadEnd
<1>10. CASE ByeReturn
  BY <1>0, <1>10, ReturnOK DEF ByeReturn, Running, procVars
<1>11. CASE SynchReturn
  BY <1>11, RestoreOK DEF SynchReturn, Running
<1>12. QED
  BY <1>2, <1>3, <1>4, <1>5, <1>6, <1>7, <1>8, <1>9, <1>10, <1>11 DEF Thread

LEMMA ExitOK == IInv /\ Exit => ControlOK'
<1> SUFFICES ASSUME IInv, Exit PROVE ControlOK'
  OBVIOUS
<1>0. /\ process_current \in Pointer /\ state \in StateType
      /\ next \in [Proc -> Pointer]
  BY DEF IInv, TypeOK, StateType
<1>1. stack # << >> /\ Top.k = "exit"
  BY DEF Exit, ExitNotify, ExitAdvance, ExitSelf, ExitUnlink, AtPlace, Running
<1>2. /\ Top \in FrameType /\ FrameOK(Top) /\ ~IsThread(Top)
      /\ Top.of \in Proc
  BY <1>1, TopTyped DEF IsThread, FrameOK, FrameType, Pointer
<1>3. CASE ExitNotify
  <2> DEFINE f == [Top EXCEPT !.at = "advance"]
  <2>1. Top.p \in Proc
    BY <1>2, <1>3 DEF ExitNotify, FrameType, Pointer
  <2>2. /\ f \in FrameType /\ FrameOK(f) /\ ~IsThread(f)
        /\ f.k = Top.k /\ f.saved = Top.saved
    BY <1>1, <1>2, <2>1, NullAssumption
    DEF FrameType, FrameOK, IsThread, Place
  <2>3. \/ Call(state, Replace(f), Top.p, "EXITED")
        \/ stack' = Replace(f) /\ UNCHANGED <<state, process_current>>
    BY <1>3 DEF ExitNotify
  <2> HIDE DEF f
  <2>4. /\ Replace(f) \in Seq(FrameType) /\ WellNested(Replace(f))
        /\ Replace(f)[Len(Replace(f))] = f
    BY <1>1, <2>2, MoveOK
  <2>5. "EXITED" \in Ev \cup {"NONE"}
    BY DEF Ev
  <2>6. CASE Call(state, Replace(f), Top.p, "EXITED")
    BY <1>0, <2>1, <2>2, <2>4, <2>5, <2>6, CallOK
  <2>7. CASE stack' = Replace(f) /\ UNCHANGED <<state, process_current>>
    BY <1>1, <2>2, <2>7, StayOK
  <2>8. QED
    BY <2>3, <2>6, <2>7
<1>4. CASE ExitAdvance
  <2> DEFINE f == [Top EXCEPT !.at = "visit", !.p = next[Top.p]]
  <2>1. Top.p \in Proc
    BY <1>2, <1>4 DEF ExitAdvance, AtPlace, FrameOK, FrameType, Pointer
  <2>2. next[Top.p] \in Pointer
    BY <1>0, <2>1
  <2>3. /\ f \in FrameType /\ FrameOK(f) /\ ~IsThread(f)
        /\ f.k = Top.k /\ f.saved = Top.saved
    BY <1>1, <1>2, <2>2 DEF FrameType, FrameOK, IsThread, Place
  <2>4. stack' = Replace(f) /\ UNCHANGED <<state, process_current>>
    BY <1>4 DEF ExitAdvance, procVars
  <2> HIDE DEF f
  <2>5. QED
    BY <1>1, <2>3, <2>4, StayOK
<1>5. CASE ExitSelf
  <2> DEFINE f == [Top EXCEPT !.at = "unlink"]
             g == [Frame("bye", "run", Top.of) EXCEPT !.ev = "EXIT"]
  <2>1. /\ f \in FrameType /\ FrameOK(f) /\ ~IsThread(f)
        /\ f.k = Top.k /\ f.saved = Top.saved
    BY <1>1, <1>2 DEF FrameType, FrameOK, IsThread, Place
  <2>2. /\ g \in FrameType /\ g.k = "bye" /\ g.p = Top.of
    BY <1>2, BoundAssumption DEF Frame, FrameType, Pointer, Kind, Place, Ev
  <2>3. FrameOK(g) /\ IsThread(g)
    BY <1>2, <2>2, NullAssumption DEF FrameOK, IsThread
  <2>4. /\ state' = state
        /\ \/ /\ process_current' = Top.of
              /\ stack' = Append(Replace(f), g)
           \/ /\ process_current' = process_current
              /\ stack' = Replace(f)
    BY <1>5 DEF ExitSelf
  <2> HIDE DEF f, g
  <2>5. /\ Replace(f) \in Seq(FrameType) /\ WellNested(Replace(f))
        /\ Replace(f)[Len(Replace(f))] = f
    BY <1>1, <2>1, MoveOK
  <2>6. CASE process_current' = Top.of /\ stack' = Append(Replace(f), g)
    <3>1. CallerSaved(f, g)
      BY <2>1 DEF CallerSaved
    <3>2. /\ stack' \in Seq(FrameType) /\ WellNested(stack')
          /\ stack'[Len(stack')] = g
      BY <2>2, <2>3, <2>5, <2>6, <3>1, PushOK
    <3>3. CurrentIsRunner'
      BY <2>2, <2>6, <3>2 DEF CurrentIsRunner, Top
    <3>4. QED
      BY <1>0, <1>2, <2>4, <2>6, <3>2, <3>3 DEF ControlOK, Pointer
  <2>7. CASE process_current' = process_current /\ stack' = Replace(f)
    BY <1>1, <2>1, <2>4, <2>7, StayOK
  <2>8. QED
    BY <2>4, <2>6, <2>7
<1>6. CASE ExitUnlink
  BY <1>1, <1>6, RestoreOK DEF ExitUnlink
<1>7. QED
  BY <1>3, <1>4, <1>5, <1>6 DEF Exit

-----------------------------------------------------------------------------
(* The event ring. *)

\* % N for a number below 2 * N.
LEMMA ModOnce ==
  \A N \in Nat \ {0}, a \in Nat :
    a < 2 * N => a % N = IF a < N THEN a ELSE a - N
BY Z3

\* The same for the sum of two numbers below N, and for the successor.
LEMMA SumModOnce ==
  ASSUME NEW N \in 1..128, NEW f \in 0..(N - 1), NEW i \in 0..N
  PROVE  /\ ((f + i) % 256) % N = IF f + i < N THEN f + i ELSE f + i - N
         /\ ((f + i) % 256) % N \in 0..(N - 1)
         /\ (f + 1) % N = IF f + 1 < N THEN f + 1 ELSE 0
<1>1. /\ N \in Nat \ {0} /\ f + i \in Nat /\ f + i < 2 * N
      /\ f + i < 256 /\ f + 1 \in Nat /\ f + 1 <= N
  OBVIOUS
<1>2. (f + i) % 256 = f + i
  BY <1>1
<1>3. (f + i) % N = IF f + i < N THEN f + i ELSE f + i - N
  BY Z3
<1>4. (f + 1) % N = IF f + 1 < N THEN f + 1 ELSE 0
  <2>1. CASE N = 1
    BY <2>1
  <2>2. CASE N # 1
    BY <1>1, <2>2, ModOnce
  <2>3. QED
    BY <2>1, <2>2
<1>5. QED
  BY <1>1, <1>2, <1>3, <1>4

\* The ring is at most 128 entries, so the unsigned char sum does not wrap.
LEMMA SlotValue ==
  ASSUME fevent \in 0..(NumEvents - 1), NEW i \in 0..NumEvents
  PROVE  /\ Slot(i) \in 0..(NumEvents - 1)
         /\ Slot(i) = IF fevent + i < NumEvents THEN fevent + i
                      ELSE fevent + i - NumEvents
BY NumEventsAssumption, SumModOnce DEF Slot

\* Two entries of the ring are in different slots.
LEMMA SlotInjective ==
  ASSUME fevent \in 0..(NumEvents - 1),
         NEW i \in 0..(NumEvents - 1), NEW j \in 0..(NumEvents - 1),
         Slot(i) = Slot(j)
  PROVE  i = j
<1>1. NumEvents \in 1..128 /\ i \in 0..NumEvents /\ j \in 0..NumEvents
  BY NumEventsAssumption
<1>2. ASSUME NEW N \in 1..128, NEW f \in 0..(N - 1),
             NEW m \in 0..(N - 1), NEW n \in 0..(N - 1),
             (IF f + m < N THEN f + m ELSE f + m - N)
               = (IF f + n < N THEN f + n ELSE f + n - N)
      PROVE  m = n
  BY <1>2
<1>3. (IF fevent + i < NumEvents THEN fevent + i ELSE fevent + i - NumEvents)
        = (IF fevent + j < NumEvents THEN fevent + j
           ELSE fevent + j - NumEvents)
  BY <1>1, SlotValue
<1>4. QED
  BY <1>1, <1>2, <1>3

LEMMA QueueTyped ==
  ASSUME TypeOK
  PROVE  /\ Queue \in Seq(Entry)
         /\ Len(Queue) = nevents
         /\ \A i \in 1..nevents : Queue[i] = events[Slot(i - 1)]
<1>1. nevents \in Nat /\ nevents <= NumEvents /\ NumEvents \in Nat
  BY NumEventsAssumption DEF TypeOK
<1>2. ASSUME NEW i \in 1..nevents PROVE events[Slot(i - 1)] \in Entry
  <2>1. i - 1 \in 0..NumEvents
    BY <1>1
  <2>2. Slot(i - 1) \in 0..(NumEvents - 1)
    BY <2>1, SlotValue DEF TypeOK
  <2>3. QED
    BY <2>2 DEF TypeOK
<1>3. QED
  BY <1>1, <1>2 DEF Queue

\* process_post appends to the queue when the ring is not full.
LEMMA EnqueueAppends ==
  ASSUME TypeOK, NEW e \in Entry, Enqueue(e), nevents # NumEvents
  PROVE  /\ nevents' \in 0..NumEvents /\ UNCHANGED <<fevent, refused>>
         /\ events' \in [0..(NumEvents - 1) -> Entry]
         /\ Queue' = Append(Queue, e)
<1>1. /\ nevents \in Nat /\ nevents < NumEvents /\ NumEvents \in Nat \ {0}
      /\ nevents \in 0..(NumEvents - 1) /\ nevents \in 0..NumEvents
  BY NumEventsAssumption DEF TypeOK
<1>2. /\ events' = [events EXCEPT ![Slot(nevents)] = e]
      /\ nevents' = nevents + 1
      /\ UNCHANGED <<fevent, refused>>
  BY DEF Enqueue
<1>3. Slot(nevents) \in 0..(NumEvents - 1)
  BY <1>1, SlotValue DEF TypeOK
<1>4. events' \in [0..(NumEvents - 1) -> Entry]
  BY <1>2 DEF TypeOK
<1>5. \A i \in 0..(NumEvents - 1) : Slot(i)' = Slot(i)
  BY <1>2 DEF Slot
<1>6. Queue' = [i \in 1..(nevents + 1) |-> events'[Slot(i - 1)']]
  BY <1>2 DEF Queue
<1>7. ASSUME NEW i \in 1..(nevents + 1)
      PROVE  events'[Slot(i - 1)'] = IF i <= nevents THEN Queue[i] ELSE e
  <2>1. i - 1 \in 0..(NumEvents - 1) /\ i - 1 \in 0..NumEvents
    BY <1>1
  <2>2. Slot(i - 1)' = Slot(i - 1) /\ Slot(i - 1) \in 0..(NumEvents - 1)
    BY <1>5, <2>1, SlotValue DEF TypeOK
  <2>3. CASE i = nevents + 1
    BY <1>1, <1>2, <2>2, <2>3 DEF TypeOK
  <2>4. CASE i # nevents + 1
    <3>1. i \in 1..nevents /\ i - 1 # nevents
      BY <1>1, <2>4
    <3>2. Slot(i - 1) # Slot(nevents)
      BY <1>1, <2>1, <3>1, SlotInjective DEF TypeOK
    <3>3. events'[Slot(i - 1)] = events[Slot(i - 1)]
      BY <1>2, <2>2, <3>2 DEF TypeOK
    <3>4. QED
      BY <1>1, <2>2, <3>1, <3>3, QueueTyped
  <2>5. QED
    BY <2>3, <2>4
<1>8. /\ Append(Queue, e) \in Seq(Entry)
      /\ Len(Append(Queue, e)) = nevents + 1
      /\ \A i \in 1..nevents : Append(Queue, e)[i] = Queue[i]
      /\ Append(Queue, e)[nevents + 1] = e
  BY QueueTyped, AppendProperties
<1>9. Append(Queue, e) = [i \in 1..(nevents + 1) |-> Append(Queue, e)[i]]
  <2>1. Append(Queue, e) \in [1..(nevents + 1) -> Entry]
    BY <1>8, LenProperties
  <2>2. QED
    BY <2>1
<1>10. ASSUME NEW i \in 1..(nevents + 1)
       PROVE  Append(Queue, e)[i] = events'[Slot(i - 1)']
  BY <1>1, <1>7, <1>8
<1>11. Queue' = Append(Queue, e)
  BY <1>6, <1>9, <1>10
<1>12. QED
  BY <1>1, <1>2, <1>4, <1>11

\* do_event takes the oldest entry.
LEMMA DequeueTakesHead ==
  ASSUME TypeOK, nevents # 0,
         fevent' = (fevent + 1) % NumEvents, nevents' = nevents - 1,
         UNCHANGED events
  PROVE  /\ fevent' \in 0..(NumEvents - 1) /\ nevents' \in 0..NumEvents
         /\ Queue # << >>
         /\ Queue' = Tail(Queue)
<1>1. /\ nevents \in Nat \ {0} /\ nevents <= NumEvents
      /\ NumEvents \in Nat \ {0} /\ NumEvents <= 128
      /\ fevent \in 0..(NumEvents - 1)
  BY NumEventsAssumption DEF TypeOK
<1>2. /\ fevent' = IF fevent + 1 < NumEvents THEN fevent + 1 ELSE 0
      /\ fevent' \in 0..(NumEvents - 1)
  <2>1. 0 \in 0..NumEvents
    BY <1>1
  <2>2. fevent' = IF fevent + 1 < NumEvents THEN fevent + 1 ELSE 0
    BY <1>1, <2>1, NumEventsAssumption, SumModOnce
  <2>3. QED
    BY <1>1, <2>2
<1>3. ASSUME NEW i \in 0..(nevents - 2) PROVE Slot(i)' = Slot(i + 1)
  <2>1. /\ i \in 0..NumEvents /\ i + 1 \in 0..NumEvents
        /\ i < NumEvents - 1
    BY <1>1
  <2>2. Slot(i)' = ((fevent' + i) % 256) % NumEvents
    BY DEF Slot
  <2>5. Slot(i)' = IF fevent' + i < NumEvents THEN fevent' + i
                   ELSE fevent' + i - NumEvents
    <3>1. ASSUME NEW N \in 1..128, NEW f \in 0..(N - 1), NEW k \in 0..N
          PROVE  ((f + k) % 256) % N = IF f + k < N THEN f + k ELSE f + k - N
      BY SumModOnce
    <3>2. NumEvents \in 1..128 /\ fevent' \in 0..(NumEvents - 1)
          /\ i \in 0..NumEvents
      BY <1>2, <2>1, NumEventsAssumption
    <3>3. QED
      BY <2>2, <3>1, <3>2, Zenon
  <2>6. Slot(i + 1) = IF fevent + (i + 1) < NumEvents THEN fevent + (i + 1)
                      ELSE fevent + (i + 1) - NumEvents
    BY <1>1, <2>1, SlotValue
  <2>7. QED
    BY <1>1, <1>2, <2>1, <2>5, <2>6
<1>4. Queue \in Seq(Entry) /\ Len(Queue) = nevents /\ Queue # << >>
  BY <1>1, QueueTyped, EmptySeq
<1>5. /\ Tail(Queue) \in Seq(Entry)
      /\ Len(Tail(Queue)) = nevents - 1
      /\ \A i \in 1..(nevents - 1) : Tail(Queue)[i] = Queue[i + 1]
  BY <1>4, HeadTailProperties
<1>6. Tail(Queue) = [i \in 1..(nevents - 1) |-> Tail(Queue)[i]]
  <2>1. Tail(Queue) \in [1..(nevents - 1) -> Entry]
    BY <1>5, LenProperties
  <2>2. QED
    BY <2>1
<1>7. Queue' = [i \in 1..(nevents - 1) |-> events[Slot(i - 1)']]
  BY DEF Queue
<1>8. ASSUME NEW i \in 1..(nevents - 1)
      PROVE  events[Slot(i - 1)'] = Tail(Queue)[i]
  <2>1. i - 1 \in 0..(nevents - 2) /\ i + 1 \in 1..nevents
    BY <1>1
  <2>2. Slot(i - 1)' = Slot((i - 1) + 1)
    BY <1>3, <2>1
  <2>3. (i - 1) + 1 = (i + 1) - 1
    BY <1>1
  <2>4. Queue[i + 1] = events[Slot((i + 1) - 1)]
    BY <2>1, QueueTyped
  <2>5. QED
    BY <1>5, <2>2, <2>3, <2>4
<1>9. Queue' = Tail(Queue)
  BY <1>6, <1>7, <1>8
<1>10. nevents' \in 0..NumEvents
  BY <1>1
<1>11. QED
  BY <1>2, <1>4, <1>9, <1>10

-----------------------------------------------------------------------------
(* The rest of the state. *)

Dequeue ==
  /\ nevents # 0
  /\ fevent' = (fevent + 1) % NumEvents
  /\ nevents' = nevents - 1
  /\ UNCHANGED <<events, refused>>

\* Only process_post and do_event touch the ring.
LEMMA RingStep ==
  Next => \/ UNCHANGED queueVars
          \/ \E e \in Entry : Enqueue(e)
          \/ Dequeue
<1> SUFFICES ASSUME Next PROVE \/ UNCHANGED queueVars
                               \/ \E e \in Entry : Enqueue(e)
                               \/ Dequeue
  OBVIOUS
<1>1. CASE Main
  <2>1. CASE RunEvent
    BY <2>1 DEF RunEvent, Dequeue
  <2>2. CASE ~RunEvent
    BY <1>1, <2>2 DEF Main, BootStart, EnterLoop, RunPoll, RunCall
  <2>3. QED
    BY <2>1, <2>2
<1>2. CASE Loops
  BY <1>2 DEF Loops, LoopEnd, LoopAdvance, PollVisit, InnerPoll,
              BroadcastDeliver, CallDeliver
<1>3. CASE Thread
  <2>1. ASSUME NEW to \in Pointer, NEW ev \in UserEvent, ThreadPost(to, ev)
        PROVE  \E e \in Entry : Enqueue(e)
    <3>1. [ev |-> ev, p |-> to] \in Entry
      BY DEF Entry
    <3>2. QED
      BY <2>1, <3>1 DEF ThreadPost
  <2>2. CASE ~\E to \in Pointer, ev \in UserEvent : ThreadPost(to, ev)
    BY <1>3, <2>2
    DEF Thread, ThreadPostSynch, ThreadStart, ThreadExit, ThreadPoll,
        ThreadAddPollEvent, ThreadYield, ThreadEnd, ByeReturn, SynchReturn
  <2>3. QED
    BY <2>1, <2>2
<1>4. CASE Exit
  BY <1>4 DEF Exit, ExitNotify, ExitAdvance, ExitSelf, ExitUnlink
<1>5. CASE \E p \in IrqProc : Interrupt(p)
  BY <1>5 DEF Interrupt
<1>6. QED
  BY <1>1, <1>2, <1>3, <1>4, <1>5 DEF Next, Step

RingOK ==
  /\ nevents \in 0..NumEvents
  /\ fevent \in 0..(NumEvents - 1)
  /\ events \in [0..(NumEvents - 1) -> Entry]
  /\ refused \in BOOLEAN

LEMMA RingTyped == TypeOK /\ Next => RingOK'
<1> SUFFICES ASSUME TypeOK, Next PROVE RingOK'
  OBVIOUS
<1>1. CASE UNCHANGED queueVars
  BY <1>1 DEF queueVars, TypeOK, RingOK
<1>2. ASSUME NEW e \in Entry, Enqueue(e) PROVE RingOK'
  <2>1. CASE nevents = NumEvents
    BY <1>2, <2>1 DEF Enqueue, TypeOK, RingOK
  <2>2. CASE nevents # NumEvents
    BY <1>2, <2>2, EnqueueAppends DEF TypeOK, RingOK
  <2>3. QED
    BY <2>1, <2>2
<1>3. CASE Dequeue
  BY <1>3, DequeueTakesHead DEF Dequeue, TypeOK, RingOK
<1>4. QED
  BY <1>1, <1>2, <1>3, RingStep

ListOK ==
  /\ process_list \in Pointer
  /\ next \in [Proc -> Pointer]
  /\ needscall \in [Proc -> BOOLEAN]
  /\ pc \in {"boot", "poll", "event", "call"}
  /\ walk \in [seen : SUBSET Proc, twice : SUBSET Proc, fresh : SUBSET Proc]

LEMMA StartListOK ==
  ASSUME IInv, NEW p \in Proc, NEW S, Start(p, S), UNCHANGED <<needscall, pc>>
  PROVE  ListOK'
<1>1. ListOK
  BY DEF IInv, TypeOK, ListOK
<1>2. CASE OnList(p)
  BY <1>1, <1>2 DEF Start, ListOK
<1>3. CASE ~OnList(p)
  <2>1. /\ next' = [next EXCEPT ![p] = process_list]
        /\ process_list' = p
        /\ walk' \in {walk, [walk EXCEPT !.fresh = @ \cup {p}]}
    BY <1>3 DEF Start
  <2>2. QED
    BY <1>1, <2>1 DEF ListOK, Pointer
<1>4. QED
  BY <1>2, <1>3

LEMMA ListTyped == IInv /\ Next => ListOK'
<1> SUFFICES ASSUME IInv, Next PROVE ListOK'
  OBVIOUS
<1>1. ListOK
  BY DEF IInv, TypeOK, ListOK
<1>2. CASE UNCHANGED <<process_list, next, needscall, pc, walk>>
  BY <1>1, <1>2 DEF ListOK
<1>3. CASE Main
  <2>1. ASSUME NEW p \in Proc, BootStart(p) PROVE ListOK'
    BY <2>1, StartListOK DEF BootStart
  <2>2. CASE EnterLoop \/ RunPoll \/ RunEvent \/ RunCall
    <3>1. /\ UNCHANGED <<process_list, next, needscall, walk>>
          /\ pc' \in {"boot", "poll", "event", "call"}
      BY <2>2 DEF EnterLoop, RunPoll, RunEvent, RunCall, procVars
    <3>2. QED
      BY <1>1, <3>1 DEF ListOK
  <2>3. QED
    BY <1>3, <2>1, <2>2 DEF Main
<1>4. CASE Loops
  <2>1. CASE LoopEnd
    <3>1. walk' \in {NoWalk, walk} /\ UNCHANGED <<procVars, pc>>
      BY <2>1 DEF LoopEnd
    <3>2. QED
      BY <1>1, <3>1 DEF ListOK, NoWalk, procVars
  <2>2. CASE BroadcastDeliver
    <3>1. Top.p \in Proc
      BY <2>2, TopTyped
      DEF BroadcastDeliver, AtPlace, Running, FrameOK, FrameType, Pointer
    <3>2. /\ \/ walk' = walk
             \/ walk' = [walk EXCEPT !.seen = @ \cup {Top.p},
                                     !.twice = @ \cup ({Top.p} \cap walk.seen)]
          /\ UNCHANGED <<process_list, next, needscall, pc>>
      BY <2>2 DEF BroadcastDeliver
    <3>3. QED
      BY <1>1, <3>1, <3>2 DEF ListOK
  <2>3. CASE LoopAdvance \/ PollVisit \/ InnerPoll \/ CallDeliver
    BY <1>2, <2>3 DEF LoopAdvance, PollVisit, InnerPoll, CallDeliver, procVars
  <2>4. QED
    BY <1>4, <2>1, <2>2, <2>3 DEF Loops
<1>5. CASE Thread
  <2>1. ASSUME NEW q \in Proc, ThreadStart(q) PROVE ListOK'
    BY <2>1, StartListOK DEF ThreadStart
  <2>2. ASSUME NEW q \in Proc, ThreadAddPollEvent(q) PROVE ListOK'
    <3>1. /\ needscall' \in {needscall, [needscall EXCEPT ![q] = TRUE]}
          /\ UNCHANGED <<process_list, next, pc, walk>>
      BY <2>2 DEF ThreadAddPollEvent
    <3>2. QED
      BY <1>1, <3>1 DEF ListOK
  <2>3. CASE ~\E q \in Proc : ThreadStart(q) \/ ThreadAddPollEvent(q)
    BY <1>2, <1>5, <2>3
    DEF Thread, ThreadPost, ThreadPostSynch, ThreadExit, ThreadPoll,
        ThreadYield, ThreadEnd, ByeReturn, SynchReturn, procVars
  <2>4. QED
    BY <2>1, <2>2, <2>3
<1>6. CASE Exit
  <2>1. CASE ExitUnlink
    <3>1. Top.of \in Proc
      BY <2>1, TopTyped
      DEF ExitUnlink, AtPlace, Running, FrameOK, FrameType, Pointer
    <3>2. next[Top.of] \in Pointer
      BY <1>1, <3>1 DEF ListOK
    <3>3. CASE Top.of = process_list
      BY <1>1, <2>1, <3>2, <3>3 DEF ExitUnlink, ListOK
    <3>4. CASE Top.of # process_list
      BY <1>1, <2>1, <3>2, <3>4 DEF ExitUnlink, ListOK
    <3>5. QED
      BY <3>3, <3>4
  <2>2. CASE ExitNotify \/ ExitAdvance \/ ExitSelf
    BY <1>2, <2>2 DEF ExitNotify, ExitAdvance, ExitSelf, procVars
  <2>3. QED
    BY <1>6, <2>1, <2>2 DEF Exit
<1>7. CASE \E p \in IrqProc : Interrupt(p)
  BY <1>2, <1>7 DEF Interrupt, procVars
<1>8. QED
  BY <1>3, <1>4, <1>5, <1>6, <1>7 DEF Next, Step

PollOK ==
  /\ needspoll \in [Proc -> BOOLEAN]
  /\ poll_requested \in BOOLEAN
  /\ owed \in SUBSET Proc

LEMMA PollTyped == IInv /\ Next => PollOK'
<1> SUFFICES ASSUME IInv, Next PROVE PollOK'
  OBVIOUS
<1>1. PollOK
  BY DEF IInv, TypeOK, PollOK
<1>2. CASE UNCHANGED pollVars
  BY <1>1, <1>2 DEF PollOK, pollVars
<1>3. ASSUME NEW q \in Proc, RequestPoll(q) PROVE PollOK'
  <2>1. CASE state[q] # "NONE"
    <3>1. /\ needspoll' = [needspoll EXCEPT ![q] = TRUE]
          /\ poll_requested' = TRUE
          /\ owed' \in {owed, owed \cup {q}}
      BY <1>3, <2>1 DEF RequestPoll
    <3>2. QED
      BY <1>1, <3>1 DEF PollOK
  <2>2. CASE state[q] = "NONE"
    BY <1>2, <1>3, <2>2 DEF RequestPoll
  <2>3. QED
    BY <2>1, <2>2
<1>4. ASSUME NEW p, CallPoll(p), UNCHANGED poll_requested PROVE PollOK'
  BY <1>1, <1>4 DEF CallPoll, PollOK
<1>5. CASE Main
  <2>1. CASE RunPoll
    BY <1>1, <2>1 DEF RunPoll, PollOK
  <2>2. CASE ~RunPoll
    BY <1>2, <1>5, <2>2 DEF Main, BootStart, EnterLoop, RunEvent, RunCall
  <2>3. QED
    BY <2>1, <2>2
<1>6. CASE Loops
  <2>1. CASE PollVisit
    BY <1>1, <1>4, <2>1 DEF PollVisit, PollOK
  <2>2. CASE InnerPoll
    BY <1>1, <2>2 DEF InnerPoll, PollOK
  <2>3. CASE CallDeliver
    BY <1>1, <1>4, <2>3 DEF CallDeliver, PollOK
  <2>4. CASE LoopEnd \/ LoopAdvance \/ BroadcastDeliver
    BY <1>2, <2>4 DEF LoopEnd, LoopAdvance, BroadcastDeliver
  <2>5. QED
    BY <1>6, <2>1, <2>2, <2>3, <2>4 DEF Loops
<1>7. CASE Thread
  <2>1. ASSUME NEW q \in Proc, ThreadPoll(q) PROVE PollOK'
    BY <1>3, <2>1 DEF ThreadPoll
  <2>2. CASE ~\E q \in Proc : ThreadPoll(q)
    BY <1>2, <1>7, <2>2
    DEF Thread, ThreadPost, ThreadPostSynch, ThreadStart, ThreadExit,
        ThreadAddPollEvent, ThreadYield, ThreadEnd, ByeReturn, SynchReturn
  <2>3. QED
    BY <2>1, <2>2
<1>8. CASE Exit
  <2>1. CASE ExitUnlink
    BY <1>1, <2>1 DEF ExitUnlink, PollOK
  <2>2. CASE ExitNotify \/ ExitAdvance \/ ExitSelf
    BY <1>2, <2>2 DEF ExitNotify, ExitAdvance, ExitSelf
  <2>3. QED
    BY <1>8, <2>1, <2>2 DEF Exit
<1>9. CASE \E p \in IrqProc : Interrupt(p)
  BY <1>3, <1>9, IrqAssumption DEF Interrupt
<1>10. QED
  BY <1>5, <1>6, <1>7, <1>8, <1>9 DEF Next, Step

-----------------------------------------------------------------------------
(* The theorems. *)

LEMMA InitIInv == Init => IInv
<1> SUFFICES ASSUME Init PROVE IInv
  OBVIOUS
<1>1. NumEvents \in Nat \ {0}
  BY NumEventsAssumption
<1>2. /\ events \in [0..(NumEvents - 1) -> Entry]
      /\ nevents \in 0..NumEvents /\ fevent \in 0..(NumEvents - 1)
  BY <1>1 DEF Init, Entry, Pointer
<1>3. stack = << >> /\ stack \in Seq(FrameType) /\ WellNested(stack)
  BY EmptyOK DEF Init
<1>4. CurrentIsRunner
  BY <1>3 DEF CurrentIsRunner, InThread
<1>5. TypeOK
  BY <1>2, <1>3 DEF Init, TypeOK, Pointer, NoWalk
<1>6. QED
  BY <1>3, <1>4, <1>5 DEF IInv, StackWellNested

LEMMA NextIInv == IInv /\ [Next]_vars => IInv'
<1> SUFFICES ASSUME IInv, [Next]_vars PROVE IInv'
  OBVIOUS
<1>1. CASE Next
  <2>1. RingOK' /\ ListOK' /\ PollOK'
    BY <1>1, RingTyped, ListTyped, PollTyped DEF IInv
  <2>2. ControlOK'
    <3>1. CASE \E p \in IrqProc : Interrupt(p)
      BY <3>1 DEF Interrupt, procVars, ControlOK, IInv, TypeOK, StateType,
                  StackWellNested, CurrentIsRunner, InThread, Top
    <3>2. QED
      BY <1>1, <3>1, MainOK, LoopsOK, ThreadOK, ExitOK DEF Next, Step
  <2>3. QED
    BY <2>1, <2>2
    DEF IInv, TypeOK, StackWellNested, RingOK, ListOK, PollOK, ControlOK,
        StateType
<1>2. CASE UNCHANGED vars
  BY <1>2 DEF vars, procVars, pollVars, queueVars, IInv, TypeOK,
              StackWellNested, CurrentIsRunner, InThread, Top
<1>3. QED
  BY <1>1, <1>2

LEMMA Inductive == Spec => []IInv
BY InitIInv, NextIInv, PTL DEF Spec

(***************************************************************************)
(* Every variable of the kernel keeps its type: the ring's counters stay   *)
(* within its bounds, and the pointers stay among the processes.           *)
(***************************************************************************)
THEOREM TypeCorrect == Spec => []TypeOK
<1>1. IInv => TypeOK
  BY DEF IInv
<1>2. QED
  BY <1>1, Inductive, PTL

(***************************************************************************)
(* Whatever synchronous posts, starts and exits are nested in each other,  *)
(* the protothread that runs is the one PROCESS_CURRENT() names.           *)
(***************************************************************************)
THEOREM CurrentCorrect == Spec => []CurrentIsRunner
<1>1. IInv => CurrentIsRunner
  BY DEF IInv
<1>2. QED
  BY <1>1, Inductive, PTL

(***************************************************************************)
(* The frames on the C stack hold the processes their callers were.        *)
(***************************************************************************)
THEOREM NestingCorrect == Spec => []StackWellNested
<1>1. IInv => StackWellNested
  BY DEF IInv
<1>2. QED
  BY <1>1, Inductive, PTL

(***************************************************************************)
(* The ring of process_post and do_event, with its unsigned char index     *)
(* arithmetic, implements the bounded queue of EventFifo.                  *)
(***************************************************************************)
THEOREM FifoRefinement == Spec => QueueIsFifo
<1>1. Init => Fifo!FifoInit
  BY QueueTyped, InitIInv, EmptySeq DEF Init, IInv, Fifo!FifoInit
<1>2. TypeOK /\ [Next]_vars => [Fifo!FifoNext]_(Fifo!fifoVars)
  <2> SUFFICES ASSUME TypeOK, [Next]_vars
               PROVE  [Fifo!FifoNext]_(Fifo!fifoVars)
    OBVIOUS
  <2>0. Queue \in Seq(Entry) /\ Len(Queue) = nevents /\ NumEvents \in Nat
        /\ nevents \in 0..NumEvents
    BY QueueTyped, NumEventsAssumption DEF TypeOK
  <2>1. CASE UNCHANGED queueVars
    BY <2>1 DEF queueVars, Queue, Slot, Fifo!fifoVars
  <2>2. ASSUME NEW e \in Entry, Enqueue(e) PROVE Fifo!FifoNext
    <3>1. CASE nevents = NumEvents
      <4>1. refused' = TRUE /\ UNCHANGED <<nevents, fevent, events>>
        BY <2>2, <3>1 DEF Enqueue
      <4>2. Queue' = Queue
        BY <4>1 DEF Queue, Slot
      <4>3. QED
        BY <2>0, <3>1, <4>1, <4>2 DEF Fifo!FifoNext, Fifo!Refuse
    <3>2. CASE nevents # NumEvents
      <4>1. Len(Queue) < NumEvents
        BY <2>0, <3>2
      <4>2. Queue' = Append(Queue, e) /\ UNCHANGED refused
        BY <2>2, <3>2, EnqueueAppends
      <4>3. QED
        BY <4>1, <4>2 DEF Fifo!FifoNext, Fifo!Accept
    <3>3. QED
      BY <3>1, <3>2
  <2>3. CASE Dequeue
    BY <2>3, DequeueTakesHead DEF Dequeue, Fifo!FifoNext, Fifo!Dispatch
  <2>4. CASE UNCHANGED vars
    BY <2>1, <2>4 DEF vars, queueVars
  <2>5. QED
    BY <2>1, <2>2, <2>3, <2>4, RingStep
<1>3. QED
  BY <1>1, <1>2, TypeCorrect, PTL DEF Spec, QueueIsFifo, Fifo!FifoSpec

-----------------------------------------------------------------------------
(***************************************************************************)
(* The list of processes.  The loops of the kernel stand on nodes of the   *)
(* list while it is relinked under them, and on nodes that have left it.   *)
(* All that matters of a cursor is which processes the loop is still to    *)
(* meet: those reached from it by the links (From).  So a list is here a   *)
(* set of nodes that is closed under the links, and that it ends means     *)
(* that no part of it links back into itself (NoLoop).                     *)
(***************************************************************************)

Link == [Proc -> Pointer]
\* The nodes met from q on by the links nx: Follow(q) is From(next, q).
Chained(nx, q) ==
  LET at[i \in 0..Cardinality(Proc)] ==
        IF i = 0 THEN q
        ELSE IF at[i - 1] = NULL THEN NULL ELSE nx[at[i - 1]]
  IN  at
From(nx, q) ==
  {Chained(nx, q)[i] : i \in 0..Cardinality(Proc)} \ {NULL}

Listed == From(next, process_list)
\* Nothing is reached twice from q on.
NoLoop(nx, q) ==
  \A T \in SUBSET From(nx, q) : T # {} => \E r \in T : nx[r] \notin T

-----------------------------------------------------------------------------
(* What is reached by links. *)

LEMMA ProcCount ==
  Cardinality(Proc) \in Nat /\ NULL \notin Proc /\ NULL \in Pointer
BY ProcAssumption, FS_CardinalityType, NullAssumption DEF Pointer

LEMMA ChainedSteps ==
  ASSUME NEW nx \in Link, NEW q \in Pointer
  PROVE  LET at == Chained(nx, q)
             N == Cardinality(Proc)
         IN  /\ \A i \in 0..N : at[i] \in Pointer
             /\ at[0] = q
             /\ \A i \in 0..(N - 1) : at[i + 1] = IF at[i] = NULL THEN NULL ELSE nx[at[i]]
<1> DEFINE N == Cardinality(Proc)
           G == [i \in 1..N |-> [v \in Pointer |-> IF v = NULL THEN NULL ELSE nx[v]]]
<1>1. N \in Nat
  BY ProcCount
<1>2. \A v \in Pointer : (IF v = NULL THEN NULL ELSE nx[v]) \in Pointer
  BY ProcCount DEF Pointer, Link
<1>3. G \in [1..N -> [Pointer -> Pointer]]
  BY <1>2
<1> HIDE DEF N, G
<1>4. PICK f \in [0..N -> Pointer] : Steps(f, N, q, G)
  BY <1>1, <1>3, Recursion
<1> DEFINE at == CHOOSE at : at = [i \in 0..N |->
              IF i = 0 THEN q
              ELSE IF at[i - 1] = NULL THEN NULL ELSE nx[at[i - 1]]]
<1>5. f = [i \in 0..N |->
              IF i = 0 THEN q
              ELSE IF f[i - 1] = NULL THEN NULL ELSE nx[f[i - 1]]]
  <2>1. \A i \in 1..N : i \in 0..N /\ i # 0 /\ i - 1 \in 0..N /\ f[i - 1] \in Pointer
    BY <1>1
  <2>2. \A i \in 1..N : f[i] = IF f[i - 1] = NULL THEN NULL ELSE nx[f[i - 1]]
    BY <1>1, <1>4, <2>1 DEF G, Steps
  <2>3. \A i \in 0..N : i = 0 \/ i \in 1..N
    BY <1>1
  <2>4. \A i \in 0..N : f[i] = IF i = 0 THEN q
             ELSE IF f[i - 1] = NULL THEN NULL ELSE nx[f[i - 1]]
    BY <1>4, <2>2, <2>3 DEF Steps
  <2> QED
    BY <2>4
<1>6. at = [i \in 0..N |->
              IF i = 0 THEN q
              ELSE IF at[i - 1] = NULL THEN NULL ELSE nx[at[i - 1]]]
  BY <1>5
<1>7. Chained(nx, q) = at
  BY DEF Chained, N
<1> HIDE DEF at
<1>8. at[0] = q
  BY <1>1, <1>6
<1>9. \A i \in 0..(N - 1) : at[i + 1] = IF at[i] = NULL THEN NULL ELSE nx[at[i]]
  <2>1. \A i \in 0..(N - 1) : i + 1 \in 0..N /\ i + 1 # 0 /\ (i + 1) - 1 = i
    BY <1>1
  <2> QED
    BY <1>6, <2>1
<1>10. \A i \in 0..N : at[i] \in Pointer
  <2> DEFINE S == {i \in 0..N : at[i] \in Pointer}
  <2>1. 0 \in S
    BY <1>1, <1>8
  <2>2. \A i \in 0..(N - 1) : i \in S => i + 1 \in S
    <3>1. \A i \in 0..(N - 1) : i + 1 \in 0..N
      BY <1>1
    <3> QED
      BY <1>2, <1>9, <3>1
  <2> HIDE DEF S
  <2>3. \A i \in 0..N : i \in S
    BY <1>1, <2>1, <2>2, IntervalInduction
  <2> QED
    BY <2>3 DEF S
<1> QED
  BY <1>7, <1>8, <1>9, <1>10 DEF N

\* Links lead into T, or to the end of the list.
Closed(nx, T) == \A r \in T : nx[r] \in T \cup {NULL}

\* The least set with q in it that the links do not leave.
LEMMA FromLeast ==
  ASSUME NEW nx \in Link, NEW q \in Pointer,
         NEW T, q \in T \cup {NULL}, Closed(nx, T)
  PROVE  From(nx, q) \subseteq T
<1> DEFINE N == Cardinality(Proc)
           at == Chained(nx, q)
           S == {i \in 0..N : at[i] \in T \cup {NULL}}
<1>1. N \in Nat
  BY ProcCount
<1>2. /\ \A i \in 0..N : at[i] \in Pointer
      /\ at[0] = q
      /\ \A i \in 0..(N - 1) : at[i + 1] = IF at[i] = NULL THEN NULL ELSE nx[at[i]]
  BY ChainedSteps
<1> HIDE DEF at, N
<1>3. 0 \in S
  BY <1>1, <1>2
<1>4. \A i \in 0..(N - 1) : i \in S => i + 1 \in S
  <2>1. \A i \in 0..(N - 1) : i + 1 \in 0..N
    BY <1>1
  <2> QED
    BY <1>2, <2>1 DEF Closed
<1> HIDE DEF S
<1>5. \A i \in 0..N : i \in S
  BY <1>1, <1>3, <1>4, IntervalInduction
<1> QED
  BY <1>5 DEF S, From, at, N

\* It is closed indeed: more links than there are processes lead back.
LEMMA FromClosed ==
  ASSUME NEW nx \in Link, NEW q \in Pointer
  PROVE  /\ From(nx, q) \subseteq Proc
         /\ q # NULL => q \in From(nx, q)
         /\ Closed(nx, From(nx, q))
         /\ Chained(nx, q)[Cardinality(Proc)] # NULL =>
              From(nx, q) # {} /\ \A r \in From(nx, q) : nx[r] \in From(nx, q)
<1> DEFINE N == Cardinality(Proc)
           at == Chained(nx, q)
           F == From(nx, q)
<1>1. N \in Nat
  BY ProcCount
<1>2. /\ \A i \in 0..N : at[i] \in Pointer
      /\ at[0] = q
      /\ \A i \in 0..(N - 1) : at[i + 1] = IF at[i] = NULL THEN NULL ELSE nx[at[i]]
  BY ChainedSteps
<1>3. F = {at[i] : i \in 0..N} \ {NULL}
  BY DEF From
<1> HIDE DEF at, N, F
<1>4. F \subseteq Proc
  BY <1>2, <1>3 DEF Pointer
<1>5. q # NULL => q \in F
  BY <1>1, <1>2, <1>3
<1>6. ASSUME NEW i \in 0..(N - 1), at[i] # NULL
      PROVE  nx[at[i]] \in F \cup {NULL} /\ (at[i + 1] # NULL => nx[at[i]] \in F)
  <2>1. i + 1 \in 0..N /\ i \in 0..N
    BY <1>1
  <2> QED
    BY <1>2, <1>3, <1>6, <2>1
<1>7. CASE at[N] = NULL
  <2> SUFFICES ASSUME NEW r \in F PROVE nx[r] \in F \cup {NULL}
    BY <1>4, <1>5, <1>7 DEF Closed, F, at, N
  <2>1. PICK i \in 0..N : r = at[i] /\ at[i] # NULL
    BY <1>3
  <2>2. i \in 0..(N - 1)
    BY <1>1, <1>7, <2>1
  <2> QED
    BY <1>6, <2>1, <2>2
<1>8. CASE at[N] # NULL
  <2>1. \A i \in 0..N : at[i] \in Proc
    <3> DEFINE S == {i \in 0..N : at[N - i] \in Proc}
    <3>1. 0 \in S
      BY <1>1, <1>2, <1>8 DEF Pointer
    <3>2. ASSUME NEW i \in 0..(N - 1), i \in S
          PROVE  i + 1 \in S
      <4>1. i + 1 \in 0..N /\ N - (i + 1) \in 0..(N - 1) /\ (N - (i + 1)) + 1 = N - i
            /\ N - (i + 1) \in 0..N
        BY <1>1
      <4>2. at[N - (i + 1)] # NULL
        BY <1>2, <3>2, <4>1, ProcCount
      <4> QED
        BY <1>2, <4>1, <4>2 DEF Pointer
    <3> HIDE DEF S
    <3>3. \A i \in 0..N : i \in S
      BY <1>1, <3>1, <3>2, IntervalInduction
    <3>4. \A i \in 0..N : N - i \in 0..N /\ N - (N - i) = i
      BY <1>1
    <3> QED
      BY <3>3, <3>4 DEF S
  <2>2. \E i, j \in 0..N : i < j /\ at[i] = at[j]
    <3> DEFINE f == [i \in 0..N |-> at[i]]
    <3>1. f \in [0..N -> Proc]
      BY <2>1
    <3>2. IsFiniteSet(0..N) /\ Cardinality(0..N) = N + 1
      BY <1>1, FS_Interval
    <3>3. \E i, j \in 0..N : i # j /\ f[i] = f[j]
      <4>1. Cardinality(0..N) > Cardinality(Proc)
        BY <1>1, <3>2 DEF N
      <4> HIDE DEF f
      <4> QED
        BY <3>1, <3>2, <4>1, ProcAssumption, FS_PigeonHole
    <3>4. PICK i \in 0..N, j \in 0..N : i # j /\ at[i] = at[j]
      BY <3>3
    <3>5. i < j \/ j < i
      BY <1>1, <3>4
    <3> QED
      BY <3>4, <3>5
  <2>3. PICK a \in 0..N, b \in 0..N : a < b /\ at[a] = at[b]
    BY <2>2
  <2> DEFINE S == {k \in 0..(N - b) : at[a + k] = at[b + k]}
  <2>4. \A k \in 0..(N - b) : k \in S
    <3>1. N - b \in Nat /\ 0 \in S
      BY <1>1, <2>3
    <3>2. ASSUME NEW k \in 0..((N - b) - 1), k \in S
          PROVE  k + 1 \in S
      <4>1. /\ k + 1 \in 0..(N - b) /\ a + k \in 0..(N - 1) /\ b + k \in 0..(N - 1)
            /\ (a + k) + 1 = a + (k + 1) /\ (b + k) + 1 = b + (k + 1)
        BY <1>1, <2>3
      <4> QED
        BY <1>2, <3>2, <4>1
    <3> HIDE DEF S
    <3> QED
      BY <3>1, <3>2, IntervalInduction
  <2>5. N - b \in 0..(N - b) /\ a + (N - b) \in 0..(N - 1) /\ b + (N - b) = N
    BY <1>1, <2>3
  <2>6. at[a + (N - b)] = at[N]
    BY <2>4, <2>5
  <2>7. nx[at[N]] \in F
    <3>1. (a + (N - b)) + 1 \in 0..N
      BY <1>1, <2>5
    <3> QED
      BY <1>6, <1>8, <2>1, <2>5, <2>6, <3>1, ProcCount
  <2>10. N \in 0..N /\ F # {}
    BY <1>1, <1>3, <1>8
  <2> SUFFICES ASSUME NEW r \in F PROVE nx[r] \in F
    BY <1>4, <1>5, <1>8, <2>10 DEF Closed, F, at, N
  <2>8. PICK i \in 0..N : r = at[i] /\ at[i] # NULL
    BY <1>3
  <2>9. i \in 0..(N - 1) \/ i = N
    BY <1>1
  <2>11. ASSUME i \in 0..(N - 1)
         PROVE  nx[r] \in F
    <3>1. i + 1 \in 0..N
      BY <1>1, <2>11
    <3> QED
      BY <1>6, <2>1, <2>8, <2>11, <3>1, ProcCount
  <2> QED
    BY <2>7, <2>8, <2>9, <2>11
<1> QED
  BY <1>7, <1>8

\* From a node that is reached, nothing more is reached.
LEMMA FromInner ==
  ASSUME NEW nx \in Link, NEW q \in Pointer, NEW r \in From(nx, q) \cup {NULL}
  PROVE  From(nx, r) \subseteq From(nx, q)
<1>1. Closed(nx, From(nx, q)) /\ r \in Pointer
  BY FromClosed DEF Pointer
<1> QED
  BY <1>1, FromLeast

\* What is reached is q or is reached from its link.
LEMMA FromStep ==
  ASSUME NEW nx \in Link, NEW q \in Proc
  PROVE  From(nx, q) = {q} \cup From(nx, nx[q])
<1>1. q \in Pointer /\ nx[q] \in Pointer
  BY DEF Pointer, Link
<1> DEFINE T == {q} \cup From(nx, nx[q])
<1>2. Closed(nx, T) /\ q \in T
  BY <1>1, FromClosed DEF Closed, Pointer
<1>3. From(nx, q) \subseteq T
  BY <1>1, <1>2, FromLeast
<1>4. q \in From(nx, q) /\ nx[q] \in From(nx, q) \cup {NULL}
  BY <1>1, FromClosed, ProcCount DEF Closed
<1>5. From(nx, nx[q]) \subseteq From(nx, q)
  BY <1>1, <1>4, FromInner
<1> QED
  BY <1>3, <1>4, <1>5

LEMMA FromNull ==
  ASSUME NEW nx \in Link
  PROVE  From(nx, NULL) = {} /\ NoLoop(nx, NULL)
<1>1. From(nx, NULL) \subseteq {}
  <2>1. Closed(nx, {}) /\ NULL \in {} \cup {NULL}
    BY DEF Closed
  <2> QED
    BY <2>1, ProcCount, FromLeast
<1> QED
  BY <1>1 DEF NoLoop

\* A list without a loop does not come back to its head,
LEMMA NoReturn ==
  ASSUME NEW nx \in Link, NEW q \in Proc, NoLoop(nx, q)
  PROVE  q \notin From(nx, nx[q])
<1> SUFFICES ASSUME q \in From(nx, nx[q]) PROVE FALSE
  OBVIOUS
<1> DEFINE C == {r \in From(nx, q) : q \in From(nx, nx[r])}
<1>1. q \in Pointer /\ q \in From(nx, q) /\ From(nx, q) \subseteq Proc
  BY FromClosed, ProcCount DEF Pointer
<1>2. C # {} /\ C \in SUBSET From(nx, q)
  BY <1>1
<1>3. ASSUME NEW r \in C
      PROVE  nx[r] \in C
  <2>1. r \in Proc /\ nx[r] \in Pointer
    BY <1>1 DEF Link
  <2>2. nx[r] # NULL
    BY FromNull
  <2>3. nx[r] \in Proc /\ nx[r] \in From(nx, q)
    BY <1>1, <2>1, <2>2, FromClosed DEF Closed, Pointer
  <2>4. CASE nx[r] = q
    BY <1>1, <2>4
  <2>5. CASE nx[r] # q
    <3>1. q \in From(nx, nx[nx[r]])
      BY <2>3, <2>5, FromStep
    <3> QED
      BY <2>3, <3>1
  <2> QED
    BY <2>4, <2>5
<1> HIDE DEF C
<1> QED
  BY <1>2, <1>3 DEF NoLoop

\* and ends.
LEMMA NoLoopEnds ==
  ASSUME NEW nx \in Link, NEW q \in Pointer, NoLoop(nx, q)
  PROVE  Chained(nx, q)[Cardinality(Proc)] = NULL
BY FromClosed DEF NoLoop

-----------------------------------------------------------------------------
(* A process is put at the head of the list. *)

LEMMA PushedList ==
  ASSUME NEW nx \in Link, NEW head \in Pointer, NEW p \in Proc,
         p \notin From(nx, head), NoLoop(nx, head)
  PROVE  LET ny == [nx EXCEPT ![p] = head]
         IN  /\ ny \in Link
             /\ From(ny, p) \subseteq From(nx, head) \cup {p}
             /\ From(nx, head) \cup {p} \subseteq From(ny, p)
             /\ NoLoop(ny, p)
             /\ \A x \in Pointer : \A r \in From(nx, head) : r \in From(nx, x) => r \in From(ny, x)
             /\ \A c \in Proc : \A r \in From(nx, head) : r \in From(nx, nx[c]) => r \in From(ny, ny[c])
<1> DEFINE L == From(nx, head)
           ny == [nx EXCEPT ![p] = head]
<1>1. ny \in Link /\ ny[p] = head /\ \A q \in Proc : q # p => ny[q] = nx[q]
  BY DEF Link
<1> HIDE DEF ny
<1>2. /\ L \subseteq Proc /\ Closed(nx, L) /\ head \in L \cup {NULL}
      /\ p \in Pointer
  BY FromClosed DEF Pointer
<1>3. Closed(ny, L)
  BY <1>1, <1>2 DEF Closed
<1>4. From(ny, head) = L
  <2>1. From(ny, head) \subseteq L
    BY <1>1, <1>2, <1>3, FromLeast
  <2>2. Closed(nx, From(ny, head))
    <3>1. Closed(ny, From(ny, head))
      BY <1>1, FromClosed
    <3> QED
      BY <1>1, <1>2, <2>1, <3>1 DEF Closed
  <2>3. head \in From(ny, head) \cup {NULL}
    BY <1>1, FromClosed
  <2>4. L \subseteq From(ny, head)
    BY <2>2, <2>3, FromLeast
  <2> QED
    BY <2>1, <2>4
<1>5. From(ny, p) = L \cup {p}
  <2>1. From(ny, p) = {p} \cup From(ny, ny[p])
    BY <1>1, FromStep
  <2> QED
    BY <1>1, <1>4, <2>1
<1>6. NoLoop(ny, p)
  <2> SUFFICES ASSUME NEW T \in SUBSET (L \cup {p}), T # {}, \A r \in T : ny[r] \in T
               PROVE  FALSE
    BY <1>5 DEF NoLoop
  <2> DEFINE U == T \ {p}
  <2>1. U \in SUBSET L
    OBVIOUS
  <2>2. U # {}
    <3>1. CASE p \in T
      BY <1>1, <1>2, <3>1, ProcCount
    <3>2. CASE p \notin T
      BY <3>2
    <3> QED
      BY <3>1, <3>2
  <2>3. ASSUME NEW r \in U
        PROVE  nx[r] \in U
    <3>1. r \in L /\ r \in T /\ r \in Proc /\ r # p
      BY <1>2
    <3>2. nx[r] \in T /\ nx[r] \in L \cup {NULL}
      BY <1>1, <1>2, <3>1 DEF Closed
    <3> QED
      BY <3>2, ProcCount
  <2> HIDE DEF U
  <2> QED
    BY <2>1, <2>2, <2>3 DEF NoLoop
<1>7. ASSUME NEW x \in Pointer, NEW r \in L, r \in From(nx, x)
      PROVE  r \in From(ny, x)
  <2> DEFINE F == From(ny, x)
  <2>1. Closed(ny, F) /\ x \in F \cup {NULL} /\ F \subseteq Proc
    BY <1>1, FromClosed
  <2>2. CASE p \in F
    <3>1. head \in F \cup {NULL}
      BY <1>1, <2>1, <2>2 DEF Closed
    <3>2. From(ny, head) \subseteq F
      BY <1>1, <3>1, FromInner
    <3> QED
      BY <1>4, <3>2
  <2>3. CASE p \notin F
    <3>1. Closed(nx, F)
      BY <1>1, <2>1, <2>3 DEF Closed
    <3> QED
      BY <1>7, <2>1, <3>1, FromLeast
  <2> QED
    BY <2>2, <2>3
<1>8. ASSUME NEW c \in Proc, NEW r \in L, r \in From(nx, nx[c])
      PROVE  r \in From(ny, ny[c])
  <2>1. nx[c] \in Pointer
    BY DEF Link
  <2> QED
    BY <1>1, <1>4, <1>7, <1>8, <2>1
<1> QED
  BY <1>1, <1>5, <1>6, <1>7, <1>8 DEF ny

-----------------------------------------------------------------------------
(* A process is taken off the list: links to it now skip it. *)

Skips(nx, ny, p) ==
  /\ ny \in Link
  /\ \A q \in Proc : ny[q] = nx[q] \/ (nx[q] = p /\ ny[q] = nx[p])

\* Nobody else is lost to a loop that stands somewhere, and nobody is new.
LEMMA SkippedFrom ==
  ASSUME NEW nx \in Link, NEW p \in Proc, NEW ny, Skips(nx, ny, p), NEW x \in Pointer
  PROVE  /\ From(ny, x) \subseteq From(nx, x)
         /\ From(nx, x) \ {p} \subseteq From(ny, x)
         /\ NoLoop(nx, x) => NoLoop(ny, x)
<1>1. ny \in Link /\ \A q \in Proc : ny[q] = nx[q] \/ (nx[q] = p /\ ny[q] = nx[p])
  BY DEF Skips
<1>2. From(ny, x) \subseteq From(nx, x)
  <2>1. /\ Closed(nx, From(nx, x)) /\ x \in From(nx, x) \cup {NULL}
        /\ From(nx, x) \subseteq Proc
    BY FromClosed
  <2>2. Closed(ny, From(nx, x))
    BY <1>1, <2>1, ProcCount DEF Closed
  <2> QED
    BY <1>1, <2>1, <2>2, FromLeast
<1>3. From(nx, x) \ {p} \subseteq From(ny, x)
  <2> DEFINE F == From(ny, x)
             T == F \cup {y \in {p} : \E q \in F : nx[q] = p}
  <2>1. Closed(ny, F) /\ x \in F \cup {NULL} /\ F \subseteq Proc
    BY <1>1, FromClosed
  <2>2. Closed(nx, T)
    <3> SUFFICES ASSUME NEW r \in T PROVE nx[r] \in T \cup {NULL}
      BY DEF Closed
    <3>1. CASE r \in F
      BY <1>1, <2>1, <3>1 DEF Closed
    <3>2. CASE r \notin F
      <4>1. PICK q \in F : nx[q] = p /\ r = p
        BY <3>2
      <4>2. ny[q] \in F \cup {NULL} /\ ny[q] # p
        BY <2>1, <3>2, <4>1, ProcCount DEF Closed
      <4>3. ny[q] = nx[p]
        BY <1>1, <2>1, <4>1, <4>2
      <4> QED
        BY <4>1, <4>2, <4>3
    <3> QED
      BY <3>1, <3>2
  <2>3. From(nx, x) \subseteq T
    BY <2>1, <2>2, FromLeast
  <2> QED
    BY <2>3
<1>4. ASSUME NoLoop(nx, x)
      PROVE  NoLoop(ny, x)
  <2> SUFFICES ASSUME NEW T \in SUBSET From(ny, x), T # {}, \A r \in T : ny[r] \in T
               PROVE  FALSE
    BY DEF NoLoop
  <2>1. From(nx, x) \subseteq Proc /\ T \subseteq From(nx, x) /\ Closed(nx, From(nx, x))
    BY <1>2, FromClosed
  <2>2. CASE \A r \in T : nx[r] \in T
    BY <1>4, <2>1, <2>2 DEF NoLoop
  <2>3. CASE \E r \in T : nx[r] \notin T
    <3>1. PICK r \in T : nx[r] \notin T
      BY <2>3
    <3>2. nx[r] = p /\ nx[p] \in T
      BY <1>1, <2>1, <3>1
    <3>3. p \in From(nx, x)
      BY <2>1, <3>1, <3>2, ProcCount DEF Closed
    <3> DEFINE U == T \cup {p}
    <3>4. U \in SUBSET From(nx, x) /\ U # {}
      BY <2>1, <3>3
    <3>5. \A y \in U : nx[y] \in U
      BY <1>1, <2>1, <3>2
    <3> HIDE DEF U
    <3> QED
      BY <1>4, <3>4, <3>5 DEF NoLoop
  <2> QED
    BY <2>2, <2>3
<1> QED
  BY <1>2, <1>3, <1>4

\* The same for a loop that is to go on from c.
LEMMA SkippedCursor ==
  ASSUME NEW nx \in Link, NEW p \in Proc, NEW ny, Skips(nx, ny, p), NEW c \in Proc
  PROVE  /\ From(ny, ny[c]) \subseteq From(nx, nx[c])
         /\ From(nx, nx[c]) \ {p} \subseteq From(ny, ny[c])
         /\ NoLoop(nx, nx[c]) => NoLoop(ny, ny[c])
<1>1. /\ nx[c] \in Pointer /\ nx[p] \in Pointer /\ ny \in Link /\ p \in Pointer
      /\ ny[c] = nx[c] \/ (nx[c] = p /\ ny[c] = nx[p])
  BY DEF Skips, Link, Pointer
<1>2. CASE ny[c] = nx[c]
  BY <1>1, <1>2, SkippedFrom
<1>3. CASE nx[c] = p /\ ny[c] = nx[p]
  <2>1. From(nx, p) = {p} \cup From(nx, nx[p])
    BY FromStep
  <2>2. NoLoop(nx, p) => NoLoop(nx, nx[p])
    BY <2>1 DEF NoLoop
  <2> QED
    BY <1>1, <1>3, <2>1, <2>2, SkippedFrom
<1> QED
  BY <1>1, <1>2, <1>3

\* The list, when p leaves it.
LEMMA SkippedList ==
  ASSUME NEW nx \in Link, NEW head \in Pointer, NEW p \in Proc, NoLoop(nx, head),
         NEW ny, NEW newHead,
         IF p = head THEN ny = nx /\ newHead = nx[head]
         ELSE /\ ny = [q \in Proc |-> IF q \in From(nx, head) /\ nx[q] = p THEN nx[p] ELSE nx[q]]
              /\ newHead = head
  PROVE  /\ Skips(nx, ny, p)
         /\ From(ny, newHead) = From(nx, head) \ {p}
         /\ NoLoop(ny, newHead)
<1> DEFINE L == From(nx, head)
<1>1. L \subseteq Proc /\ Closed(nx, L) /\ head \in L \cup {NULL} /\ p \in Pointer
  BY FromClosed DEF Pointer
<1>2. CASE p = head
  <2>1. From(nx, p) = {p} \cup From(nx, nx[p]) /\ p \notin From(nx, nx[p])
    BY <1>2, FromStep, NoReturn
  <2>2. NoLoop(nx, nx[p])
    BY <1>2, <2>1 DEF NoLoop
  <2> QED
    BY <1>2, <2>1, <2>2 DEF Skips
<1>3. CASE p # head
  <2>1. /\ ny = [q \in Proc |-> IF q \in L /\ nx[q] = p THEN nx[p] ELSE nx[q]]
        /\ newHead = head
    BY <1>3
  <2>2. Skips(nx, ny, p)
    BY <2>1 DEF Skips, Link
  <2>3. nx[p] # p \/ p \notin L
    <3> SUFFICES ASSUME nx[p] = p, p \in L PROVE FALSE
      OBVIOUS
    <3>1. {p} \in SUBSET L /\ {p} # {} /\ \A r \in {p} : nx[r] \in {p}
      OBVIOUS
    <3> QED
      BY <3>1 DEF NoLoop
  <2>4. Closed(ny, L \ {p})
    <3> SUFFICES ASSUME NEW r \in L \ {p} PROVE ny[r] \in (L \ {p}) \cup {NULL}
      BY DEF Closed
    <3>1. r \in Proc /\ nx[r] \in L \cup {NULL}
      BY <1>1 DEF Closed
    <3>2. CASE nx[r] = p
      <4>1. ny[r] = nx[p] /\ p \in L
        BY <2>1, <3>1, <3>2, ProcCount
      <4> QED
        BY <1>1, <2>3, <4>1 DEF Closed
    <3>3. CASE nx[r] # p
      BY <2>1, <3>1, <3>3
    <3> QED
      BY <3>2, <3>3
  <2>5. From(ny, head) \subseteq L \ {p}
    BY <1>1, <1>3, <2>2, <2>4, FromLeast DEF Skips
  <2> QED
    BY <2>1, <2>2, <2>5, SkippedFrom
<1> QED
  BY <1>2, <1>3

-----------------------------------------------------------------------------
(***************************************************************************)
(* The inductive invariant.  A process on the list that cannot be called   *)
(* is being called or is exiting, further down on the stack (Active); one  *)
(* that is owed a poll is ahead of a loop over the list, or poll_requested *)
(* is up (PollsKept); and a broadcast has still ahead of it whom it has    *)
(* not reached, and nobody whom it has, unless somebody started            *)
(* (BroadcastOK).                                                          *)
(***************************************************************************)
HasThread(S, p) == \E i \in DOMAIN S : S[i].k = "thread" /\ S[i].p = p
HasExit(S, p) == \E i \in DOMAIN S : S[i].k = "exit" /\ S[i].of = p

\* Where a loop goes on, and whom it is still to meet.
Cursor(nx, f) == IF f.at = "advance" THEN nx[f.p] ELSE f.p
Ahead(nx, f) == From(nx, Cursor(nx, f))
HasPoll(S, nx, p) == \E i \in DOMAIN S : S[i].k = "poll" /\ p \in Ahead(nx, S[i])

Active(L, st, S) ==
  \A p \in L : /\ st[p] = "CALLED" => HasThread(S, p)
               /\ st[p] = "NONE" => HasExit(S, p)

\* Only main() broadcasts.
InPlace(f, i) ==
  /\ f.k = "poll" => f.at \in {"visit", "advance"}
  /\ f.k = "bcast" => i = 1 /\ f.at \in {"visit", "deliver", "advance"}
Places(S) == \A i \in DOMAIN S : InPlace(S[i], i)

PollsKept ==
  \A p \in owed : /\ p \in Listed /\ needspoll[p]
                  /\ poll_requested \/ HasPoll(stack, next, p)

Broadcasting(S) == S # << >> /\ S[1].k = "bcast"
BroadcastOK ==
  /\ ~Broadcasting(stack) => walk = NoWalk
  /\ Broadcasting(stack) =>
       /\ Listed \subseteq walk.seen \cup walk.fresh \cup Ahead(next, stack[1])
       /\ walk.fresh = {} => /\ walk.twice = {}
                             /\ walk.seen \cap Ahead(next, stack[1]) = {}
                             /\ NoLoop(next, Cursor(next, stack[1]))

Rest == /\ NoLoop(next, process_list) /\ Active(Listed, state, stack) /\ Places(stack)
        /\ PollsKept /\ BroadcastOK
LInv == IInv /\ Rest

-----------------------------------------------------------------------------
(* What pushing a frame, moving on in one and returning leave on the stack. *)

KeepsCalls(S, T) ==
  \A p \in Proc : /\ HasThread(S, p) => HasThread(T, p)
                  /\ HasExit(S, p) => HasExit(T, p)
KeepsPolls(S, T, nx) == \A p \in Proc : HasPoll(S, nx, p) => HasPoll(T, nx, p)
KeepsPlaces(S, T, nx) ==
  /\ Places(S) => Places(T)
  /\ Broadcasting(S) <=> Broadcasting(T)
  /\ Broadcasting(S) => Cursor(nx, T[1]) = Cursor(nx, S[1])
Keeps(S, T, nx) == KeepsCalls(S, T) /\ KeepsPolls(S, T, nx) /\ KeepsPlaces(S, T, nx)

LEMMA KeepsTrans ==
  ASSUME NEW S, NEW T, NEW U, NEW nx, Keeps(S, T, nx), Keeps(T, U, nx)
  PROVE  Keeps(S, U, nx)
BY DEF Keeps, KeepsCalls, KeepsPolls, KeepsPlaces

LEMMA PushKeeps ==
  ASSUME NEW S \in Seq(FrameType), NEW f \in FrameType, NEW nx,
         f.k # "bcast", f.k = "poll" => f.at = "visit"
  PROVE  LET T == Append(S, f)
         IN  /\ Keeps(S, T, nx)
             /\ T \in Seq(FrameType)
             /\ f.k = "thread" => HasThread(T, f.p)
             /\ f.k = "exit" => HasExit(T, f.of)
             /\ \A p \in Proc : f.k = "poll" /\ p \in Ahead(nx, f) => HasPoll(T, nx, p)
<1> DEFINE T == Append(S, f)
           n == Len(S)
<1>1. /\ T \in Seq(FrameType) /\ n \in Nat /\ DOMAIN S = 1..n /\ DOMAIN T = 1..(n + 1)
      /\ \A i \in 1..n : T[i] = S[i]
      /\ T[n + 1] = f
  BY AppendProperties
<1>2. /\ \A i \in 1..(n + 1) : i \in 1..n \/ i = n + 1
      /\ \A i \in 1..n : i \in 1..(n + 1)
      /\ n + 1 \in 1..(n + 1)
  BY <1>1
<1>3. (S = << >> <=> n = 0) /\ T # << >>
  BY <1>1, <1>2, EmptySeq
<1> HIDE DEF T, n
<1>4. KeepsCalls(S, T)
  BY <1>1, <1>2 DEF HasThread, HasExit, KeepsCalls
<1>5. KeepsPolls(S, T, nx)
  BY <1>1, <1>2 DEF HasPoll, KeepsPolls
<1>6. Places(S) => Places(T)
  BY <1>1, <1>2 DEF Places, InPlace
<1>7. /\ Broadcasting(S) <=> Broadcasting(T)
      /\ Broadcasting(S) => T[1] = S[1]
  <2>1. CASE n = 0
    BY <1>1, <1>3, <2>1 DEF Broadcasting
  <2>2. CASE n # 0
    <3>1. 1 \in 1..n
      BY <1>1, <2>2
    <3> QED
      BY <1>1, <1>3, <2>2, <3>1 DEF Broadcasting
  <2> QED
    BY <2>1, <2>2
<1>8. /\ f.k = "thread" => HasThread(T, f.p)
      /\ f.k = "exit" => HasExit(T, f.of)
      /\ \A p \in Proc : f.k = "poll" /\ p \in Ahead(nx, f) => HasPoll(T, nx, p)
  BY <1>1, <1>2 DEF HasThread, HasExit, HasPoll
<1> QED
  BY <1>1, <1>4, <1>5, <1>6, <1>7, <1>8 DEF Keeps, KeepsPlaces, T

\* The frames other than the one that moves on.
LEMMA MoveFrames ==
  ASSUME NEW S \in Seq(FrameType), S # << >>, NEW f \in FrameType,
         f.k = S[Len(S)].k, f.of = S[Len(S)].of,
         f.k = "thread" => f.p = S[Len(S)].p,
         InPlace(S[Len(S)], Len(S)) => InPlace(f, Len(S))
  PROVE  LET T == [S EXCEPT ![Len(S)] = f]
             g == S[Len(S)]
         IN  /\ T \in Seq(FrameType)
             /\ \A p \in Proc : (HasThread(S, p) => HasThread(T, p)) /\ (HasExit(S, p) => HasExit(T, p))
             /\ \A nx \in Link, p \in Proc : HasPoll(S, nx, p) =>
                  HasPoll(T, nx, p) \/ (f.k = "poll" /\ p \in Ahead(nx, g))
             /\ \A nx \in Link, p \in Proc : f.k = "poll" /\ p \in Ahead(nx, f) => HasPoll(T, nx, p)
             /\ Places(S) => Places(T)
             /\ Broadcasting(S) <=> Broadcasting(T)
             /\ Len(S) # 1 => T[1] = S[1]
             /\ Len(S) = 1 => T[1] = f
             /\ Places(S) /\ f.k = "bcast" => Len(S) = 1 /\ Broadcasting(S)
<1> DEFINE T == [S EXCEPT ![Len(S)] = f]
           n == Len(S)
           g == S[n]
<1>1. n \in Nat \ {0} /\ DOMAIN S = 1..n
  BY EmptySeq
<1>2. /\ T \in Seq(FrameType) /\ Len(T) = n /\ DOMAIN T = 1..n
      /\ \A j \in 1..n : T[j] = IF j = n THEN f ELSE S[j]
  BY <1>1, ExceptSeq
<1>3. n \in 1..n /\ 1 \in 1..n
  BY <1>1
<1>4. f.k = g.k /\ f.of = g.of /\ (f.k = "thread" => f.p = g.p)
      /\ (InPlace(g, n) => InPlace(f, n))
  OBVIOUS
<1>5. T # << >>
  BY <1>1, <1>2, EmptySeq
<1> HIDE DEF T, n, g
<1>6. \A p \in Proc : (HasThread(S, p) => HasThread(T, p)) /\ (HasExit(S, p) => HasExit(T, p))
  BY <1>1, <1>2, <1>4 DEF HasThread, HasExit, g
<1>7. \A nx \in Link, p \in Proc : HasPoll(S, nx, p) =>
        HasPoll(T, nx, p) \/ (f.k = "poll" /\ p \in Ahead(nx, g))
  BY <1>1, <1>2, <1>4 DEF HasPoll, g
<1>8. \A nx \in Link, p \in Proc : f.k = "poll" /\ p \in Ahead(nx, f) => HasPoll(T, nx, p)
  BY <1>1, <1>2, <1>3 DEF HasPoll
<1>9. Places(S) => Places(T)
  BY <1>1, <1>2, <1>4 DEF Places, g
<1>10. Broadcasting(S) <=> Broadcasting(T)
  BY <1>2, <1>3, <1>4, <1>5 DEF Broadcasting, g
<1>11. (n # 1 => T[1] = S[1]) /\ (n = 1 => T[1] = f)
  BY <1>2, <1>3
<1>12. Places(S) /\ f.k = "bcast" => n = 1 /\ Broadcasting(S)
  BY <1>1, <1>3, <1>4 DEF Places, InPlace, Broadcasting, g
<1> QED
  BY <1>2, <1>6, <1>7, <1>8, <1>9, <1>10, <1>11, <1>12 DEF T, n, g

LEMMA MoveKeeps ==
  ASSUME NEW S \in Seq(FrameType), S # << >>, NEW f \in FrameType, NEW nx \in Link,
         f.k = S[Len(S)].k, f.of = S[Len(S)].of,
         f.k = "thread" => f.p = S[Len(S)].p,
         InPlace(S[Len(S)], Len(S)) => InPlace(f, Len(S)),
         f.k \in {"poll", "bcast"} => Cursor(nx, f) = Cursor(nx, S[Len(S)])
  PROVE  Keeps(S, [S EXCEPT ![Len(S)] = f], nx)
<1> DEFINE T == [S EXCEPT ![Len(S)] = f]
           g == S[Len(S)]
<1>1. /\ T \in Seq(FrameType)
      /\ \A p \in Proc : (HasThread(S, p) => HasThread(T, p)) /\ (HasExit(S, p) => HasExit(T, p))
      /\ \A ny \in Link, p \in Proc : HasPoll(S, ny, p) =>
           HasPoll(T, ny, p) \/ (f.k = "poll" /\ p \in Ahead(ny, g))
      /\ \A ny \in Link, p \in Proc : f.k = "poll" /\ p \in Ahead(ny, f) => HasPoll(T, ny, p)
      /\ Places(S) => Places(T)
      /\ Broadcasting(S) <=> Broadcasting(T)
      /\ Len(S) # 1 => T[1] = S[1]
      /\ Len(S) = 1 => T[1] = f
      /\ Places(S) /\ f.k = "bcast" => Len(S) = 1 /\ Broadcasting(S)
  BY MoveFrames
<1>2. f.k \in {"poll", "bcast"} => Cursor(nx, f) = Cursor(nx, g)
  OBVIOUS
<1>3. Broadcasting(S) /\ Len(S) = 1 => g = S[1] /\ f.k = "bcast"
  BY DEF Broadcasting
<1> HIDE DEF T, g
<1>4. KeepsPolls(S, T, nx)
  BY <1>1, <1>2 DEF Ahead, KeepsPolls
<1>5. Broadcasting(S) => Cursor(nx, T[1]) = Cursor(nx, S[1])
  BY <1>1, <1>2, <1>3
<1>6. Keeps(S, T, nx)
  BY <1>1, <1>4, <1>5 DEF Keeps, KeepsCalls, KeepsPlaces
<1> QED
  BY <1>6 DEF T

LEMMA PopFrames ==
  ASSUME NEW S \in Seq(FrameType), S # << >>
  PROVE  LET T == SubSeq(S, 1, Len(S) - 1)
             g == S[Len(S)]
         IN  /\ T \in Seq(FrameType)
             /\ \A p \in Proc : HasThread(S, p) => HasThread(T, p) \/ (g.k = "thread" /\ g.p = p)
             /\ \A p \in Proc : HasExit(S, p) => HasExit(T, p) \/ (g.k = "exit" /\ g.of = p)
             /\ \A nx \in Link, p \in Proc : HasPoll(S, nx, p) =>
                  HasPoll(T, nx, p) \/ (g.k = "poll" /\ p \in Ahead(nx, g))
             /\ Places(S) => Places(T)
             /\ g.k # "bcast" => (Broadcasting(S) <=> Broadcasting(T))
             /\ Broadcasting(T) => T[1] = S[1]
             /\ Places(S) /\ g.k = "bcast" => T = << >>
<1> DEFINE T == SubSeq(S, 1, Len(S) - 1)
           n == Len(S)
           g == S[n]
<1>1. n \in Nat \ {0} /\ DOMAIN S = 1..n
  BY EmptySeq
<1>2. /\ T \in Seq(FrameType) /\ Len(T) = n - 1 /\ DOMAIN T = 1..(n - 1)
      /\ \A j \in 1..(n - 1) : T[j] = S[j]
  <2>1. \A i \in 1..(n - 1) : S[i] \in FrameType
    BY <1>1
  <2>2. /\ T \in Seq(FrameType)
        /\ Len(T) = IF 1 <= n - 1 THEN (n - 1) - 1 + 1 ELSE 0
        /\ \A i \in 1..((n - 1) - 1 + 1) : T[i] = S[1 + i - 1]
    BY <1>1, <2>1, SubSeqProperties
  <2> QED
    BY <1>1, <2>2
<1>3. /\ n \in Nat \ {0}
      /\ T \in Seq(FrameType) /\ Len(T) = n - 1
  BY <1>1, <1>2
<1> HIDE DEF T, n, g
<1>4. /\ \A i \in 1..n : i \in 1..(n - 1) \/ i = n
      /\ \A i \in 1..(n - 1) : i \in 1..n
      /\ n \in 1..n /\ 1 \in 1..n
      /\ n # 1 => 1 \in 1..(n - 1)
  BY <1>3
<1>10. T = << >> <=> n = 1
  <2>1. T = << >> <=> Len(T) = 0
    BY <1>3, EmptySeq
  <2> QED
    BY <1>3, <2>1
<1>5. /\ \A p \in Proc : HasThread(S, p) => HasThread(T, p) \/ (g.k = "thread" /\ g.p = p)
      /\ \A p \in Proc : HasExit(S, p) => HasExit(T, p) \/ (g.k = "exit" /\ g.of = p)
  BY <1>1, <1>2, <1>4 DEF HasThread, HasExit, g
<1>6. \A nx \in Link, p \in Proc : HasPoll(S, nx, p) =>
        HasPoll(T, nx, p) \/ (g.k = "poll" /\ p \in Ahead(nx, g))
  BY <1>1, <1>2, <1>4 DEF HasPoll, g
<1>7. Places(S) => Places(T)
  BY <1>1, <1>2, <1>4 DEF Places
<1>8. /\ Broadcasting(T) => T[1] = S[1]
      /\ g.k # "bcast" => (Broadcasting(S) <=> Broadcasting(T))
  BY <1>2, <1>4, <1>10 DEF Broadcasting, g
<1>9. Places(S) /\ g.k = "bcast" => T = << >>
  BY <1>1, <1>4, <1>10 DEF Places, InPlace, g
<1> QED
  BY <1>2, <1>5, <1>6, <1>7, <1>8, <1>9 DEF T, n, g

LEMMA PopKeeps ==
  ASSUME NEW S \in Seq(FrameType), S # << >>, NEW nx \in Link,
         S[Len(S)].k \notin {"thread", "exit", "poll", "bcast"}
  PROVE  Keeps(S, SubSeq(S, 1, Len(S) - 1), nx)
<1> DEFINE T == SubSeq(S, 1, Len(S) - 1)
           g == S[Len(S)]
<1>1. /\ T \in Seq(FrameType)
      /\ \A p \in Proc : HasThread(S, p) => HasThread(T, p) \/ (g.k = "thread" /\ g.p = p)
      /\ \A p \in Proc : HasExit(S, p) => HasExit(T, p) \/ (g.k = "exit" /\ g.of = p)
      /\ \A ny \in Link, p \in Proc : HasPoll(S, ny, p) =>
           HasPoll(T, ny, p) \/ (g.k = "poll" /\ p \in Ahead(ny, g))
      /\ Places(S) => Places(T)
      /\ g.k # "bcast" => (Broadcasting(S) <=> Broadcasting(T))
      /\ Broadcasting(T) => T[1] = S[1]
      /\ Places(S) /\ g.k = "bcast" => T = << >>
  BY PopFrames
<1>2. g.k \notin {"thread", "exit", "poll", "bcast"}
  OBVIOUS
<1> HIDE DEF T, g
<1>3. Keeps(S, T, nx)
  BY <1>1, <1>2 DEF Keeps, KeepsCalls, KeepsPolls, KeepsPlaces
<1> QED
  BY <1>3 DEF T

-----------------------------------------------------------------------------
(* Steps that leave the list alone. *)

LEMMA ListTypes ==
  ASSUME IInv
  PROVE  /\ next \in Link /\ process_list \in Pointer
         /\ state \in StateType /\ stack \in Seq(FrameType)
         /\ needspoll \in [Proc -> BOOLEAN] /\ poll_requested \in BOOLEAN
         /\ owed \in SUBSET Proc
         /\ Listed \subseteq Proc
         /\ \A p \in Proc : OnList(p) <=> p \in Listed
<1>1. next \in Link /\ process_list \in Pointer
  BY DEF IInv, TypeOK, Link
<1>2. Listed \subseteq Proc
  BY <1>1, FromClosed DEF Listed
<1>3. \A p \in Proc : OnList(p) <=> p \in Listed
  BY DEF OnList, Follow, Listed, From, Chained
<1> QED
  BY <1>1, <1>2, <1>3 DEF IInv, TypeOK, StateType

LEMMA ActiveKept ==
  ASSUME NEW L \in SUBSET Proc, NEW st, NEW S, NEW T, Active(L, st, S), KeepsCalls(S, T)
  PROVE  Active(L, st, T)
BY DEF Active, KeepsCalls

LEMMA QuietStep ==
  ASSUME IInv, Rest, KeepsPlaces(stack, stack', next),
         UNCHANGED <<process_list, next, walk>>,
         Active(Listed, state', stack'),
         \A p \in owed' : /\ p \in Listed /\ needspoll'[p]
                          /\ poll_requested' \/ HasPoll(stack', next, p)
  PROVE  Rest'
<1>1. Listed' = Listed
  BY DEF Listed
<1>2. BroadcastOK'
  <2>1. Broadcasting(stack') <=> Broadcasting(stack)
    BY DEF KeepsPlaces
  <2>2. Broadcasting(stack) => Cursor(next, stack'[1]) = Cursor(next, stack[1])
    BY DEF KeepsPlaces
  <2>3. Broadcasting(stack) => Ahead(next, stack'[1]) = Ahead(next, stack[1])
    BY <2>2 DEF Ahead
  <2> QED
    BY <1>1, <2>1, <2>2, <2>3 DEF BroadcastOK, Rest
<1>3. PollsKept'
  BY <1>1 DEF PollsKept
<1>4. Places(stack')
  BY DEF Rest, KeepsPlaces
<1> QED
  BY <1>1, <1>2, <1>3, <1>4 DEF Rest

\* Nobody's poll is asked for or served.
LEMMA ControlStep ==
  ASSUME IInv, Rest, KeepsPolls(stack, stack', next), KeepsPlaces(stack, stack', next),
         UNCHANGED <<process_list, next, walk>>, UNCHANGED pollVars,
         Active(Listed, state', stack')
  PROVE  Rest'
<1>1. \A p \in owed' : /\ p \in Listed /\ needspoll'[p]
                       /\ poll_requested' \/ HasPoll(stack', next, p)
  BY ListTypes DEF Rest, PollsKept, KeepsPolls, pollVars
<1> QED
  BY <1>1, QuietStep

LEMMA StillStep ==
  ASSUME IInv, Rest, Keeps(stack, stack', next),
         UNCHANGED <<process_list, next, walk>>, UNCHANGED pollVars, UNCHANGED state
  PROVE  Rest'
<1>1. Active(Listed, state', stack')
  BY ListTypes, ActiveKept DEF Rest, Keeps
<1> QED
  BY <1>1, ControlStep DEF Keeps

\* Keeping the stack of a call, which lies on S.
LEMMA CallKeeps ==
  ASSUME NEW L \in SUBSET Proc, NEW st \in StateType, NEW S \in Seq(FrameType),
         NEW p \in Proc, NEW ev \in Ev \cup {"NONE"}, Call(st, S, p, ev),
         Active(L, st, S), NEW nx
  PROVE  Active(L, state', stack') /\ Keeps(S, stack', nx) /\ stack' \in Seq(FrameType)
<1>1. CASE ~Callable(st, p)
  <2>1. state' = st /\ stack' = S
    BY <1>1 DEF Call
  <2>2. Keeps(S, S, nx)
    BY DEF Keeps, KeepsCalls, KeepsPolls, KeepsPlaces
  <2> QED
    BY <2>1, <2>2
<1>2. CASE Callable(st, p)
  <2> DEFINE f == [Frame("thread", "run", p) EXCEPT !.ev = ev]
  <2>1. state' = [st EXCEPT ![p] = "CALLED"] /\ stack' = Append(S, f)
    BY <1>2 DEF Call
  <2>2. f \in FrameType /\ f.k = "thread" /\ f.p = p
    BY BoundAssumption DEF Frame, FrameType, Pointer, Kind, Place
  <2> HIDE DEF f
  <2>3. Keeps(S, stack', nx) /\ stack' \in Seq(FrameType) /\ HasThread(stack', p)
    BY <2>1, <2>2, PushKeeps
  <2>4. Active(L, st, stack')
    BY <2>3, ActiveKept DEF Keeps
  <2>5. \A q \in Proc : state'[q] = IF q = p THEN "CALLED" ELSE st[q]
    BY <2>1 DEF StateType
  <2>6. Active(L, state', stack')
    BY <2>3, <2>4, <2>5 DEF Active
  <2> QED
    BY <2>3, <2>6
<1> QED
  BY <1>1, <1>2

LEMMA KeepsSame ==
  ASSUME NEW S, NEW nx
  PROVE  Keeps(S, S, nx)
BY DEF Keeps, KeepsCalls, KeepsPolls, KeepsPlaces

LEMMA RunningActive ==
  ASSUME NEW L \in SUBSET Proc, NEW st \in StateType, NEW S, NEW p \in Proc,
         Active(L, st, S)
  PROVE  /\ [st EXCEPT ![p] = "RUNNING"] \in StateType
         /\ Active(L, [st EXCEPT ![p] = "RUNNING"], S)
<1>1. \A q \in Proc : [st EXCEPT ![p] = "RUNNING"][q] = IF q = p THEN "RUNNING" ELSE st[q]
  BY DEF StateType
<1> QED
  BY <1>1 DEF Active, StateType

\* The running frame moves on and keeps its cursor.
LEMMA MoveTop ==
  ASSUME IInv, stack # << >>, NEW f \in FrameType,
         f.k = Top.k, f.of = Top.of, f.k = "thread" => f.p = Top.p,
         InPlace(Top, Len(stack)) => InPlace(f, Len(stack)),
         f.k \in {"poll", "bcast"} => Cursor(next, f) = Cursor(next, Top)
  PROVE  Keeps(stack, Replace(f), next) /\ Replace(f) \in Seq(FrameType)
<1>1. stack \in Seq(FrameType) /\ next \in Link
  BY ListTypes
<1>2. Keeps(stack, Replace(f), next)
  BY <1>1, MoveKeeps DEF Replace, Top
<1>3. Replace(f) \in Seq(FrameType)
  <2>1. Len(stack) \in Nat \ {0}
    BY <1>1, EmptySeq
  <2>2. Len(stack) \in 1..Len(stack)
    BY <2>1
  <2> QED
    BY <1>1, <2>2, ExceptSeq DEF Replace
<1> QED
  BY <1>2, <1>3

LEMMA CountKeeps ==
  ASSUME IInv, InThread, Top.n < MaxOps
  PROVE  /\ Keeps(stack, Counted, next)
         /\ \A nx \in Link : Keeps(stack, Counted, nx)
         /\ Counted \in Seq(FrameType)
<1> DEFINE f == [Top EXCEPT !.n = @ + 1]
<1>1. stack # << >> /\ Top \in FrameType /\ IsThread(Top)
  BY TopTyped DEF InThread
<1>2. f \in FrameType
  BY <1>1, BoundAssumption DEF FrameType
<1>3. f.k = Top.k /\ f.p = Top.p /\ f.of = Top.of /\ f.at = Top.at
  BY <1>1 DEF FrameType
<1>4. f.k \notin {"poll", "bcast"}
  BY <1>1, <1>3 DEF IsThread
<1> HIDE DEF f
<1>5. InPlace(Top, Len(stack)) => InPlace(f, Len(stack))
  BY <1>3, <1>4 DEF InPlace
<1>6. Keeps(stack, Replace(f), next) /\ Replace(f) \in Seq(FrameType)
  BY <1>1, <1>2, <1>3, <1>4, <1>5, MoveTop
<1>7. stack \in Seq(FrameType)
  BY ListTypes
<1>8. ASSUME NEW nx \in Link
      PROVE  Keeps(stack, Replace(f), nx)
  BY <1>1, <1>2, <1>3, <1>4, <1>5, <1>7, MoveKeeps DEF Replace, Top
<1> QED
  BY <1>6, <1>8 DEF Counted, f

\* exit_process is entered on the stack S.
LEMMA BeginExitKeeps ==
  ASSUME IInv, NEW S \in Seq(FrameType), NEW p \in Proc, NEW from \in Pointer,
         BeginExit(p, from, S),
         \A q \in Listed \ {p} : /\ state[q] = "CALLED" => HasThread(S, q)
                                 /\ state[q] = "NONE" => HasExit(S, q)
  PROVE  Active(Listed, state', stack') /\ Keeps(S, stack', next)
<1>1. CASE ~OnList(p)
  BY <1>1, ListTypes, KeepsSame DEF BeginExit, Active
<1>2. CASE OnList(p)
  <2> DEFINE f == ExitFrame(p, from)
  <2>1. state' = [state EXCEPT ![p] = "NONE"] /\ stack' = Append(S, f)
    BY <1>2 DEF BeginExit
  <2>2. f \in FrameType /\ f.k = "exit" /\ f.of = p
    BY BoundAssumption, ListTypes
       DEF ExitFrame, FrameType, Pointer, Kind, Place, IInv, TypeOK
  <2> HIDE DEF f
  <2>3. Keeps(S, stack', next) /\ HasExit(stack', p)
    BY <2>1, <2>2, PushKeeps
  <2>4. \A q \in Proc : state'[q] = IF q = p THEN "NONE" ELSE state[q]
    BY <2>1, ListTypes DEF StateType
  <2>5. Active(Listed, state', stack')
    BY <2>3, <2>4, ListTypes DEF Active, Keeps, KeepsCalls
  <2> QED
    BY <2>3, <2>5
<1> QED
  BY <1>1, <1>2

\* process_poll, whatever happens to the stack.
LEMMA RequestKeeps ==
  ASSUME IInv, Rest, NEW q \in Proc, RequestPoll(q), Keeps(stack, stack', next),
         UNCHANGED <<process_list, next, walk>>, UNCHANGED state
  PROVE  Rest'
<1>1. Active(Listed, state', stack')
  BY ListTypes, ActiveKept DEF Rest, Keeps
<1>2. CASE state[q] = "NONE"
  BY <1>1, <1>2, ControlStep DEF RequestPoll, Keeps
<1>3. CASE state[q] # "NONE"
  <2>1. /\ needspoll' = [needspoll EXCEPT ![q] = TRUE]
        /\ poll_requested' = TRUE
        /\ owed' = IF OnList(q) THEN owed \cup {q} ELSE owed
    BY <1>3 DEF RequestPoll
  <2>2. \A p \in owed' : p \in Listed /\ needspoll'[p]
    BY <2>1, ListTypes DEF Rest, PollsKept
  <2> QED
    BY <1>1, <2>1, <2>2, QuietStep DEF Keeps
<1> QED
  BY <1>2, <1>3

-----------------------------------------------------------------------------
(* What a running protothread does. *)

LEMMA CallingSteps ==
  ASSUME IInv, Rest,
         \/ \E to \in Pointer, ev \in UserEvent : ThreadPost(to, ev)
         \/ \E q \in Proc : ThreadExit(q) \/ ThreadPoll(q) \/ ThreadAddPollEvent(q)
         \/ \E q \in Proc, ev \in UserEvent : ThreadPostSynch(q, ev)
  PROVE  Rest'
<1>0. next \in Link /\ Listed \in SUBSET Proc /\ process_current \in Pointer
      /\ state \in StateType /\ Active(Listed, state, stack)
  BY ListTypes DEF IInv, TypeOK, Rest
<1>1. ASSUME NEW to \in Pointer, NEW ev \in UserEvent, ThreadPost(to, ev)
      PROVE  Rest'
  <2>1. Keeps(stack, stack', next)
    BY <1>1, CountKeeps DEF ThreadPost, MayCall
  <2> QED
    BY <1>1, <2>1, StillStep DEF ThreadPost, procVars
<1>2. ASSUME NEW q \in Proc, ThreadAddPollEvent(q)
      PROVE  Rest'
  <2>1. Keeps(stack, stack', next)
    BY <1>2, CountKeeps DEF ThreadAddPollEvent, MayCall
  <2> QED
    BY <1>2, <2>1, StillStep DEF ThreadAddPollEvent
<1>3. ASSUME NEW q \in Proc, ThreadPoll(q)
      PROVE  Rest'
  <2>1. Keeps(stack, stack', next)
    BY <1>3, CountKeeps DEF ThreadPoll, MayCall
  <2> QED
    BY <1>3, <2>1, RequestKeeps DEF ThreadPoll, procVars
<1>4. ASSUME NEW q \in Proc, ThreadExit(q)
      PROVE  Rest'
  <2>1. Keeps(stack, Counted, next) /\ Counted \in Seq(FrameType)
    BY <1>4, CountKeeps DEF ThreadExit, MayCall
  <2>2. Active(Listed, state, Counted)
    BY <1>0, <2>1, ActiveKept DEF Keeps
  <2>3. BeginExit(q, process_current, Counted)
    BY <1>4 DEF ThreadExit
  <2>6. \A r \in Listed \ {q} : /\ state[r] = "CALLED" => HasThread(Counted, r)
                                /\ state[r] = "NONE" => HasExit(Counted, r)
    BY <2>2 DEF Active
  <2> HIDE DEF Counted
  <2>4. Active(Listed, state', stack') /\ Keeps(Counted, stack', next)
    BY <1>0, <2>1, <2>3, <2>6, BeginExitKeeps
  <2>5. Keeps(stack, stack', next)
    BY <2>1, <2>4, KeepsTrans
  <2> QED
    BY <1>4, <2>4, <2>5, ControlStep DEF ThreadExit, Keeps
<1>5. ASSUME NEW q \in Proc, NEW ev \in UserEvent, ThreadPostSynch(q, ev)
      PROVE  Rest'
  <2> DEFINE f == [Frame("synch", "run", NULL) EXCEPT !.saved = process_current]
             S == Append(Counted, f)
  <2>1. Keeps(stack, Counted, next) /\ Counted \in Seq(FrameType)
    BY <1>5, CountKeeps DEF ThreadPostSynch, MayCall
  <2>2. f \in FrameType /\ f.k = "synch"
    BY <1>0, BoundAssumption DEF Frame, FrameType, Pointer, Kind, Place
  <2>3. Call(state, S, q, ev)
    BY <1>5 DEF ThreadPostSynch
  <2> HIDE DEF f
  <2>4. Keeps(Counted, S, next) /\ S \in Seq(FrameType)
    BY <2>1, <2>2, PushKeeps
  <2> HIDE DEF S
  <2>5. Keeps(stack, S, next)
    BY <2>1, <2>4, KeepsTrans
  <2>6. Active(Listed, state, S)
    BY <1>0, <2>5, ActiveKept DEF Keeps
  <2>7. ev \in Ev \cup {"NONE"}
    BY DEF Ev
  <2>8. Active(Listed, state', stack') /\ Keeps(S, stack', next)
    BY <1>0, <2>3, <2>4, <2>6, <2>7, CallKeeps
  <2>9. Keeps(stack, stack', next)
    BY <2>5, <2>8, KeepsTrans
  <2> QED
    BY <1>5, <2>8, <2>9, ControlStep DEF ThreadPostSynch, Keeps
<1> QED
  BY <1>1, <1>2, <1>3, <1>4, <1>5

\* What is left on the stack by a frame that returns.
LEMMA PopTop ==
  ASSUME IInv, stack # << >>
  PROVE  /\ Below \in Seq(FrameType)
         /\ \A p \in Proc : HasThread(stack, p) => HasThread(Below, p) \/ (Top.k = "thread" /\ Top.p = p)
         /\ \A p \in Proc : HasExit(stack, p) => HasExit(Below, p) \/ (Top.k = "exit" /\ Top.of = p)
         /\ \A nx \in Link, p \in Proc : HasPoll(stack, nx, p) =>
              HasPoll(Below, nx, p) \/ (Top.k = "poll" /\ p \in Ahead(nx, Top))
         /\ Places(stack) => Places(Below)
         /\ Top.k # "bcast" => (Broadcasting(stack) <=> Broadcasting(Below))
         /\ Broadcasting(Below) => Below[1] = stack[1]
         /\ Places(stack) /\ Top.k = "bcast" => Below = << >>
<1>1. stack \in Seq(FrameType)
  BY ListTypes
<1> QED
  BY <1>1, PopFrames DEF Below, Top

LEMMA ReturningSteps ==
  ASSUME IInv, Rest, ThreadYield \/ ThreadEnd \/ ByeReturn \/ SynchReturn
  PROVE  Rest'
<1>0. /\ next \in Link /\ Listed \in SUBSET Proc /\ stack # << >> /\ stack \in Seq(FrameType)
      /\ state \in StateType /\ Active(Listed, state, stack)
  BY ListTypes DEF IInv, TypeOK, Rest, ThreadYield, ThreadEnd, ByeReturn, SynchReturn, Running
<1>1. CASE ByeReturn \/ SynchReturn
  <2>1. Top.k \notin {"thread", "exit", "poll", "bcast"} /\ stack' = Below
    BY <1>1 DEF ByeReturn, SynchReturn, Running
  <2>2. Keeps(stack, stack', next)
    BY <1>0, <2>1, PopKeeps DEF Top, Below
  <2> QED
    BY <1>1, <2>2, StillStep DEF ByeReturn, SynchReturn, procVars
<1>2. CASE ThreadYield \/ ThreadEnd
  <2>1. Top.k = "thread" /\ Top.p \in Proc
    <3>1. Top.k = "thread"
      BY <1>2 DEF ThreadYield, ThreadEnd, Running
    <3>2. Top \in FrameType /\ FrameOK(Top)
      BY <1>0, TopTyped
    <3> QED
      BY <3>1, <3>2 DEF FrameOK, IsThread, FrameType, Pointer
  <2>2. /\ Below \in Seq(FrameType)
        /\ \A p \in Proc \ {Top.p} : HasThread(stack, p) => HasThread(Below, p)
        /\ \A p \in Proc : HasExit(stack, p) => HasExit(Below, p)
        /\ KeepsPolls(stack, Below, next)
        /\ KeepsPlaces(stack, Below, next)
    BY <1>0, <2>1, PopTop DEF KeepsPolls, KeepsPlaces
  <2>3. \A q \in Listed \ {Top.p} : /\ state[q] = "CALLED" => HasThread(Below, q)
                                    /\ state[q] = "NONE" => HasExit(Below, q)
    <3> SUFFICES ASSUME NEW q \in Listed \ {Top.p}
                 PROVE  /\ state[q] = "CALLED" => HasThread(Below, q)
                        /\ state[q] = "NONE" => HasExit(Below, q)
      OBVIOUS
    <3>1. q \in Proc \ {Top.p}
      BY <1>0
    <3> HIDE DEF Below
    <3>2. /\ state[q] = "CALLED" => HasThread(stack, q)
          /\ state[q] = "NONE" => HasExit(stack, q)
      BY <1>0 DEF Active
    <3> QED
      BY <2>2, <3>1, <3>2
  <2>4. CASE ThreadYield
    <3>1. state' = [state EXCEPT ![Top.p] = "RUNNING"] /\ stack' = Below
      BY <2>4 DEF ThreadYield
    <3>2. \A q \in Proc : state'[q] = IF q = Top.p THEN "RUNNING" ELSE state[q]
      BY <1>0, <3>1 DEF StateType
    <3>3. Active(Listed, state', stack')
      BY <1>0, <2>3, <3>1, <3>2 DEF Active
    <3> QED
      BY <2>2, <2>4, <3>1, <3>3, ControlStep DEF ThreadYield
  <2>5. CASE ThreadEnd
    <3>1. BeginExit(Top.p, Top.p, Below) /\ Top.p \in Pointer
      BY <2>1, <2>5 DEF ThreadEnd, Pointer
    <3>2. Active(Listed, state', stack') /\ Keeps(Below, stack', next)
      BY <2>1, <2>2, <2>3, <3>1, BeginExitKeeps
    <3>3. KeepsPolls(stack, stack', next) /\ KeepsPlaces(stack, stack', next)
      BY <2>2, <3>2 DEF Keeps, KeepsPolls, KeepsPlaces
    <3> QED
      BY <2>5, <3>2, <3>3, ControlStep DEF ThreadEnd
  <2> QED
    BY <1>2, <2>4, <2>5
<1> QED
  BY <1>1, <1>2

-----------------------------------------------------------------------------
(* The loops and the turns of process_run. *)

\* A first frame: no poll is owed when the stack is empty and none is asked for.
LEMMA FirstFrame ==
  ASSUME IInv, Rest, stack = << >>
  PROVE  /\ Active(Listed, state, << >>)
         /\ ~poll_requested => owed = {}
         /\ walk = NoWalk /\ ~Broadcasting(<< >>)
         /\ \A q \in Listed : state[q] = "RUNNING"
<1>1. \A q \in Proc : ~HasThread(stack, q) /\ ~HasExit(stack, q) /\ ~HasPoll(stack, next, q)
  BY DEF HasThread, HasExit, HasPoll
<1>2. ~Broadcasting(<< >>)
  BY DEF Broadcasting
<1>3. Active(Listed, state, stack) /\ PollsKept /\ BroadcastOK
  BY DEF Rest
<1>4. \A q \in Listed : state[q] \notin {"CALLED", "NONE"}
  BY <1>1, <1>3, ListTypes DEF Active
<1>5. \A q \in Listed : state[q] = "RUNNING"
  BY <1>4, ListTypes DEF StateType
<1>6. ~poll_requested => owed = {}
  BY <1>1, <1>3, ListTypes DEF PollsKept
<1>7. walk = NoWalk
  BY <1>2, <1>3 DEF BroadcastOK
<1> QED
  BY <1>2, <1>3, <1>5, <1>6, <1>7

LEMMA TurnSteps ==
  ASSUME IInv, Rest, EnterLoop \/ RunPoll \/ RunCall
  PROVE  Rest'
<1>0. /\ next \in Link /\ process_list \in Pointer /\ Listed \in SUBSET Proc
      /\ Active(Listed, state, stack)
  BY ListTypes DEF Rest
<1>1. CASE EnterLoop
  BY <1>1, KeepsSame, StillStep DEF EnterLoop, procVars
<1>2. CASE RunCall
  <2> DEFINE f == Frame("docall", "visit", process_list)
  <2>1. stack = << >> /\ stack' = Append(<< >>, f)
    BY <1>2 DEF RunCall, InMain
  <2>2. f \in FrameType /\ f.k = "docall"
    BY <1>0, FrameTyped DEF Kind, Place
  <2> HIDE DEF f
  <2>3. Keeps(stack, stack', next)
    BY <2>1, <2>2, PushKeeps, EmptyOK
  <2> QED
    BY <1>2, <2>3, StillStep DEF RunCall, procVars
<1>3. CASE RunPoll
  <2> DEFINE f == Frame("poll", "visit", process_list)
  <2>0. stack = << >> /\ UNCHANGED <<process_list, next, walk, state, needspoll, owed>>
    BY <1>3 DEF RunPoll, InMain, procVars
  <2>1. CASE poll_requested
    <3>1. stack' = Append(<< >>, f)
      BY <1>3, <2>1 DEF RunPoll
    <3>2. f \in FrameType /\ f.k = "poll" /\ f.at = "visit" /\ f.p = process_list
      BY <1>0, FrameTyped DEF Kind, Place
    <3> HIDE DEF f
    <3>3. /\ Keeps(stack, stack', next)
          /\ \A p \in Proc : p \in Ahead(next, f) => HasPoll(stack', next, p)
      BY <2>0, <3>1, <3>2, PushKeeps, EmptyOK
    <3>4. Ahead(next, f) = Listed
      BY <3>2 DEF Ahead, Cursor, Listed
    <3>5. Active(Listed, state', stack')
      BY <1>0, <2>0, <3>3, ActiveKept DEF Keeps
    <3>6. \A p \in owed' : p \in Listed /\ needspoll'[p] /\ HasPoll(stack', next, p)
      BY <1>0, <2>0, <3>3, <3>4 DEF Rest, PollsKept
    <3> QED
      BY <2>0, <3>3, <3>5, <3>6, QuietStep DEF Keeps
  <2>2. CASE ~poll_requested
    <3>1. stack' = stack /\ owed' = {}
      BY <1>3, <2>0, <2>2, FirstFrame DEF RunPoll
    <3> QED
      BY <1>0, <2>0, <3>1, KeepsSame, QuietStep DEF Keeps
  <2> QED
    BY <2>1, <2>2
<1> QED
  BY <1>1, <1>2, <1>3

LEMMA EventStep ==
  ASSUME IInv, Rest, RunEvent
  PROVE  Rest'
<1> DEFINE e == events[fevent]
<1>0. /\ next \in Link /\ process_list \in Pointer /\ Listed \in SUBSET Proc
      /\ state \in StateType /\ Active(Listed, state, stack) /\ stack = << >>
      /\ UNCHANGED pollVars /\ UNCHANGED <<process_list, next, walk>>
  BY ListTypes DEF Rest, RunEvent, InMain, procVars
<1>1. CASE nevents = 0
  BY <1>0, <1>1, KeepsSame, StillStep DEF RunEvent, procVars
<1>2. CASE nevents # 0
  <2>1. e \in Entry
    BY DEF IInv, TypeOK
  <2>2. e.ev \in Ev \cup {"NONE"} /\ e.p \in Pointer
    BY <2>1 DEF Entry, Ev
  <2>3. CASE e.p # NULL
    <3> DEFINE st == IF e.ev = "INIT" THEN [state EXCEPT ![e.p] = "RUNNING"] ELSE state
    <3>1. Call(st, << >>, e.p, e.ev)
      BY <1>2, <2>3 DEF RunEvent
    <3>2. e.p \in Proc
      BY <2>2, <2>3 DEF Pointer
    <3>3. st \in StateType /\ Active(Listed, st, << >>)
      BY <1>0, <3>2, RunningActive
    <3> HIDE DEF st, e
    <3>4. Active(Listed, state', stack') /\ Keeps(stack, stack', next)
      BY <1>0, <2>2, <3>1, <3>2, <3>3, EmptyOK, CallKeeps
    <3> QED
      BY <1>0, <3>4, ControlStep DEF Keeps
  <2>4. CASE e.p = NULL
    <3> DEFINE f == [Frame("bcast", "visit", process_list) EXCEPT !.ev = e.ev]
    <3>1. stack' = <<f>> /\ UNCHANGED state
      BY <1>2, <2>4 DEF RunEvent
    <3>2. f.k = "bcast" /\ f.at = "visit" /\ f.p = process_list
      BY DEF Frame
    <3> HIDE DEF f, e
    <3>3. /\ Broadcasting(stack') /\ Cursor(next, stack'[1]) = process_list
          /\ Ahead(next, stack'[1]) = Listed
      BY <3>1, <3>2 DEF Broadcasting, Ahead, Cursor, Listed
    <3>4. walk' = NoWalk /\ Listed' = Listed
      BY <1>0, FirstFrame DEF Listed
    <3>5. BroadcastOK'
      BY <1>0, <3>3, <3>4 DEF BroadcastOK, NoWalk, Rest
    <3>6. Active(Listed, state', stack')
      BY <1>0, <3>1, FirstFrame DEF Active
    <3>7. Places(stack')
      BY <3>1, <3>2 DEF Places, InPlace
    <3>8. PollsKept'
      <4>1. \A p \in owed : poll_requested
        BY <1>0, FirstFrame
      <4> QED
        BY <1>0, <3>4, <4>1 DEF PollsKept, Rest, pollVars
    <3> QED
      BY <1>0, <3>4, <3>5, <3>6, <3>7, <3>8 DEF Rest
  <2> QED
    BY <2>3, <2>4
<1> QED
  BY <1>1, <1>2, ListTypes DEF IInv, TypeOK

LEMMA TopFrame ==
  ASSUME IInv, Rest, stack # << >>
  PROVE  /\ Top \in FrameType /\ FrameOK(Top)
         /\ InPlace(Top, Len(stack))
         /\ Top.k = "bcast" => Len(stack) = 1 /\ stack[1] = Top /\ Broadcasting(stack)
<1>1. Len(stack) \in Nat \ {0} /\ stack \in Seq(FrameType)
  BY TopTyped, ListTypes
<1>2. Len(stack) \in DOMAIN stack
  BY <1>1
<1>3. InPlace(Top, Len(stack))
  BY <1>2 DEF Rest, Places, Top
<1> QED
  BY <1>3, TopTyped DEF InPlace, Broadcasting, Top

LEMMA EndStep ==
  ASSUME IInv, Rest, LoopEnd
  PROVE  Rest'
<1>0. /\ next \in Link /\ Listed \in SUBSET Proc /\ stack # << >>
      /\ Active(Listed, state, stack) /\ Places(stack)
      /\ Top.k \in LoopKind /\ Top.at = "visit" /\ Top.p = NULL /\ stack' = Below
      /\ UNCHANGED <<process_list, next, state>> /\ UNCHANGED pollVars
  BY ListTypes DEF Rest, LoopEnd, AtPlace, Running, procVars
<1>1. Ahead(next, Top) = {}
  BY <1>0, FromNull DEF Ahead, Cursor
<1>2. /\ \A p \in Proc : HasThread(stack, p) => HasThread(Below, p)
      /\ \A p \in Proc : HasExit(stack, p) => HasExit(Below, p)
      /\ \A p \in Proc : HasPoll(stack, next, p) => HasPoll(Below, next, p)
      /\ Places(Below)
      /\ Top.k # "bcast" => (Broadcasting(stack) <=> Broadcasting(Below))
      /\ Broadcasting(Below) => Below[1] = stack[1]
      /\ Top.k = "bcast" => Below = << >>
  <2>1. Top.k \notin {"thread", "exit"}
    BY <1>0 DEF LoopKind
  <2> HIDE DEF Top, Below
  <2> QED
    BY <1>0, <1>1, <2>1, PopTop
<1> HIDE DEF Below
<1>3. CASE Top.k # "bcast"
  <2>1. Keeps(stack, stack', next)
    BY <1>0, <1>2, <1>3 DEF Keeps, KeepsCalls, KeepsPolls, KeepsPlaces
  <2>2. UNCHANGED walk
    BY <1>3 DEF LoopEnd
  <2> QED
    BY <1>0, <2>1, <2>2, StillStep
<1>4. CASE Top.k = "bcast"
  <2>1. walk' = NoWalk /\ Listed' = Listed /\ ~Broadcasting(stack')
    BY <1>0, <1>2, <1>4 DEF LoopEnd, Listed, Broadcasting
  <2>2. BroadcastOK'
    BY <2>1 DEF BroadcastOK
  <2>3. Active(Listed, state', stack')
    BY <1>0, <1>2, ActiveKept DEF KeepsCalls
  <2>4. PollsKept'
    BY <1>0, <1>2, <2>1 DEF Rest, PollsKept, pollVars
  <2> QED
    BY <1>0, <1>2, <2>1, <2>2, <2>3, <2>4 DEF Rest
<1> QED
  BY <1>3, <1>4

LEMMA AdvanceStep ==
  ASSUME IInv, Rest, LoopAdvance
  PROVE  Rest'
<1> DEFINE f == [Top EXCEPT !.at = "visit", !.p = next[Top.p]]
<1>0. /\ next \in Link /\ stack # << >> /\ Top.k \in LoopKind /\ Top.at = "advance"
      /\ stack' = Replace(f)
      /\ UNCHANGED <<process_list, next, state, walk>> /\ UNCHANGED pollVars
  BY ListTypes DEF LoopAdvance, AtPlace, Running, procVars
<1>1. Top \in FrameType /\ FrameOK(Top) /\ InPlace(Top, Len(stack))
  BY <1>0, TopFrame
<1>2. Top.p \in Proc /\ next[Top.p] \in Pointer
  BY <1>0, <1>1 DEF FrameOK, FrameType, Pointer, Link
<1>3. /\ f \in FrameType /\ f.k = Top.k /\ f.of = Top.of
      /\ f.at = "visit" /\ f.p = next[Top.p]
  BY <1>1, <1>2 DEF FrameType, Place
<1> HIDE DEF f
<1>4. InPlace(f, Len(stack))
  BY <1>0, <1>1, <1>3 DEF InPlace
<1>5. Cursor(next, f) = Cursor(next, Top) /\ f.k # "thread"
  BY <1>0, <1>3 DEF Cursor, LoopKind
<1>6. Keeps(stack, stack', next)
  BY <1>0, <1>3, <1>4, <1>5, MoveTop
<1> QED
  BY <1>0, <1>6, StillStep

LEMMA InnerStep ==
  ASSUME IInv, Rest, InnerPoll
  PROVE  Rest'
<1> DEFINE f == [Top EXCEPT !.at = "deliver"]
           g == Frame("poll", "visit", process_list)
           here == Replace(f)
<1>0. /\ next \in Link /\ process_list \in Pointer /\ Listed \in SUBSET Proc
      /\ stack # << >> /\ Top.k \in {"bcast", "docall"} /\ Top.at = "visit"
      /\ Active(Listed, state, stack)
      /\ UNCHANGED <<process_list, next, state, walk>> /\ UNCHANGED <<needspoll, owed>>
  BY ListTypes DEF Rest, InnerPoll, AtPlace, Running, procVars
<1>1. Top \in FrameType /\ InPlace(Top, Len(stack))
  BY <1>0, TopFrame
<1>2. f \in FrameType /\ f.k = Top.k /\ f.of = Top.of /\ f.at = "deliver" /\ f.p = Top.p
  BY <1>1 DEF FrameType, Place
<1>3. g \in FrameType /\ g.k = "poll" /\ g.at = "visit" /\ g.p = process_list
  BY <1>0, FrameTyped DEF Kind, Place
<1>4. stack' = IF poll_requested THEN Append(here, g) ELSE here
  BY DEF InnerPoll
<1> HIDE DEF f, g
<1>5. InPlace(f, Len(stack)) /\ Cursor(next, f) = Cursor(next, Top)
  BY <1>0, <1>1, <1>2 DEF InPlace, Cursor
<1>6. Keeps(stack, here, next) /\ here \in Seq(FrameType)
  BY <1>0, <1>2, <1>5, MoveTop
<1> HIDE DEF here
<1>7. CASE ~poll_requested
  <2>1. stack' = here /\ poll_requested' = poll_requested
    BY <1>4, <1>7, ListTypes DEF InnerPoll
  <2> QED
    BY <1>0, <1>6, <2>1, StillStep DEF pollVars
<1>8. CASE poll_requested
  <2>1. stack' = Append(here, g)
    BY <1>4, <1>8
  <2>2. /\ Keeps(here, stack', next)
        /\ \A p \in Proc : p \in Ahead(next, g) => HasPoll(stack', next, p)
    BY <1>3, <1>6, <2>1, PushKeeps
  <2>3. Keeps(stack, stack', next)
    BY <1>6, <2>2, KeepsTrans
  <2>4. Ahead(next, g) = Listed
    BY <1>3 DEF Ahead, Cursor, Listed
  <2>5. \A p \in owed' : p \in Listed /\ needspoll'[p] /\ HasPoll(stack', next, p)
    BY <1>0, <2>2, <2>4 DEF Rest, PollsKept
  <2>6. Active(Listed, state', stack')
    BY <1>0, <2>3, ActiveKept DEF Keeps
  <2> QED
    BY <1>0, <2>3, <2>5, <2>6, QuietStep DEF Keeps
<1> QED
  BY <1>7, <1>8

\* A do_poll loop passes a process.
LEMMA PassTop ==
  ASSUME IInv, Rest, stack # << >>, NEW f \in FrameType,
         Top.k = "poll", Top.at = "visit", Top.p \in Proc,
         f.k = "poll", f.of = Top.of, f.at \in {"visit", "advance"},
         Cursor(next, f) = next[Top.p]
  PROVE  /\ Replace(f) \in Seq(FrameType)
         /\ KeepsCalls(stack, Replace(f))
         /\ KeepsPlaces(stack, Replace(f), next)
         /\ \A q \in Proc \ {Top.p} : HasPoll(stack, next, q) => HasPoll(Replace(f), next, q)
<1> DEFINE T == [stack EXCEPT ![Len(stack)] = f]
           g == stack[Len(stack)]
<1>0. next \in Link /\ stack \in Seq(FrameType) /\ g = Top
  BY ListTypes DEF Top
<1>1. f.k = g.k /\ f.of = g.of /\ (f.k = "thread" => f.p = g.p)
      /\ (InPlace(g, Len(stack)) => InPlace(f, Len(stack)))
  BY <1>0 DEF InPlace
<1>2. /\ T \in Seq(FrameType)
      /\ \A p \in Proc : (HasThread(stack, p) => HasThread(T, p)) /\ (HasExit(stack, p) => HasExit(T, p))
      /\ \A ny \in Link, p \in Proc : HasPoll(stack, ny, p) =>
           HasPoll(T, ny, p) \/ (f.k = "poll" /\ p \in Ahead(ny, g))
      /\ \A ny \in Link, p \in Proc : f.k = "poll" /\ p \in Ahead(ny, f) => HasPoll(T, ny, p)
      /\ Places(stack) => Places(T)
      /\ Broadcasting(stack) <=> Broadcasting(T)
      /\ Len(stack) # 1 => T[1] = stack[1]
      /\ Len(stack) = 1 => T[1] = f
      /\ Places(stack) /\ f.k = "bcast" => Len(stack) = 1 /\ Broadcasting(stack)
  BY <1>0, <1>1, MoveFrames
<1>3. Broadcasting(stack) /\ Len(stack) = 1 => g.k = "bcast"
  BY DEF Broadcasting
<1> HIDE DEF T, g
<1>4. Ahead(next, g) = {Top.p} \cup Ahead(next, f)
  <2>1. Cursor(next, g) = Top.p
    BY <1>0 DEF Cursor
  <2> QED
    BY <1>0, <2>1, FromStep DEF Ahead
<1>5. \A q \in Proc \ {Top.p} : HasPoll(stack, next, q) => HasPoll(T, next, q)
  BY <1>0, <1>2, <1>4
<1>6. KeepsPlaces(stack, T, next)
  BY <1>0, <1>1, <1>2, <1>3 DEF KeepsPlaces
<1>7. KeepsCalls(stack, T)
  BY <1>2 DEF KeepsCalls
<1> QED
  BY <1>2, <1>5, <1>6, <1>7 DEF T, Replace

\* A process is called with POLL: its request is served.
LEMMA ServeStep ==
  ASSUME IInv, Rest, stack # << >>, NEW p \in Proc, NEW S \in Seq(FrameType),
         KeepsCalls(stack, S), KeepsPlaces(stack, S, next),
         \A q \in Proc \ {p} : HasPoll(stack, next, q) => HasPoll(S, next, q),
         needspoll' = [needspoll EXCEPT ![p] = FALSE], owed' = owed \ {p},
         Call([state EXCEPT ![p] = "RUNNING"], S, p, "POLL"),
         UNCHANGED <<process_list, next, walk>>, UNCHANGED poll_requested
  PROVE  Rest'
<1> DEFINE st == [state EXCEPT ![p] = "RUNNING"]
<1>0. /\ next \in Link /\ Listed \in SUBSET Proc /\ state \in StateType
      /\ needspoll \in [Proc -> BOOLEAN] /\ owed \in SUBSET Proc
      /\ Active(Listed, state, stack)
  BY ListTypes DEF Rest
<1>1. Active(Listed, state, S)
  BY <1>0, ActiveKept
<1>2. st \in StateType /\ Active(Listed, st, S)
  BY <1>0, <1>1, RunningActive
<1>3. Call(st, S, p, "POLL") /\ "POLL" \in Ev \cup {"NONE"}
  BY DEF Ev
<1> HIDE DEF st
<1>4. Active(Listed, state', stack') /\ Keeps(S, stack', next)
  BY <1>0, <1>2, <1>3, CallKeeps
<1>5. KeepsPlaces(stack, stack', next)
  BY <1>4 DEF Keeps, KeepsPlaces
<1>6. \A q \in owed' : /\ q \in Listed /\ needspoll'[q]
                       /\ poll_requested' \/ HasPoll(stack', next, q)
  BY <1>0, <1>4 DEF Keeps, KeepsPolls, Rest, PollsKept
<1> QED
  BY <1>4, <1>5, <1>6, QuietStep

LEMMA PollStep ==
  ASSUME IInv, Rest, PollVisit
  PROVE  Rest'
<1>0. /\ next \in Link /\ stack # << >> /\ Top.k = "poll" /\ Top.at = "visit" /\ Top.p # NULL
      /\ Listed \in SUBSET Proc /\ Active(Listed, state, stack)
      /\ owed \in SUBSET Proc /\ needspoll \in [Proc -> BOOLEAN]
      /\ UNCHANGED <<process_list, next, walk>> /\ UNCHANGED poll_requested
  BY ListTypes DEF Rest, PollVisit, AtPlace, Running
<1>1. Top \in FrameType
  BY <1>0, TopFrame
<1>2. Top.p \in Proc /\ next[Top.p] \in Pointer
  BY <1>0, <1>1 DEF FrameType, Pointer, Link
<1>3. CASE needspoll[Top.p]
  <2> DEFINE f == [Top EXCEPT !.at = "advance"]
  <2>1. CallPoll(Top.p)
    BY <1>3 DEF PollVisit
  <2>2. f \in FrameType /\ f.k = "poll" /\ f.of = Top.of /\ f.at = "advance" /\ f.p = Top.p
    BY <1>0, <1>1 DEF FrameType, Place
  <2>3. /\ needspoll' = [needspoll EXCEPT ![Top.p] = FALSE] /\ owed' = owed \ {Top.p}
        /\ Call([state EXCEPT ![Top.p] = "RUNNING"], Replace(f), Top.p, "POLL")
    BY <2>1 DEF CallPoll
  <2> HIDE DEF f
  <2>4. Cursor(next, f) = next[Top.p]
    BY <2>2 DEF Cursor
  <2>5. /\ Replace(f) \in Seq(FrameType)
        /\ KeepsCalls(stack, Replace(f))
        /\ KeepsPlaces(stack, Replace(f), next)
        /\ \A q \in Proc \ {Top.p} : HasPoll(stack, next, q) => HasPoll(Replace(f), next, q)
    BY <1>0, <1>2, <2>2, <2>4, PassTop
  <2> HIDE DEF Top
  <2> QED
    BY <1>0, <1>2, <2>3, <2>5, ServeStep
<1>4. CASE ~needspoll[Top.p]
  <2> DEFINE f == [Top EXCEPT !.p = next[Top.p]]
  <2>1. stack' = Replace(f) /\ UNCHANGED <<needspoll, owed, state>>
    BY <1>4 DEF PollVisit
  <2>2. f \in FrameType /\ f.k = "poll" /\ f.of = Top.of /\ f.at = "visit" /\ f.p = next[Top.p]
    BY <1>0, <1>1, <1>2 DEF FrameType
  <2> HIDE DEF f
  <2>3. Cursor(next, f) = next[Top.p]
    BY <2>2 DEF Cursor
  <2>4. /\ KeepsCalls(stack, stack')
        /\ KeepsPlaces(stack, stack', next)
        /\ \A q \in Proc \ {Top.p} : HasPoll(stack, next, q) => HasPoll(stack', next, q)
    BY <1>0, <1>2, <2>1, <2>2, <2>3, PassTop
  <2>5. Active(Listed, state', stack')
    BY <1>0, <2>1, <2>4, ActiveKept
  <2>6. \A q \in owed' : /\ q \in Listed /\ needspoll'[q]
                         /\ poll_requested' \/ HasPoll(stack', next, q)
    BY <1>0, <1>4, <2>1, <2>4 DEF Rest, PollsKept
  <2> QED
    BY <1>0, <2>4, <2>5, <2>6, QuietStep
<1> QED
  BY <1>3, <1>4

LEMMA CallStep ==
  ASSUME IInv, Rest, CallDeliver
  PROVE  Rest'
<1> DEFINE f == [Top EXCEPT !.at = "advance"]
<1>0. /\ next \in Link /\ stack # << >> /\ Top.k = "docall" /\ Top.at = "deliver"
      /\ UNCHANGED <<process_list, next, walk>> /\ UNCHANGED poll_requested
  BY ListTypes DEF CallDeliver, AtPlace, Running
<1>1. Top \in FrameType /\ FrameOK(Top)
  BY <1>0, TopFrame
<1>2. Top.p \in Proc
  BY <1>0, <1>1 DEF FrameOK, FrameType, Pointer
<1>3. f \in FrameType /\ f.k = "docall" /\ f.of = Top.of
  BY <1>0, <1>1 DEF FrameType, Place
<1>4. \/ CallPoll(Top.p)
      \/ stack' = Replace(f) /\ UNCHANGED <<needspoll, owed, state>>
  BY DEF CallDeliver
<1>5. CallPoll(Top.p) =>
        /\ needspoll' = [needspoll EXCEPT ![Top.p] = FALSE] /\ owed' = owed \ {Top.p}
        /\ Call([state EXCEPT ![Top.p] = "RUNNING"], Replace(f), Top.p, "POLL")
  BY DEF CallPoll
<1> HIDE DEF f
<1>6. InPlace(f, Len(stack))
  BY <1>3 DEF InPlace
<1>7. Keeps(stack, Replace(f), next) /\ Replace(f) \in Seq(FrameType)
  BY <1>0, <1>3, <1>6, MoveTop
<1> HIDE DEF Top
<1>8. CASE CallPoll(Top.p)
  BY <1>0, <1>2, <1>5, <1>7, <1>8, ServeStep DEF Keeps, KeepsPolls
<1>9. CASE stack' = Replace(f) /\ UNCHANGED <<needspoll, owed, state>>
  BY <1>0, <1>7, <1>9, StillStep DEF pollVars
<1> QED
  BY <1>4, <1>8, <1>9

\* A broadcast calls the process it stands on.
LEMMA BroadcastStep ==
  ASSUME IInv, Rest, BroadcastDeliver
  PROVE  Rest'
<1> DEFINE f == [Top EXCEPT !.at = "advance"]
           S == Replace(f)
           p == Top.p
<1>0. /\ next \in Link /\ stack # << >> /\ Top.k = "bcast" /\ Top.at = "deliver"
      /\ Listed \in SUBSET Proc /\ Active(Listed, state, stack) /\ Places(stack)
      /\ stack \in Seq(FrameType) /\ state \in StateType
      /\ UNCHANGED <<process_list, next>> /\ UNCHANGED pollVars
  BY ListTypes DEF Rest, BroadcastDeliver, AtPlace, Running
<1>1. /\ Top \in FrameType /\ FrameOK(Top)
      /\ Len(stack) = 1 /\ stack[1] = Top /\ Broadcasting(stack)
  BY <1>0, TopFrame
<1>2. p \in Proc /\ Top.ev \in Ev \cup {"NONE"}
  BY <1>0, <1>1 DEF FrameOK, FrameType, Pointer
<1>3. f \in FrameType /\ f.k = "bcast" /\ f.of = Top.of /\ f.at = "advance" /\ f.p = p
  BY <1>0, <1>1 DEF FrameType, Place
<1>4. Call(state, S, p, Top.ev)
  BY DEF BroadcastDeliver
<1>5. walk' = IF Callable(state, p)
                THEN [walk EXCEPT !.seen = @ \cup {p}, !.twice = @ \cup ({p} \cap walk.seen)]
                ELSE walk
  BY DEF BroadcastDeliver
<1>6. walk.seen \in SUBSET Proc /\ walk.fresh \in SUBSET Proc /\ walk.twice \in SUBSET Proc
      /\ walk \in [seen : SUBSET Proc, twice : SUBSET Proc, fresh : SUBSET Proc]
  BY DEF IInv, TypeOK
<1> HIDE DEF f
<1>7. /\ S \in Seq(FrameType) /\ KeepsCalls(stack, S) /\ KeepsPolls(stack, S, next)
      /\ Places(S) /\ Broadcasting(S) /\ S[1] = f
  <2> DEFINE T == [stack EXCEPT ![Len(stack)] = f]
             g == stack[Len(stack)]
  <2>1. f.k = g.k /\ f.of = g.of /\ (f.k = "thread" => f.p = g.p)
        /\ (InPlace(g, Len(stack)) => InPlace(f, Len(stack)))
    BY <1>0, <1>1, <1>3 DEF InPlace
  <2>2. /\ T \in Seq(FrameType)
        /\ \A q \in Proc : (HasThread(stack, q) => HasThread(T, q)) /\ (HasExit(stack, q) => HasExit(T, q))
        /\ \A ny \in Link, q \in Proc : HasPoll(stack, ny, q) =>
             HasPoll(T, ny, q) \/ (f.k = "poll" /\ q \in Ahead(ny, g))
        /\ \A ny \in Link, q \in Proc : f.k = "poll" /\ q \in Ahead(ny, f) => HasPoll(T, ny, q)
        /\ Places(stack) => Places(T)
        /\ Broadcasting(stack) <=> Broadcasting(T)
        /\ Len(stack) # 1 => T[1] = stack[1]
        /\ Len(stack) = 1 => T[1] = f
        /\ Places(stack) /\ f.k = "bcast" => Len(stack) = 1 /\ Broadcasting(stack)
    BY <1>0, <1>3, <2>1, MoveFrames
  <2> HIDE DEF T
  <2>3. /\ T \in Seq(FrameType) /\ KeepsCalls(stack, T) /\ KeepsPolls(stack, T, next)
        /\ Places(T) /\ Broadcasting(T) /\ T[1] = f
    BY <1>0, <1>1, <1>3, <2>2 DEF KeepsCalls, KeepsPolls
  <2> QED
    BY <2>3 DEF T, Replace
<1> HIDE DEF S
<1>8. Active(Listed, state, S)
  BY <1>0, <1>7, ActiveKept
<1>9. Active(Listed, state', stack') /\ Keeps(S, stack', next)
  <2> HIDE DEF p
  <2> QED
    BY <1>0, <1>2, <1>4, <1>7, <1>8, CallKeeps
<1>10. /\ Places(stack') /\ Broadcasting(stack') /\ Cursor(next, stack'[1]) = next[p]
       /\ KeepsPolls(stack, stack', next)
  BY <1>3, <1>7, <1>9 DEF Keeps, KeepsPlaces, KeepsPolls, Cursor
<1>11. Ahead(next, stack'[1]) = From(next, next[p])
  BY <1>10 DEF Ahead
<1>12. Cursor(next, stack[1]) = p /\ Ahead(next, stack[1]) = {p} \cup From(next, next[p])
  <2>1. Cursor(next, stack[1]) = p
    BY <1>0, <1>1 DEF Cursor
  <2> QED
    BY <1>0, <1>2, <2>1, FromStep DEF Ahead
<1>13. p \in Listed => Callable(state, p)
  <2>1. stack \in Seq(FrameType) /\ DOMAIN stack = 1..1
    BY <1>0, <1>1
  <2>2. ~HasThread(stack, p) /\ ~HasExit(stack, p)
    BY <1>0, <1>1, <2>1 DEF HasThread, HasExit
  <2> HIDE DEF p
  <2>3. p \in Listed => state[p] \notin {"CALLED", "NONE"}
    BY <1>0, <2>2 DEF Active
  <2> QED
    BY <1>0, <1>2, <2>3 DEF Callable, StateType
<1>14. /\ Listed \subseteq walk.seen \cup walk.fresh \cup ({p} \cup From(next, next[p]))
       /\ walk.fresh = {} => /\ walk.twice = {}
                             /\ walk.seen \cap ({p} \cup From(next, next[p])) = {}
                             /\ NoLoop(next, p)
  BY <1>1, <1>12 DEF Rest, BroadcastOK
<1>15. NoLoop(next, p) => /\ p \notin From(next, next[p])
                          /\ NoLoop(next, next[p])
  <2> HIDE DEF p
  <2>1. NoLoop(next, p) => p \notin From(next, next[p])
    BY <1>0, <1>2, NoReturn
  <2>2. From(next, next[p]) \subseteq From(next, p)
    BY <1>0, <1>2, FromStep
  <2> QED
    BY <2>1, <2>2 DEF NoLoop
<1> HIDE DEF p
<1>16. Listed' = Listed
  BY <1>0 DEF Listed
<1>17. /\ walk'.fresh = walk.fresh
       /\ Callable(state, p) => /\ walk'.seen = walk.seen \cup {p}
                                /\ walk'.twice = walk.twice \cup ({p} \cap walk.seen)
       /\ ~Callable(state, p) => walk'.seen = walk.seen /\ walk'.twice = walk.twice
  BY <1>5, <1>6
<1>18. Listed \subseteq walk'.seen \cup walk'.fresh \cup From(next, next[p])
  BY <1>13, <1>14, <1>17
<1>19. walk'.fresh = {} => /\ walk'.twice = {}
                           /\ walk'.seen \cap From(next, next[p]) = {}
                           /\ NoLoop(next, next[p])
  BY <1>14, <1>15, <1>17
<1>20. BroadcastOK'
  BY <1>0, <1>10, <1>11, <1>16, <1>18, <1>19 DEF BroadcastOK
<1>21. PollsKept'
  BY <1>0, <1>10, <1>16 DEF Rest, PollsKept, KeepsPolls, pollVars
<1>22. NoLoop(next', process_list')
  BY <1>0 DEF Rest
<1> QED
  BY <1>9, <1>10, <1>16, <1>20, <1>21, <1>22 DEF Rest

-----------------------------------------------------------------------------
(* exit_process. *)

\* Up to the unlinking, the list stays as it is.
LEMMA ExitSteps ==
  ASSUME IInv, Rest, ExitNotify \/ ExitAdvance \/ ExitSelf
  PROVE  Rest'
<1>0. /\ next \in Link /\ stack # << >> /\ Top.k = "exit" /\ state \in StateType
      /\ Listed \in SUBSET Proc /\ Active(Listed, state, stack)
      /\ UNCHANGED <<process_list, next, walk>> /\ UNCHANGED pollVars
  <2>1. /\ next \in Link /\ state \in StateType /\ Listed \in SUBSET Proc
        /\ Active(Listed, state, stack)
    BY ListTypes DEF Rest
  <2>2. /\ stack # << >> /\ Top.k = "exit"
        /\ UNCHANGED <<process_list, next, walk>> /\ UNCHANGED pollVars
    <3>1. CASE ExitNotify
      BY <3>1 DEF ExitNotify, AtPlace, Running
    <3>2. CASE ExitAdvance
      BY <3>2 DEF ExitAdvance, AtPlace, Running, procVars
    <3>3. CASE ExitSelf
      BY <3>3 DEF ExitSelf, AtPlace, Running
    <3> QED
      BY <3>1, <3>2, <3>3
  <2> QED
    BY <2>1, <2>2
<1>1. Top \in FrameType /\ FrameOK(Top)
  BY <1>0, TopFrame
<1>2. Top.of \in Proc
  BY <1>0, <1>1 DEF FrameOK, FrameType, Pointer
<1>3. ASSUME NEW f \in FrameType, f.k = "exit", f.of = Top.of
      PROVE  Keeps(stack, Replace(f), next) /\ Replace(f) \in Seq(FrameType)
  <2>1. InPlace(f, Len(stack))
    BY <1>3 DEF InPlace
  <2> QED
    BY <1>0, <1>3, <2>1, MoveTop
<1>4. CASE ExitNotify
  <2> DEFINE f == [Top EXCEPT !.at = "advance"]
  <2>1. f \in FrameType /\ f.k = "exit" /\ f.of = Top.of
    BY <1>0, <1>1 DEF FrameType, Place
  <2>2. Top.p \in Proc
    BY <1>1, <1>4 DEF ExitNotify, FrameType, Pointer
  <2>3. \/ Call(state, Replace(f), Top.p, "EXITED")
        \/ stack' = Replace(f) /\ UNCHANGED state
    BY <1>4 DEF ExitNotify
  <2> HIDE DEF f
  <2>4. Keeps(stack, Replace(f), next) /\ Replace(f) \in Seq(FrameType)
    BY <1>3, <2>1
  <2>5. CASE stack' = Replace(f) /\ UNCHANGED state
    BY <1>0, <2>4, <2>5, StillStep
  <2>6. CASE Call(state, Replace(f), Top.p, "EXITED")
    <3> HIDE DEF Top
    <3>1. Active(Listed, state, Replace(f)) /\ "EXITED" \in Ev \cup {"NONE"}
      BY <1>0, <2>4, ActiveKept DEF Keeps, Ev
    <3>2. Active(Listed, state', stack') /\ Keeps(Replace(f), stack', next)
      BY <1>0, <2>2, <2>4, <2>6, <3>1, CallKeeps
    <3>3. Keeps(stack, stack', next)
      BY <2>4, <3>2, KeepsTrans
    <3> QED
      BY <1>0, <3>2, <3>3, ControlStep DEF Keeps
  <2> QED
    BY <2>3, <2>5, <2>6
<1>5. CASE ExitAdvance
  <2> DEFINE f == [Top EXCEPT !.at = "visit", !.p = next[Top.p]]
  <2>1. stack' = Replace(f) /\ UNCHANGED state /\ Top.at = "advance"
    BY <1>5 DEF ExitAdvance, AtPlace, procVars
  <2>2. Top.p \in Proc /\ next[Top.p] \in Pointer
    BY <1>0, <1>1, <2>1 DEF FrameOK, FrameType, Pointer, Link
  <2>3. f \in FrameType /\ f.k = "exit" /\ f.of = Top.of
    BY <1>0, <1>1, <2>2 DEF FrameType, Place
  <2> HIDE DEF f
  <2> QED
    BY <1>0, <1>3, <2>1, <2>3, StillStep
<1>6. CASE ExitSelf
  <2> DEFINE f == [Top EXCEPT !.at = "unlink"]
             g == [Frame("bye", "run", Top.of) EXCEPT !.ev = "EXIT"]
  <2>1. f \in FrameType /\ f.k = "exit" /\ f.of = Top.of
    BY <1>0, <1>1 DEF FrameType, Place
  <2>2. g \in FrameType /\ g.k = "bye"
    BY <1>2, BoundAssumption DEF Frame, FrameType, Kind, Place, Ev, Pointer
  <2>3. \/ stack' = Append(Replace(f), g)
        \/ stack' = Replace(f)
    BY <1>6 DEF ExitSelf
  <2>4. UNCHANGED state
    BY <1>6 DEF ExitSelf
  <2> HIDE DEF f, g
  <2>5. Keeps(stack, Replace(f), next) /\ Replace(f) \in Seq(FrameType)
    BY <1>3, <2>1
  <2>6. CASE stack' = Replace(f)
    BY <1>0, <2>4, <2>5, <2>6, StillStep
  <2>7. CASE stack' = Append(Replace(f), g)
    <3>1. Keeps(Replace(f), stack', next)
      BY <2>2, <2>5, <2>7, PushKeeps
    <3>2. Keeps(stack, stack', next)
      BY <2>5, <3>1, KeepsTrans
    <3> QED
      BY <1>0, <2>4, <3>2, StillStep
  <2> QED
    BY <2>3, <2>6, <2>7
<1> QED
  BY <1>4, <1>5, <1>6

\* What a loop that stands somewhere has ahead of it when p leaves the list.
LEMMA SkippedAhead ==
  ASSUME NEW nx \in Link, NEW p \in Proc, NEW ny, Skips(nx, ny, p),
         NEW f \in FrameType, FrameOK(f)
  PROVE  /\ Ahead(ny, f) \subseteq Ahead(nx, f)
         /\ Ahead(nx, f) \ {p} \subseteq Ahead(ny, f)
         /\ NoLoop(nx, Cursor(nx, f)) => NoLoop(ny, Cursor(ny, f))
<1>1. CASE f.at = "advance"
  <2>1. f.p \in Proc
    BY <1>1 DEF FrameOK, FrameType, Pointer
  <2>2. Cursor(nx, f) = nx[f.p] /\ Cursor(ny, f) = ny[f.p]
    BY <1>1 DEF Cursor
  <2> QED
    BY <2>1, <2>2, SkippedCursor DEF Ahead
<1>2. CASE f.at # "advance"
  <2>1. f.p \in Pointer
    BY DEF FrameType
  <2>2. Cursor(nx, f) = f.p /\ Cursor(ny, f) = f.p
    BY <1>2 DEF Cursor
  <2> QED
    BY <2>1, <2>2, SkippedFrom DEF Ahead
<1> QED
  BY <1>1, <1>2

\* The process leaves the list, under whatever loops are suspended on it.
LEMMA UnlinkStep ==
  ASSUME IInv, Rest, ExitUnlink
  PROVE  Rest'
<1> DEFINE p == Top.of
<1>0. /\ next \in Link /\ process_list \in Pointer /\ stack # << >> /\ Top.k = "exit"
      /\ Listed \in SUBSET Proc /\ Active(Listed, state, stack) /\ Places(stack)
      /\ stack \in Seq(FrameType) /\ owed \in SUBSET Proc
      /\ UNCHANGED <<state, needspoll, poll_requested, walk>>
      /\ stack' = Below /\ owed' = owed \ {p}
  BY ListTypes DEF Rest, ExitUnlink, AtPlace, Running
<1>1. Top \in FrameType /\ FrameOK(Top)
  BY <1>0, TopFrame
<1>2. p \in Proc
  BY <1>0, <1>1 DEF FrameOK, FrameType, Pointer
<1>3. IF p = process_list THEN next' = next /\ process_list' = next[process_list]
      ELSE /\ next' = [q \in Proc |-> IF q \in Listed /\ next[q] = p THEN next[p] ELSE next[q]]
           /\ process_list' = process_list
  <2>1. \A q \in Proc : OnList(q) <=> q \in Listed
    BY ListTypes
  <2> QED
    BY <2>1 DEF ExitUnlink
<1>4. /\ \A q \in Proc : HasThread(stack, q) => HasThread(stack', q)
      /\ \A q \in Proc \ {p} : HasExit(stack, q) => HasExit(stack', q)
      /\ \A nx \in Link, q \in Proc : HasPoll(stack, nx, q) => HasPoll(stack', nx, q)
      /\ Places(stack')
      /\ Broadcasting(stack) <=> Broadcasting(stack')
      /\ Broadcasting(stack') => stack'[1] = stack[1]
  <2> HIDE DEF Below
  <2> QED
    BY <1>0, PopTop
<1> HIDE DEF p
<1>5. /\ Skips(next, next', p)
      /\ From(next', process_list') = From(next, process_list) \ {p}
      /\ NoLoop(next', process_list')
  <2>1. NoLoop(next, process_list)
    BY DEF Rest
  <2> QED
    BY <1>0, <1>2, <1>3, <2>1, SkippedList DEF Listed
<1>6. Listed' = Listed \ {p}
  BY <1>5 DEF Listed
<1>7. \A i \in DOMAIN stack : stack[i] \in FrameType /\ FrameOK(stack[i])
  BY <1>0 DEF IInv, StackWellNested, WellNested
<1>8. \A q \in Proc \ {p} : HasPoll(stack, next, q) => HasPoll(stack', next', q)
  <2>1. \A i \in DOMAIN stack : Ahead(next, stack[i]) \ {p} \subseteq Ahead(next', stack[i])
    BY <1>0, <1>2, <1>5, <1>7, SkippedAhead
  <2>2. \A q \in Proc \ {p} : HasPoll(stack, next, q) => HasPoll(stack, next', q)
    BY <2>1 DEF HasPoll
  <2>3. next' \in Link
    BY <1>5 DEF Skips
  <2> QED
    BY <1>4, <2>2, <2>3
<1>9. PollsKept'
  BY <1>0, <1>6, <1>8 DEF Rest, PollsKept
<1>10. Active(Listed', state', stack')
  BY <1>0, <1>4, <1>6 DEF Active
<1>11. BroadcastOK'
  <2>1. CASE ~Broadcasting(stack)
    BY <1>0, <1>4, <2>1 DEF Rest, BroadcastOK
  <2>2. CASE Broadcasting(stack)
    <3>1. 1 \in DOMAIN stack
      BY <1>0, <2>2, EmptySeq DEF Broadcasting
    <3>2. /\ Ahead(next', stack[1]) \subseteq Ahead(next, stack[1])
          /\ Ahead(next, stack[1]) \ {p} \subseteq Ahead(next', stack[1])
          /\ NoLoop(next, Cursor(next, stack[1])) => NoLoop(next', Cursor(next', stack[1]))
      BY <1>0, <1>2, <1>5, <1>7, <3>1, SkippedAhead
    <3>3. Broadcasting(stack') /\ stack'[1] = stack[1]
      BY <1>4, <2>2
    <3>4. /\ Listed \subseteq walk.seen \cup walk.fresh \cup Ahead(next, stack[1])
          /\ walk.fresh = {} => /\ walk.twice = {}
                                /\ walk.seen \cap Ahead(next, stack[1]) = {}
                                /\ NoLoop(next, Cursor(next, stack[1]))
      BY <2>2 DEF Rest, BroadcastOK
    <3>5. /\ Listed' \subseteq walk.seen \cup walk.fresh \cup Ahead(next', stack'[1])
          /\ walk.fresh = {} => /\ walk.twice = {}
                                /\ walk.seen \cap Ahead(next', stack'[1]) = {}
                                /\ NoLoop(next', Cursor(next', stack'[1]))
      BY <1>6, <3>2, <3>3, <3>4
    <3> QED
      BY <1>0, <3>3, <3>5 DEF BroadcastOK
  <2> QED
    BY <2>1, <2>2
<1> QED
  BY <1>4, <1>5, <1>9, <1>10, <1>11 DEF Rest

-----------------------------------------------------------------------------
(* process_start. *)

\* What a loop that stands somewhere has ahead of it when p is put on the list.
LEMMA PushedAhead ==
  ASSUME NEW nx \in Link, NEW head \in Pointer, NEW p \in Proc,
         p \notin From(nx, head), NoLoop(nx, head),
         NEW f \in FrameType, FrameOK(f)
  PROVE  LET ny == [nx EXCEPT ![p] = head]
         IN  From(nx, head) \cap Ahead(nx, f) \subseteq Ahead(ny, f)
<1> DEFINE ny == [nx EXCEPT ![p] = head]
<1>1. /\ \A x \in Pointer : \A r \in From(nx, head) : r \in From(nx, x) => r \in From(ny, x)
      /\ \A c \in Proc : \A r \in From(nx, head) : r \in From(nx, nx[c]) => r \in From(ny, ny[c])
  BY PushedList
<1> HIDE DEF ny
<1>2. CASE f.at = "advance"
  <2>1. f.p \in Proc
    BY <1>2 DEF FrameOK, FrameType, Pointer
  <2>2. Ahead(nx, f) = From(nx, nx[f.p]) /\ Ahead(ny, f) = From(ny, ny[f.p])
    BY <1>2 DEF Ahead, Cursor
  <2>3. From(nx, head) \cap Ahead(nx, f) \subseteq Ahead(ny, f)
    BY <1>1, <2>1, <2>2
  <2> QED
    BY <2>3 DEF ny
<1>3. CASE f.at # "advance"
  <2>1. f.p \in Pointer
    BY DEF FrameType
  <2>2. Ahead(nx, f) = From(nx, f.p) /\ Ahead(ny, f) = From(ny, f.p)
    BY <1>3 DEF Ahead, Cursor
  <2>3. From(nx, head) \cap Ahead(nx, f) \subseteq Ahead(ny, f)
    BY <1>1, <2>1, <2>2
  <2> QED
    BY <2>3 DEF ny
<1> QED
  BY <1>2, <1>3

LEMMA PushedNow ==
  ASSUME IInv, NEW p \in Proc, p \notin Listed, NoLoop(next, process_list),
         next' = [next EXCEPT ![p] = process_list]
  PROVE  /\ next' \in Link
         /\ From(next', p) = Listed \cup {p}
         /\ NoLoop(next', p)
<1>1. next \in Link /\ process_list \in Pointer /\ p \notin From(next, process_list)
  BY ListTypes DEF Listed
<1> DEFINE ny == [next EXCEPT ![p] = process_list]
<1>2. /\ ny \in Link /\ NoLoop(ny, p)
      /\ From(ny, p) \subseteq From(next, process_list) \cup {p}
      /\ From(next, process_list) \cup {p} \subseteq From(ny, p)
  BY <1>1, PushedList
<1> HIDE DEF ny
<1>3. next' = ny
  BY DEF ny
<1> QED
  BY <1>2, <1>3 DEF Listed

LEMMA StartKeeps ==
  ASSUME IInv, Rest, NEW p \in Proc, NEW S \in Seq(FrameType), Start(p, S),
         \A nx \in Link : Keeps(stack, S, nx), UNCHANGED pollVars
  PROVE  Rest'
<1>0. /\ next \in Link /\ process_list \in Pointer /\ state \in StateType
      /\ Listed \in SUBSET Proc /\ Active(Listed, state, stack) /\ Places(stack)
      /\ stack \in Seq(FrameType) /\ owed \in SUBSET Proc /\ process_current \in Pointer
      /\ walk \in [seen : SUBSET Proc, twice : SUBSET Proc, fresh : SUBSET Proc]
  BY ListTypes DEF Rest, IInv, TypeOK
<1>1. CASE OnList(p)
  <2>1. stack' = S /\ UNCHANGED <<process_list, next, walk>> /\ UNCHANGED state
    BY <1>1 DEF Start
  <2> QED
    BY <1>0, <2>1, StillStep
<1>2. CASE ~OnList(p)
  <2> DEFINE st == [state EXCEPT ![p] = "RUNNING"]
             f == [Frame("synch", "run", NULL) EXCEPT !.saved = process_current]
             U == Append(S, f)
  <2>1. /\ next' = [next EXCEPT ![p] = process_list] /\ process_list' = p
        /\ Call(st, U, p, "INIT")
        /\ walk' = IF Broadcasting(stack) THEN [walk EXCEPT !.fresh = @ \cup {p}] ELSE walk
    BY <1>2 DEF Start, Broadcasting
  <2>2. p \notin Listed
    BY <1>2, ListTypes
  <2>3. /\ next' \in Link
        /\ From(next', p) = Listed \cup {p}
        /\ NoLoop(next', p)
    <3>1. NoLoop(next, process_list)
      BY DEF Rest
    <3>2. next' = [next EXCEPT ![p] = process_list]
      BY <2>1
    <3> QED
      BY <2>2, <3>1, <3>2, PushedNow
  <2>4. Listed' = Listed \cup {p}
    BY <2>1, <2>3 DEF Listed
  <2>5. f \in FrameType /\ f.k = "synch"
    <3>1. process_current \in Pointer /\ NULL \in Pointer /\ 0 \in 0..MaxOps
      BY <1>0, ProcCount, BoundAssumption
    <3> QED
      BY <3>1 DEF Frame, FrameType, Kind, Place
  <2> HIDE DEF f
  <2>6. U \in Seq(FrameType) /\ Keeps(S, U, next')
    BY <2>5, PushKeeps
  <2>7. Keeps(stack, U, next')
    BY <2>3, <2>6, KeepsTrans
  <2> HIDE DEF U
  <2>8. st \in StateType /\ Active(Listed', st, U)
    <3>1. Active(Listed, state, U)
      BY <1>0, <2>7, ActiveKept DEF Keeps
    <3>2. st \in StateType /\ st[p] = "RUNNING" /\ \A q \in Proc : q # p => st[q] = state[q]
      BY <1>0 DEF StateType
    <3> HIDE DEF st
    <3> QED
      BY <1>0, <2>4, <3>1, <3>2 DEF Active
  <2> HIDE DEF st
  <2>9. Listed' \in SUBSET Proc /\ "INIT" \in Ev \cup {"NONE"}
    BY <1>0, <2>4 DEF Ev
  <2>10. Active(Listed', state', stack') /\ Keeps(U, stack', next')
    BY <2>1, <2>6, <2>8, <2>9, CallKeeps
  <2>11. Keeps(stack, stack', next')
    BY <2>7, <2>10, KeepsTrans
  <2>12. \A i \in DOMAIN stack : Listed \cap Ahead(next, stack[i]) \subseteq Ahead(next', stack[i])
    <3> SUFFICES ASSUME NEW i \in DOMAIN stack
                 PROVE  Listed \cap Ahead(next, stack[i]) \subseteq Ahead(next', stack[i])
      OBVIOUS
    <3>1. stack[i] \in FrameType /\ FrameOK(stack[i])
      BY <1>0 DEF IInv, StackWellNested, WellNested
    <3>2. NoLoop(next, process_list)
      BY DEF Rest
    <3> QED
      BY <1>0, <2>1, <2>2, <3>1, <3>2, PushedAhead DEF Listed
  <2>13. PollsKept'
    <3>1. \A q \in Listed : HasPoll(stack, next, q) => HasPoll(stack, next', q)
      BY <2>12 DEF HasPoll
    <3>2. \A q \in Listed : HasPoll(stack, next, q) => HasPoll(stack', next', q)
      BY <1>0, <2>11, <3>1 DEF Keeps, KeepsPolls
    <3> QED
      BY <1>0, <2>4, <3>2 DEF Rest, PollsKept, pollVars
  <2>14. BroadcastOK'
    <3>1. CASE ~Broadcasting(stack)
      BY <1>0, <2>1, <2>11, <3>1 DEF Rest, BroadcastOK, Keeps, KeepsPlaces
    <3>2. CASE Broadcasting(stack)
      <4>1. Broadcasting(stack') /\ Ahead(next', stack'[1]) = Ahead(next', stack[1])
        BY <2>11, <3>2 DEF Keeps, KeepsPlaces, Ahead
      <4>2. Listed \cap Ahead(next, stack[1]) \subseteq Ahead(next', stack[1])
        <5>1. 1 \in DOMAIN stack
          BY <1>0, <3>2, EmptySeq DEF Broadcasting
        <5> QED
          BY <2>12, <5>1
      <4>3. walk'.fresh = walk.fresh \cup {p} /\ walk'.seen = walk.seen
        BY <1>0, <2>1, <3>2
      <4>4. Listed \subseteq walk.seen \cup walk.fresh \cup Ahead(next, stack[1])
        BY <3>2 DEF Rest, BroadcastOK
      <4>5. Listed' \subseteq walk'.seen \cup walk'.fresh \cup Ahead(next', stack'[1])
        BY <2>4, <4>1, <4>2, <4>3, <4>4
      <4> QED
        BY <4>1, <4>3, <4>5 DEF BroadcastOK
    <3> QED
      BY <3>1, <3>2
  <2> QED
    BY <1>0, <2>1, <2>3, <2>10, <2>11, <2>13, <2>14 DEF Rest, Keeps, KeepsPlaces
<1> QED
  BY <1>1, <1>2

LEMMA StartSteps ==
  ASSUME IInv, Rest, \E p \in Proc : BootStart(p) \/ ThreadStart(p)
  PROVE  Rest'
<1>1. ASSUME NEW p \in Proc, BootStart(p)
      PROVE  Rest'
  <2>1. stack \in Seq(FrameType) /\ \A nx \in Link : Keeps(stack, stack, nx)
    BY ListTypes, KeepsSame
  <2> QED
    BY <1>1, <2>1, StartKeeps DEF BootStart
<1>2. ASSUME NEW p \in Proc, ThreadStart(p)
      PROVE  Rest'
  <2>1. Counted \in Seq(FrameType) /\ \A nx \in Link : Keeps(stack, Counted, nx)
    BY <1>2, CountKeeps DEF ThreadStart, MayCall
  <2> QED
    BY <1>2, <2>1, StartKeeps DEF ThreadStart
<1> QED
  BY <1>1, <1>2

-----------------------------------------------------------------------------
(* Every step keeps the invariant. *)

LEMMA InitLInv == Init => LInv
<1> SUFFICES ASSUME Init PROVE LInv
  OBVIOUS
<1>1. IInv
  BY InitIInv
<1>2. next \in Link /\ process_list = NULL /\ stack = << >> /\ owed = {} /\ walk = NoWalk
  BY <1>1, ListTypes DEF Init
<1>3. Listed = {} /\ NoLoop(next, process_list)
  BY <1>2, FromNull DEF Listed
<1>4. ~Broadcasting(stack) /\ Places(stack)
  BY <1>2 DEF Broadcasting, Places
<1> QED
  BY <1>1, <1>2, <1>3, <1>4 DEF LInv, Rest, Active, PollsKept, BroadcastOK

LEMMA NextLInv == LInv /\ [Next]_vars => LInv'
<1> SUFFICES ASSUME LInv, [Next]_vars PROVE LInv'
  OBVIOUS
<1>0. IInv /\ Rest /\ IInv'
  BY NextIInv DEF LInv
<1>1. CASE UNCHANGED vars
  BY <1>0, <1>1, KeepsSame, StillStep DEF LInv, vars, procVars
<1>2. CASE \E p \in IrqProc : Interrupt(p)
  <2>1. PICK p \in IrqProc : Interrupt(p)
    BY <1>2
  <2>2. p \in Proc /\ RequestPoll(p) /\ stack' = stack
        /\ UNCHANGED <<process_list, next, walk>> /\ UNCHANGED state
    BY <2>1, IrqAssumption DEF Interrupt, procVars
  <2>3. Rest'
    BY <1>0, <2>2, KeepsSame, RequestKeeps
  <2> QED
    BY <1>0, <2>3 DEF LInv
<1>3. CASE Main
  BY <1>0, <1>3, StartSteps, TurnSteps, EventStep DEF Main, LInv
<1>4. CASE Loops
  BY <1>0, <1>4, EndStep, AdvanceStep, PollStep, InnerStep, BroadcastStep, CallStep
     DEF Loops, LInv
<1>5. CASE Thread
  <2>1. \/ \E to \in Pointer, ev \in UserEvent : ThreadPost(to, ev)
        \/ \E q \in Proc : ThreadExit(q) \/ ThreadPoll(q) \/ ThreadAddPollEvent(q)
        \/ \E q \in Proc, ev \in UserEvent : ThreadPostSynch(q, ev)
        \/ \E q \in Proc : BootStart(q) \/ ThreadStart(q)
        \/ ThreadYield \/ ThreadEnd \/ ByeReturn \/ SynchReturn
    BY <1>5 DEF Thread
  <2>2. Rest'
    BY <1>0, <2>1, StartSteps, CallingSteps, ReturningSteps
  <2> QED
    BY <1>0, <2>2 DEF LInv
<1>6. CASE Exit
  BY <1>0, <1>6, ExitSteps, UnlinkStep DEF Exit, LInv
<1> QED
  BY <1>1, <1>2, <1>3, <1>4, <1>5, <1>6 DEF Next, Step

LEMMA ListInductive == Spec => []LInv
BY InitLInv, NextLInv, PTL DEF Spec

(***************************************************************************)
(* However starts and exits nest in each other under the loops over the    *)
(* list, following p->next from process_list reaches NULL (process_start   *)
(* lines 107-115, exit_process lines 162-171).                             *)
(***************************************************************************)
THEOREM ListEndsCorrect == Spec => []ListEnds
<1>1. LInv => ListEnds
  <2> SUFFICES ASSUME LInv PROVE ListEnds
    OBVIOUS
  <2>1. next \in Link /\ process_list \in Pointer /\ NoLoop(next, process_list)
    BY ListTypes DEF LInv, Rest
  <2>2. Chained(next, process_list)[Cardinality(Proc)] = NULL
    BY <2>1, NoLoopEnds
  <2> QED
    BY <2>2 DEF ListEnds, Chain, Chained
<1> QED
  BY <1>1, ListInductive, PTL

(***************************************************************************)
(* The mark CALLED is on no listed process that is not being called, and   *)
(* when main() is between two calls every process on the list can be       *)
(* called (call_process line 187).                                         *)
(***************************************************************************)
THEOREM NoneSilencedCorrect == Spec => []NoneSilenced
<1>1. LInv => NoneSilenced
  <2> SUFFICES ASSUME LInv PROVE NoneSilenced
    OBVIOUS
  <2>0. IInv /\ Rest /\ Active(Listed, state, stack) /\ stack \in Seq(FrameType)
        /\ \A p \in Proc : OnList(p) <=> p \in Listed
    BY ListTypes DEF LInv, Rest
  <2>1. DOMAIN stack = 1..Len(stack)
    BY <2>0
  <2>2. CalledIsActive
    BY <2>0, <2>1 DEF CalledIsActive, Active, HasThread
  <2>3. ListedRuns
    BY <2>0, FirstFrame DEF ListedRuns
  <2> QED
    BY <2>2, <2>3 DEF NoneSilenced
<1> QED
  BY <1>1, ListInductive, PTL

(***************************************************************************)
(* The walk of exit_process passes over no process but those whose own     *)
(* calls led to the exit, and those that are exiting themselves.           *)
(***************************************************************************)
THEOREM ExitSkipsCorrect == Spec => []ExitSkipsOnlyCallers
<1>1. LInv => ExitSkipsOnlyCallers
  <2> SUFFICES ASSUME LInv, stack # << >>, Top.p \notin {NULL, Top.of}, OnList(Top.p)
               PROVE  \/ Callable(state, Top.p)
                      \/ \E i \in 1..Len(stack) :
                           \/ IsThread(stack[i]) /\ stack[i].p = Top.p
                           \/ stack[i].k = "exit" /\ stack[i].of = Top.p
    BY DEF ExitSkipsOnlyCallers, AtPlace, Running
  <2>0. IInv /\ Rest /\ Active(Listed, state, stack) /\ stack \in Seq(FrameType)
        /\ state \in StateType
        /\ \A p \in Proc : OnList(p) <=> p \in Listed
    BY ListTypes DEF LInv, Rest
  <2>1. Top \in FrameType /\ DOMAIN stack = 1..Len(stack)
    BY <2>0, TopFrame
  <2>2. Top.p \in Proc
    BY <2>1 DEF FrameType, Pointer
  <2> DEFINE p == Top.p
  <2>3. p \in Proc /\ p \in Listed
    BY <2>0, <2>2
  <2> HIDE DEF p
  <2>4. \/ state[p] = "RUNNING"
        \/ HasThread(stack, p)
        \/ HasExit(stack, p)
    BY <2>0, <2>3 DEF Active, StateType
  <2>5. \/ Callable(state, p)
        \/ \E i \in 1..Len(stack) :
             \/ IsThread(stack[i]) /\ stack[i].p = p
             \/ stack[i].k = "exit" /\ stack[i].of = p
    BY <2>1, <2>4 DEF Callable, HasThread, HasExit, IsThread
  <2> QED
    BY <2>5 DEF p
<1> QED
  BY <1>1, ListInductive, PTL

(***************************************************************************)
(* A poll request for a listed process is never lost, whenever interrupts  *)
(* make it: the flag stays up, and poll_requested is up or a do_poll loop  *)
(* is still to pass the process (do_poll, do_call, process_poll).          *)
(***************************************************************************)
THEOREM PollKeptCorrect == Spec => []PollKept
<1>1. LInv => PollKept
  <2> SUFFICES ASSUME LInv, NEW p \in owed
               PROVE  /\ needspoll[p]
                      /\ \/ poll_requested
                         \/ \E i \in 1..Len(stack) :
                              /\ stack[i].k = "poll"
                              /\ p \in Follow(IF stack[i].at = "visit" THEN stack[i].p
                                              ELSE next[stack[i].p])
    BY DEF PollKept
  <2>1. needspoll[p] /\ (poll_requested \/ HasPoll(stack, next, p)) /\ Places(stack)
    BY DEF LInv, Rest, PollsKept
  <2>2. DOMAIN stack = 1..Len(stack)
    BY ListTypes DEF LInv
  <2>3. CASE HasPoll(stack, next, p)
    <3>1. PICK i \in DOMAIN stack : stack[i].k = "poll" /\ p \in Ahead(next, stack[i])
      BY <2>3 DEF HasPoll
    <3> DEFINE q == IF stack[i].at = "visit" THEN stack[i].p ELSE next[stack[i].p]
    <3>2. Cursor(next, stack[i]) = q
      BY <2>1, <3>1 DEF Places, InPlace, Cursor
    <3> HIDE DEF q
    <3>3. p \in Follow(q)
      BY <3>1, <3>2 DEF Ahead, From, Chained, Follow
    <3> QED
      BY <2>1, <2>2, <3>1, <3>3 DEF q
  <2> QED
    BY <2>1, <2>3
<1> QED
  BY <1>1, ListInductive, PTL

(***************************************************************************)
(* A broadcast that ends has called every process on the list that was not *)
(* started during it, and none twice unless one was started (do_event      *)
(* lines 298-307), although the processes it calls may exit under it.      *)
(***************************************************************************)
THEOREM BroadcastCorrect == Spec => []BroadcastDelivers
<1>1. LInv => BroadcastDelivers
  <2> SUFFICES ASSUME LInv PROVE BroadcastDelivers
    OBVIOUS
  <2>0. IInv /\ Rest /\ next \in Link /\ \A p \in Proc : OnList(p) <=> p \in Listed
    BY ListTypes DEF LInv
  <2>1. ASSUME AtPlace("bcast", "visit"), Top.p = NULL, NEW p \in Proc, OnList(p)
        PROVE  p \in walk.seen \cup walk.fresh
    <3>1. stack # << >> /\ Top.k = "bcast" /\ Top.at = "visit"
      BY <2>1 DEF AtPlace, Running
    <3>2. stack[1] = Top /\ Broadcasting(stack)
      BY <2>0, <3>1, TopFrame
    <3>3. Ahead(next, stack[1]) = {}
      BY <2>0, <2>1, <3>1, <3>2, FromNull DEF Ahead, Cursor
    <3> QED
      BY <2>0, <2>1, <3>2, <3>3 DEF Rest, BroadcastOK
  <2>2. Running("bcast") /\ walk.fresh = {} => walk.twice = {}
    BY <2>0, TopFrame DEF Running, Rest, BroadcastOK
  <2> QED
    BY <2>1, <2>2 DEF BroadcastDelivers
<1> QED
  BY <1>1, ListInductive, PTL

=============================================================================
