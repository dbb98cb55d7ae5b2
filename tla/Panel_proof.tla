---------------------------- MODULE Panel_proof ----------------------------
(***************************************************************************)
(* For every number of digits and energy points, every length of the code  *)
(* and of the queue: the safety of the screens of Panel.                   *)
(*                                                                         *)
(* What makes it hard is that a screen which has been left may go on: the  *)
(* time-outs call SCR_load without PROCESS_EXIT.  The inductive invariant  *)
(* says of such screens that they wait in their loops and which they can   *)
(* be (LeftOvers); with it, whatever such a screen does when a timer       *)
(* resumes it leaves the current screen, its number and its code alone, or *)
(* loads the idle screen.                                                  *)
(***************************************************************************)
EXTENDS Panel, SequenceTheorems, TLAPS

Waits == {"ask", "send", "present"}

\* The wait screen is up while a reply is awaited, but the overview takes it down
\* before it sends.
Shown(s) == IF s = "overview" THEN {"ask"} ELSE Waits

\* Where the protothread of each screen may wait.
Places(s) ==
  CASE s \in {"startup", "idle"} -> {"loop", "message"}
    [] s = "language" -> {"loop"}
    [] s = "overview" -> {"loop", "message", "ask", "send"}
    [] s = "pin"      -> {"loop", "message", "send", "present"}

\* The screens that SCR_load is called from without PROCESS_EXIT.
Lingering == {"language", "overview", "pin"}

ScreenTypes ==
  /\ current \in Screen /\ listed \subseteq Screen /\ running \subseteq Screen
  /\ place \in [Screen -> {"loop", "message", "ask", "send", "present"}]
  /\ asked \in 0..NumAsks
  /\ wait \in BOOLEAN
  /\ timer \in [Timer -> TimerState]
ScreenPlaces == \A s \in Screen : place[s] \in Places(s)
LeftOvers ==
  \A s \in running \ {current} : s \in Lingering /\ place[s] = "loop"
WaitShown == wait => place[current] \in Shown(current)
ScreensOK == ScreenTypes /\ OneScreen /\ ScreenPlaces /\ LeftOvers /\ WaitShown

EventsOK == events \in Seq(Event) /\ Len(events) <= NumEvents

DataTypes ==
  /\ number \in 0..MaxNumber
  /\ language \in {"NL", "other"}
  /\ code \in 0..CodeLength /\ uid \in [Byte -> {"blank", "typed", "earlier"}]
  /\ point \in [0..(NumberMod - 1) -> State \cup {"unknown"}]
  /\ granted \in 0..MaxNumber \cup {None}

\* The overview and the pin screen are of an energy point that is known.
NumberShown == current \in {"overview", "pin"} => Here \in Known
\* The message that a code is not valid is shown with no digits counted.
CodeOpen ==
  CodeCleared /\ (current = "pin" /\ place["pin"] = "message" => code = 0)

IInv ==
  /\ ScreensOK /\ EventsOK /\ DataTypes
  /\ NumberShown /\ ActivationGranted /\ CodeOpen

-----------------------------------------------------------------------------
(* The helpers. *)

LEMMA StoredTyped ==
  ASSUME NEW n \in Nat
  PROVE  Stored(n) \in 0..(NumberMod - 1)
BY NumAssumption DEF Stored

LEMMA TimersTyped ==
  ASSUME NEW tm \in [Timer -> TimerState], NEW t \in Timer, NEW s \in Screen
  PROVE  /\ Set(tm, t, s) \in [Timer -> TimerState]
         /\ PollSet(s, tm) \in [Timer -> TimerState]
BY DEF Set, PollSet, TimerState

\* The exited screen's timers are gone, or one is set again in its EXIT event.
LEMMA ExitedTyped ==
  ASSUME NEW tm \in [Timer -> TimerState], NEW p \in Screen, current \in Screen
  PROVE  Exited(tm, p) \in [Timer -> TimerState]
<1> DEFINE purged == [t \in Timer |-> IF tm[t] = current THEN "gone" ELSE tm[t]]
<1>1. purged \in [Timer -> TimerState]
  BY DEF TimerState
<1>2. PollSet(current, purged) \in [Timer -> TimerState]
  <2> HIDE DEF purged
  <2> QED
    BY <1>1 DEF PollSet, TimerState
<1> QED
  BY <1>1, <1>2 DEF Exited

LEMMA ResumedTyped ==
  ASSUME timer \in [Timer -> TimerState], NEW s \in Screen
  PROVE  Resumed(s) \in [Timer -> TimerState]
BY DEF Resumed, PollSet, TimerState

LEMMA RefreshedTyped ==
  ASSUME timer \in [Timer -> TimerState]
  PROVE  Refreshed \in [Timer -> TimerState]
<1>1. "overview" \in Screen /\ "refresh" \in Timer
  BY DEF Screen, Timer
<1> QED
  BY <1>1, ResumedTyped, TimersTyped DEF Refreshed

\* An event is posted, or the queue is full.
LEMMA PostedTyped ==
  ASSUME EventsOK, NEW e \in Event, events' = Posted(e)
  PROVE  EventsOK'
<1>1. CASE Len(events) < NumEvents
  <2>1. events' = Append(events, e)
    BY <1>1 DEF Posted
  <2> QED
    BY <1>1, <2>1, AppendProperties, NumAssumption DEF EventsOK
<1>2. CASE ~(Len(events) < NumEvents)
  BY <1>2 DEF Posted, EventsOK
<1> QED
  BY <1>1, <1>2

\* The screen an event is delivered to is on the list, or the event is its timer's.
LEMMA CalledRuns ==
  ASSUME EventsOK, NEW s \in Screen, NEW kind \in {"key", "update", "timer"},
         Called(s, kind)
  PROVE  /\ EventsOK'
         /\ s \in running
         /\ kind # "timer" => s \in listed
<1>1. events # << >> /\ events' = Tail(events)
  BY DEF Called
<1>2. EventsOK'
  BY <1>1, HeadTailProperties, NumAssumption DEF EventsOK
<1> QED
  BY <1>2 DEF Called

-----------------------------------------------------------------------------
(* The screens. *)

\* A screen that does not load another, and goes on to wait at where.
LEMMA StaysKeeps ==
  ASSUME ScreensOK, NEW s \in running, NEW where \in Places(s),
         NEW tm \in [Timer -> TimerState], Stays(s, where, tm),
         wait' \in BOOLEAN,
         s = current \/ where = "loop",
         wait' => place'[current] \in Shown(current)
  PROVE  ScreensOK'
<1>1. /\ s \in Screen /\ place \in [Screen -> {"loop", "message", "ask", "send", "present"}]
      /\ place' = [place EXCEPT ![s] = where]
      /\ timer' = tm
      /\ UNCHANGED <<current, listed, running, asked>>
  BY DEF Stays, ScreensOK, ScreenTypes
<1>2. where \in {"loop", "message", "ask", "send", "present"}
  BY <1>1 DEF Places, Screen
<1>3. ScreenTypes'
  BY <1>1, <1>2 DEF ScreensOK, ScreenTypes
<1>4. OneScreen' /\ WaitShown'
  BY <1>1 DEF ScreensOK, OneScreen, WaitShown
<1>5. ScreenPlaces'
  BY <1>1, <1>2 DEF ScreensOK, ScreenPlaces
<1>6. LeftOvers'
  BY <1>1, <1>2 DEF ScreensOK, LeftOvers, ScreenTypes
<1> QED
  BY <1>3, <1>4, <1>5, <1>6 DEF ScreensOK

\* SCR_load, called by p.
LEMMA LoadKeeps ==
  ASSUME ScreensOK, NEW p \in running, NEW q \in Screen \ {"startup"},
         NEW stays \in BOOLEAN, NEW tm \in [Timer -> TimerState],
         Load(p, q, stays, tm),
         stays => p \in Lingering,
         current = q => q = "idle",
         q \in {"language", "pin"} => place[current] \notin Waits
  PROVE  /\ ScreensOK'
         /\ current' = q
         /\ q = "pin" => place'[q] = "loop"
<1>1. p \in Screen /\ "overview" \in Screen /\ ScreenTypes
  BY DEF ScreensOK, ScreenTypes, Screen
<1>2. CASE current = q
  <2>1. timer' = tm /\ UNCHANGED <<current, listed, running, place, asked, wait>>
    BY <1>2 DEF Load
  <2> QED
    BY <1>2, <2>1
    DEF ScreensOK, ScreenTypes, OneScreen, ScreenPlaces, LeftOvers, WaitShown
<1>3. CASE current # q
  <2>1. /\ current' = q
        /\ listed' = (listed \ {current}) \cup {q}
        /\ running' = (running \ IF stays THEN {current} \ {p} ELSE {current, p}) \cup {q}
        /\ place' = [place EXCEPT ![p] = "loop", ![q] = IF q = "overview" THEN "ask" ELSE "loop"]
        /\ asked' = IF q = "overview" THEN 1 ELSE 0
        /\ wait' = CASE q = "idle" -> FALSE
                     [] q = "overview" -> TRUE
                     [] OTHER -> wait
    BY <1>3 DEF Load, Unlisted
  <2>2. timer' \in [Timer -> TimerState]
    <3>1. Exited(tm, p) \in [Timer -> TimerState]
      BY <1>1, ExitedTyped DEF ScreenTypes
    <3>2. \A t \in Timer : Set(Exited(tm, p), t, q) \in [Timer -> TimerState]
      BY <3>1, TimersTyped
    <3> QED
      BY <1>3, <3>1, <3>2 DEF Load
  <2>3. ScreenTypes'
    <3>1. asked' \in 0..NumAsks
      BY <2>1, NumAssumption
    <3>2. wait' \in BOOLEAN
      BY <1>1, <2>1 DEF ScreenTypes
    <3> QED
      BY <1>1, <2>1, <2>2, <3>1, <3>2 DEF ScreenTypes
  <2>4. OneScreen'
    BY <2>1 DEF ScreensOK, OneScreen
  <2>5. \A s \in Screen :
          place'[s] = IF s = q THEN (IF q = "overview" THEN "ask" ELSE "loop")
                      ELSE IF s = p THEN "loop" ELSE place[s]
    BY <1>1, <2>1 DEF ScreenTypes
  <2>6. ScreenPlaces'
    BY <2>5 DEF ScreensOK, ScreenPlaces, Places, Screen
  <2>7. LeftOvers'
    BY <1>1, <2>1, <2>5 DEF ScreensOK, LeftOvers, ScreenTypes
  <2>8. WaitShown'
    <3>1. CASE q = "idle"
      BY <2>1, <3>1 DEF WaitShown
    <3>2. CASE q = "overview"
      <4>1. current' = "overview" /\ place'["overview"] = "ask"
        BY <1>1, <2>1, <2>5, <3>2
      <4> QED
        BY <4>1 DEF WaitShown, Shown
    <3>3. CASE q \in {"language", "pin"}
      BY <2>1, <3>3 DEF ScreensOK, WaitShown, Shown, Waits
    <3> QED
      BY <3>1, <3>2, <3>3 DEF Screen
  <2> QED
    BY <2>1, <2>3, <2>4, <2>5, <2>6, <2>7, <2>8 DEF ScreensOK
<1> QED
  BY <1>2, <1>3

-----------------------------------------------------------------------------
(* What many actions end with. *)

\* The pin screen, once left, waits in its loop: it does not switch a point on.
LEMMA NotSending ==
  ASSUME ScreensOK', current' # "pin"
  PROVE  ActivationGranted' /\ CodeOpen'
BY DEF ScreensOK, LeftOvers, ActivationGranted, CodeOpen, CodeCleared

\* A screen that goes on to wait at where, with nothing but the screens changed.
LEMMA WaitsOn ==
  ASSUME IInv, EventsOK', UNCHANGED dataVars,
         NEW s \in running, NEW where \in Places(s),
         NEW tm \in [Timer -> TimerState], Stays(s, where, tm),
         wait' \in BOOLEAN,
         s = current \/ where = "loop",
         wait' => place'[current] \in Shown(current),
         s = "pin" => where = place["pin"]
  PROVE  IInv'
<1>1. ScreensOK'
  BY StaysKeeps DEF IInv
<1>2. s \in Screen /\ place' = [place EXCEPT ![s] = where] /\ current' = current
  BY DEF Stays, IInv, ScreensOK, ScreenTypes
<1>3. /\ UNCHANGED <<number, language, code, uid, point, granted>>
      /\ place \in [Screen -> {"loop", "message", "ask", "send", "present"}]
      /\ "pin" \in Screen
  BY DEF dataVars, IInv, ScreensOK, ScreenTypes, Screen
<1>4. DataTypes' /\ NumberShown'
  BY <1>2, <1>3 DEF IInv, DataTypes, NumberShown, Here, Known
<1>5. running' = running /\ place'["pin"] = place["pin"]
  BY <1>2, <1>3 DEF Stays
<1>6. ActivationGranted' /\ CodeOpen'
  BY <1>2, <1>3, <1>5 DEF IInv, ActivationGranted, CodeOpen, CodeCleared, Here
<1> QED
  BY <1>1, <1>4, <1>6 DEF IInv

\* The idle screen is loaded: no energy point is shown, and no code is open.
LEMMA GoesIdle ==
  ASSUME IInv, EventsOK', NEW p \in running, NEW stays \in BOOLEAN,
         NEW tm \in [Timer -> TimerState],
         Load(p, "idle", stays, tm), LoadData("idle"),
         stays => p \in Lingering,
         language' \in {"NL", "other"}
  PROVE  IInv'
<1>1. "idle" \in Screen \ {"startup"}
  BY DEF Screen
<1>2. ScreensOK' /\ current' = "idle"
  BY <1>1, LoadKeeps DEF IInv
<1>3. DataTypes'
  BY NumAssumption DEF LoadData, Earlier, IInv, DataTypes
<1>4. NumberShown' /\ ActivationGranted' /\ CodeOpen'
  BY <1>2, NotSending DEF NumberShown
<1> QED
  BY <1>2, <1>3, <1>4 DEF IInv

\* The time-out of a screen.
LEMMA TimesOutKeeps ==
  ASSUME IInv, EventsOK', NEW p \in running, p \in Lingering,
         NEW tm \in [Timer -> TimerState], TimesOut(p, tm)
  PROVE  IInv'
<1>1. language' \in {"NL", "other"}
  BY DEF TimesOut, IInv, DataTypes
<1> QED
  BY <1>1, GoesIdle DEF TimesOut

\* The wait screen is up while the current screen awaits a reply only.
LEMMA NoWait ==
  ASSUME IInv, current \in Screen, place[current] \notin Waits
  PROVE  wait = FALSE
BY DEF IInv, ScreensOK, ScreenTypes, WaitShown, Shown, Waits

\* Of the screens that run only the current one awaits a reply, shows a message,
\* or is the idle one.
LEMMA BusyIsCurrent ==
  ASSUME IInv, NEW s \in running, place[s] # "loop" \/ s \notin Lingering
  PROVE  s = current
BY DEF IInv, ScreensOK, LeftOvers

\* Keys and updates resume the current screen.
LEMMA KeyIsCurrent ==
  ASSUME IInv, NEW s \in Screen, NEW kind \in {"key", "update"}, Called(s, kind)
  PROVE  s = current /\ s \in running /\ EventsOK'
<1>1. EventsOK' /\ s \in running /\ s \in listed
  BY CalledRuns DEF IInv
<1> QED
  BY <1>1 DEF IInv, ScreensOK, OneScreen

LEMMA EventIsCurrent ==
  ASSUME IInv, NEW s \in Screen,
         \E kind \in {"key", "update", "timer"} : Called(s, kind)
  PROVE  s \in running /\ EventsOK'
BY CalledRuns DEF IInv

-----------------------------------------------------------------------------
(* The actions. *)

LEMMA SwallowedKeeps ==
  ASSUME IInv, NEW s \in Screen, Swallowed(s)
  PROVE  IInv'
<1>1. s \in running /\ EventsOK'
  BY EventIsCurrent DEF Swallowed
<1>2. s = current
  BY <1>1, BusyIsCurrent DEF Swallowed
<1>3. Resumed(s) \in [Timer -> TimerState] /\ place[s] \in Places(s)
  BY ResumedTyped DEF IInv, ScreensOK, ScreenTypes, ScreenPlaces
<1>4. Stays(s, place[s], Resumed(s)) /\ wait' = wait /\ UNCHANGED dataVars
  BY DEF Swallowed
<1>5. place' = place
  BY <1>4 DEF Stays, IInv, ScreensOK, ScreenTypes
<1>6. wait' \in BOOLEAN /\ (wait' => place'[current] \in Shown(current))
  BY <1>4, <1>5 DEF IInv, ScreensOK, ScreenTypes, WaitShown, Shown, Waits
<1> QED
  BY <1>1, <1>2, <1>3, <1>4, <1>6, WaitsOn

LEMMA DroppedKeeps == IInv /\ Dropped => IInv'
<1> SUFFICES ASSUME IInv, Dropped PROVE IInv'
  OBVIOUS
<1>1. EventsOK'
  BY HeadTailProperties, NumAssumption DEF Dropped, IInv, EventsOK
<1> QED
  BY <1>1
  DEF Dropped, screenVars, dataVars, IInv, ScreensOK, ScreenTypes, OneScreen,
      ScreenPlaces, LeftOvers, WaitShown, DataTypes, NumberShown, Here, Known,
      ActivationGranted, CodeOpen, CodeCleared

\* The startup screen.
LEMMA StartupKeeps ==
  ASSUME IInv, Ready \/ StartupResumed \/ StartupMessageEnds
  PROVE  IInv'
<1>0. /\ "startup" \in Screen /\ "message" \in Timer
      /\ "message" \in Places("startup") /\ timer \in [Timer -> TimerState]
      /\ Set(timer, "message", "startup") \in [Timer -> TimerState]
  BY TimersTyped DEF Screen, Timer, Places, IInv, ScreensOK, ScreenTypes
<1>1. CASE Ready
  <2>1. "startup" \in running /\ "startup" = current /\ EventsOK'
    BY <1>1 DEF Ready, IInv, ScreensOK, OneScreen, EventsOK
  <2>2. CASE Stays("startup", "message", Set(timer, "message", "startup"))
             /\ wait' = FALSE /\ UNCHANGED dataVars
    BY <1>0, <2>1, <2>2, WaitsOn
  <2>3. CASE Load("startup", "idle", FALSE, timer) /\ LoadData("idle") /\ UNCHANGED language
    BY <1>0, <2>1, <2>3, GoesIdle DEF IInv, DataTypes
  <2> QED
    BY <1>1, <2>2, <2>3 DEF Ready
<1>2. CASE StartupResumed
  <2>1. EventsOK'
    BY <1>0, <1>2, KeyIsCurrent DEF StartupResumed
  <2> QED
    BY <1>2, <2>1
    DEF StartupResumed, screenVars, dataVars, IInv, ScreensOK, ScreenTypes,
        OneScreen, ScreenPlaces, LeftOvers, WaitShown, DataTypes, NumberShown,
        Here, Known, ActivationGranted, CodeOpen, CodeCleared
<1>3. CASE StartupMessageEnds
  <2>1. "startup" \in running /\ EventsOK'
    BY <1>0, <1>3, EventIsCurrent DEF StartupMessageEnds, MessageEnds
  <2> QED
    BY <1>0, <1>3, <2>1, GoesIdle DEF StartupMessageEnds, IInv, DataTypes
<1> QED
  BY <1>1, <1>2, <1>3

\* The number is of at most MaxNumber, whatever digits are typed.
LEMMA TypedNumber ==
  ASSUME number \in 0..MaxNumber, NEW key \in Digit
  PROVE  LET typed == number * Base + key
         IN  (IF typed > MaxNumber THEN 0 ELSE typed) \in 0..MaxNumber
<1>1. number \in Nat /\ Base \in Nat /\ key \in Nat /\ MaxNumber \in Nat
  BY NumAssumption
<1>2. number * Base \in Nat
  BY <1>1
<1> QED
  BY <1>1, <1>2

\* While the idle screen is current, its data may be anything of its type.
LEMMA IdleData ==
  ASSUME ScreensOK', current' = "idle", EventsOK', DataTypes'
  PROVE  IInv'
BY NotSending DEF IInv, NumberShown

LEMMA IdleResumedKeeps ==
  ASSUME IInv, IdleResumed
  PROVE  IInv'
<1>1. "idle" \in Screen /\ "idle" \notin Lingering /\ "loop" \in Places("idle")
  BY DEF Screen, Lingering, Places
<1>2. "idle" \in running /\ EventsOK'
  BY <1>1, EventIsCurrent DEF IdleResumed
<1>3. "idle" = current
  BY <1>1, <1>2, BusyIsCurrent
<1>4. Resumed("idle") \in [Timer -> TimerState]
  BY <1>1, ResumedTyped DEF IInv, ScreensOK, ScreenTypes
<1>5. wait' = FALSE
  BY <1>1, <1>3, NoWait DEF IdleResumed, Waits
<1>6. Stays("idle", "loop", Resumed("idle")) /\ current' = current
  BY DEF IdleResumed, Stays
<1>7. ScreensOK'
  BY <1>1, <1>2, <1>3, <1>4, <1>5, <1>6, StaysKeeps DEF IInv
<1>8. DataTypes'
  BY DEF IdleResumed, IInv, DataTypes
<1> QED
  BY <1>2, <1>3, <1>6, <1>7, <1>8, IdleData

LEMMA IdleKeyKeeps ==
  ASSUME IInv, NEW key \in Key, IdleKey(key)
  PROVE  IInv'
<1>1. /\ {"idle", "language", "overview"} \subseteq Screen
      /\ {"loop", "message"} \subseteq Places("idle")
      /\ {"message", "language"} \subseteq Timer
  BY DEF Screen, Places, Timer
<1>2. "idle" = current /\ "idle" \in running /\ EventsOK' /\ place["idle"] = "loop"
  BY <1>1, KeyIsCurrent DEF IdleKey
<1>3. /\ Resumed("idle") \in [Timer -> TimerState]
      /\ Set(Resumed("idle"), "message", "idle") \in [Timer -> TimerState]
      /\ Set(Resumed("idle"), "language", "idle") \in [Timer -> TimerState]
  BY <1>1, ResumedTyped, TimersTyped DEF IInv, ScreensOK, ScreenTypes
<1>4. place[current] \notin Waits /\ DataTypes /\ ScreensOK
  BY <1>2 DEF Waits, IInv
<1>5. CASE /\ Load("idle", "language", FALSE, Resumed("idle"))
           /\ number' = 0
           /\ UNCHANGED <<language, code, uid, point, granted>>
  <2>1. ScreensOK' /\ current' = "language"
    BY <1>1, <1>2, <1>3, <1>4, <1>5, LoadKeeps
  <2>2. DataTypes'
    BY <1>4, <1>5, NumAssumption DEF DataTypes
  <2> QED
    BY <1>2, <2>1, <2>2, NotSending DEF IInv, NumberShown
<1>6. CASE Exists /\ Load("idle", "overview", FALSE, Resumed("idle")) /\ UNCHANGED dataVars
  <2>1. ScreensOK' /\ current' = "overview"
    BY <1>1, <1>2, <1>3, <1>4, <1>6, LoadKeeps
  <2>2. DataTypes' /\ NumberShown'
    BY <1>4, <1>6 DEF DataTypes, dataVars, NumberShown, Exists, Here, Known
  <2> QED
    BY <1>2, <2>1, <2>2, NotSending DEF IInv
<1>7. CASE Message("idle", Resumed("idle")) /\ UNCHANGED dataVars
  BY <1>1, <1>2, <1>3, <1>7, WaitsOn DEF Message
<1>8. CASE /\ key \in Digit
           /\ number' = LET typed == number * Base + key
                        IN  IF typed > MaxNumber THEN 0 ELSE typed
           /\ Stays("idle", "loop", Set(Resumed("idle"), "language", "idle"))
           /\ wait' = FALSE
           /\ UNCHANGED <<language, code, uid, point, granted>>
  <2>1. ScreensOK' /\ current' = "idle"
    BY <1>1, <1>2, <1>3, <1>4, <1>8, StaysKeeps DEF Stays
  <2>2. DataTypes'
    BY <1>4, <1>8, TypedNumber DEF DataTypes
  <2> QED
    BY <1>2, <2>1, <2>2, IdleData
<1>9. CASE Stays("idle", "loop", Resumed("idle")) /\ wait' = FALSE /\ UNCHANGED dataVars
  BY <1>1, <1>2, <1>3, <1>9, WaitsOn
<1> QED
  BY <1>5, <1>6, <1>7, <1>8, <1>9 DEF IdleKey

LEMMA IdleMessageEndsKeeps ==
  ASSUME IInv, IdleMessageEnds
  PROVE  IInv'
<1>1. "idle" \in Screen /\ "idle" \notin Lingering /\ "loop" \in Places("idle")
  BY DEF Screen, Lingering, Places
<1>2. "idle" \in running /\ EventsOK'
  BY <1>1, EventIsCurrent DEF IdleMessageEnds, MessageEnds
<1>3. "idle" = current
  BY <1>1, <1>2, BusyIsCurrent
<1>4. Resumed("idle") \in [Timer -> TimerState]
  BY <1>1, ResumedTyped DEF IInv, ScreensOK, ScreenTypes
<1>5. Stays("idle", "loop", Resumed("idle")) /\ current' = current /\ wait' = FALSE
  BY DEF IdleMessageEnds, Stays
<1>6. ScreensOK'
  BY <1>1, <1>2, <1>3, <1>4, <1>5, StaysKeeps DEF IInv
<1>7. DataTypes'
  BY NumAssumption DEF IdleMessageEnds, IInv, DataTypes
<1> QED
  BY <1>2, <1>3, <1>5, <1>6, <1>7, IdleData

\* The screens and the data as they were: an event that is let pass.
LEMMA UnchangedKeeps ==
  ASSUME IInv, EventsOK', UNCHANGED <<screenVars, dataVars>>
  PROVE  IInv'
BY DEF screenVars, dataVars, IInv, ScreensOK, ScreenTypes, OneScreen,
       ScreenPlaces, LeftOvers, WaitShown, DataTypes, NumberShown, Here, Known,
       ActivationGranted, CodeOpen, CodeCleared

\* A point once known stays known, whatever its state becomes.
LEMMA PointKeeps ==
  ASSUME IInv, ScreensOK', EventsOK', current' = current,
         place'["pin"] = place["pin"],
         UNCHANGED <<number, language, code, uid, granted>>,
         \/ UNCHANGED point
         \/ \E n \in 0..(NumberMod - 1), st \in State :
              point' = [point EXCEPT ![n] = st]
  PROVE  IInv'
<1>1. DataTypes'
  BY DEF IInv, DataTypes
<1>2. Known \subseteq Known'
  BY DEF Known, State, IInv, DataTypes
<1>3. NumberShown'
  BY <1>2 DEF IInv, NumberShown, Here
<1>4. CASE current = "pin"
  <2>1. "pin" \in running
    BY <1>4 DEF IInv, ScreensOK, OneScreen
  <2>2. ActivationGranted' /\ CodeOpen'
    BY <1>4, <2>1 DEF IInv, ActivationGranted, CodeOpen, CodeCleared, Here
  <2> QED
    BY <1>1, <1>3, <2>2 DEF IInv
<1>5. CASE current # "pin"
  BY <1>1, <1>3, <1>5, NotSending DEF IInv
<1> QED
  BY <1>4, <1>5

\* The number that is shown is stored as one of the energy points.
LEMMA HereTyped ==
  ASSUME DataTypes
  PROVE  Here \in 0..(NumberMod - 1)
BY StoredTyped, NumAssumption DEF DataTypes, Here

LEMMA LanguageKeyKeeps ==
  ASSUME IInv, NEW key \in Key, LanguageKey(key)
  PROVE  IInv'
<1>1. "language" \in Screen /\ "language" \in Lingering
  BY DEF Screen, Lingering
<1>2. "language" \in running /\ EventsOK'
  BY <1>1, KeyIsCurrent DEF LanguageKey
<1>3. timer \in [Timer -> TimerState]
  BY DEF IInv, ScreensOK, ScreenTypes
<1>4. CASE /\ \E chosen \in {"NL", "other"} : language' = chosen
           /\ Load("language", "idle", TRUE, timer) /\ LoadData("idle")
  BY <1>1, <1>2, <1>3, <1>4, GoesIdle
<1>5. CASE UNCHANGED <<screenVars, dataVars>>
  BY <1>2, <1>5, UnchangedKeeps
<1> QED
  BY <1>4, <1>5 DEF LanguageKey

LEMMA LanguageResumedKeeps ==
  ASSUME IInv, LanguageResumed
  PROVE  IInv'
<1>1. "language" \in Screen /\ "language" \in Lingering
  BY DEF Screen, Lingering
<1>2. "language" \in running /\ EventsOK'
  BY <1>1, EventIsCurrent DEF LanguageResumed
<1>3. timer \in [Timer -> TimerState]
  BY DEF IInv, ScreensOK, ScreenTypes
<1>4. CASE TimesOut("language", timer)
  BY <1>1, <1>2, <1>3, <1>4, TimesOutKeeps
<1>5. CASE UNCHANGED <<screenVars, dataVars>>
  BY <1>2, <1>5, UnchangedKeeps
<1> QED
  BY <1>4, <1>5 DEF LanguageResumed

-----------------------------------------------------------------------------
(* The overview. *)

\* What the actions of the overview share.
LEMMA OverviewFacts ==
  ASSUME IInv
  PROVE  /\ "overview" \in Screen /\ "overview" \in Lingering
         /\ {"loop", "message", "send"} \subseteq Places("overview")
         /\ Resumed("overview") \in [Timer -> TimerState]
         /\ Refreshed \in [Timer -> TimerState]
         /\ \A tm \in [Timer -> TimerState], t \in Timer :
              Set(tm, t, "overview") \in [Timer -> TimerState]
<1>1. /\ "overview" \in Screen /\ "overview" \in Lingering
      /\ {"loop", "message", "send"} \subseteq Places("overview")
      /\ timer \in [Timer -> TimerState]
  BY DEF Screen, Lingering, Places, IInv, ScreensOK, ScreenTypes
<1> QED
  BY <1>1, ResumedTyped, RefreshedTyped, TimersTyped

\* The end of its loop.
LEMMA OverviewWaitsKeeps ==
  ASSUME IInv, EventsOK', "overview" \in running,
         place["overview"] \in {"loop", "message"},
         NEW isTimer \in BOOLEAN, NEW tm \in [Timer -> TimerState],
         OverviewWaits(isTimer, tm)
  PROVE  IInv'
<1>1. CASE TimesOut("overview", tm)
  BY <1>1, OverviewFacts, TimesOutKeeps
<1>2. CASE Stays("overview", "loop", tm) /\ UNCHANGED <<wait, dataVars>>
  <2>1. /\ place' = [place EXCEPT !["overview"] = "loop"] /\ current' = current
        /\ place \in [Screen -> {"loop", "message", "ask", "send", "present"}]
        /\ wait' = wait /\ wait \in BOOLEAN /\ current \in Screen
    BY <1>2 DEF Stays, IInv, ScreensOK, ScreenTypes
  <2>2. wait' => place'[current] \in Shown(current)
    BY <2>1 DEF IInv, ScreensOK, WaitShown, Shown, Waits
  <2> QED
    BY <1>2, <2>1, <2>2, OverviewFacts, WaitsOn
<1> QED
  BY <1>1, <1>2 DEF OverviewWaits

LEMMA OverviewResumedKeeps ==
  ASSUME IInv, OverviewResumed
  PROVE  IInv'
<1>1. "overview" \in running /\ EventsOK'
  BY OverviewFacts, EventIsCurrent DEF OverviewResumed
<1> QED
  BY <1>1, OverviewFacts, OverviewWaitsKeeps DEF OverviewResumed

LEMMA OverviewMessageEndsKeeps ==
  ASSUME IInv, OverviewMessageEnds
  PROVE  IInv'
<1>1. "overview" \in running /\ EventsOK' /\ place["overview"] = "message"
  BY OverviewFacts, EventIsCurrent DEF OverviewMessageEnds, MessageEnds
<1>2. (events[1].kind = "timer") \in BOOLEAN
  OBVIOUS
<1> QED
  BY <1>1, <1>2, OverviewFacts, OverviewWaitsKeeps DEF OverviewMessageEnds

LEMMA OverviewKeyKeeps ==
  ASSUME IInv, NEW key \in Key, OverviewKey(key)
  PROVE  IInv'
<1>1. "overview" = current /\ "overview" \in running /\ EventsOK'
  BY OverviewFacts, KeyIsCurrent DEF OverviewKey
<1>2. place["overview"] = "loop" /\ place[current] \notin Waits
  BY <1>1 DEF OverviewKey, Waits
<1>3. wait = FALSE
  BY <1>1, <1>2, OverviewFacts, NoWait
<1>4. CASE Load("overview", "idle", FALSE, Refreshed) /\ LoadData("idle") /\ UNCHANGED language
  BY <1>1, <1>4, OverviewFacts, GoesIdle DEF IInv, DataTypes
<1>5. CASE Load("overview", "pin", FALSE, Refreshed) /\ LoadData("pin") /\ UNCHANGED language
  <2>1. "pin" \in Screen \ {"startup"} /\ ScreensOK
    BY DEF Screen, IInv
  <2>2. ScreensOK' /\ current' = "pin" /\ place'["pin"] = "loop"
    BY <1>1, <1>2, <1>5, <2>1, OverviewFacts, LoadKeeps
  <2>3. DataTypes'
    BY <1>5, CodeAssumption DEF LoadData, NoDigits, Blank, IInv, DataTypes
  <2>4. NumberShown'
    BY <1>1, <1>5 DEF LoadData, IInv, NumberShown, Here, Known
  <2>5. ActivationGranted' /\ CodeOpen'
    BY <1>5, <2>2, CodeAssumption
    DEF LoadData, NoDigits, Blank, Byte, ActivationGranted, CodeOpen, CodeCleared
  <2> QED
    BY <1>1, <2>2, <2>3, <2>4, <2>5 DEF IInv
<1>6. CASE Stays("overview", "send", Refreshed) /\ UNCHANGED <<wait, dataVars>>
  BY <1>1, <1>3, <1>6, OverviewFacts, WaitsOn
<1>7. CASE Message("overview", Refreshed) /\ UNCHANGED dataVars
  <2>1. Set(Refreshed, "message", "overview") \in [Timer -> TimerState]
    BY OverviewFacts DEF Timer
  <2> QED
    BY <1>1, <1>7, <2>1, OverviewFacts, WaitsOn DEF Message
<1>8. CASE OverviewWaits(FALSE, Refreshed)
  BY <1>1, <1>2, <1>8, OverviewFacts, OverviewWaitsKeeps
<1> QED
  BY <1>4, <1>5, <1>6, <1>7, <1>8 DEF OverviewKey

\* A reply to the overview.
LEMMA OverviewReplyKeeps ==
  ASSUME IInv, OverviewReply
  PROVE  IInv'
<1>1. "overview" \in running /\ place["overview"] = "ask" /\ "overview" = current
  BY BusyIsCurrent DEF OverviewReply
<1>2. EventsOK' /\ ScreensOK /\ "pin" \in Screen
  BY DEF OverviewReply, IInv, EventsOK, Screen
<1>3. /\ ScreensOK' /\ current' = current /\ place'["pin"] = place["pin"]
  <2>1. CASE /\ asked < NumAsks
             /\ asked' = asked + 1
             /\ timer' = Resumed("overview")
             /\ UNCHANGED <<current, listed, running, place, wait>>
    <3>1. asked' \in 0..NumAsks
      BY <1>2, <2>1, NumAssumption DEF ScreensOK, ScreenTypes
    <3> QED
      BY <1>2, <2>1, <3>1, OverviewFacts
      DEF ScreensOK, ScreenTypes, OneScreen, ScreenPlaces, LeftOvers, WaitShown
  <2>2. CASE /\ asked = NumAsks
             /\ timer' = Set(Set(Resumed("overview"), "screen", "overview"), "refresh", "overview")
             /\ place' = [place EXCEPT !["overview"] = "loop"]
             /\ wait' = FALSE
             /\ UNCHANGED <<current, listed, running, asked>>
    <3> DEFINE tm == Set(Set(Resumed("overview"), "screen", "overview"), "refresh", "overview")
    <3>1. tm \in [Timer -> TimerState]
      <4>1. "screen" \in Timer /\ "refresh" \in Timer
        BY DEF Timer
      <4> QED
        BY <4>1, OverviewFacts
    <3>2. Stays("overview", "loop", tm)
      BY <2>2 DEF Stays
    <3> HIDE DEF tm
    <3>3. ScreensOK'
      BY <1>1, <1>2, <2>2, <3>1, <3>2, OverviewFacts, StaysKeeps
    <3> QED
      BY <1>2, <2>2, <3>3 DEF ScreensOK, ScreenTypes
  <2> QED
    BY <2>1, <2>2 DEF OverviewReply
<1>4. \/ UNCHANGED point
      \/ \E n \in 0..(NumberMod - 1), st \in State : point' = [point EXCEPT ![n] = st]
  BY HereTyped DEF OverviewReply, IInv
<1> QED
  BY <1>2, <1>3, <1>4, PointKeeps DEF OverviewReply

LEMMA OverviewRefusedKeeps ==
  ASSUME IInv, OverviewRefused
  PROVE  IInv'
<1>1. EventsOK' /\ language' \in {"NL", "other"}
  BY DEF OverviewRefused, IInv, EventsOK, DataTypes
<1> QED
  BY <1>1, OverviewFacts, GoesIdle DEF OverviewRefused

LEMMA OverviewSentKeeps ==
  ASSUME IInv, OverviewSent
  PROVE  IInv'
<1>1. "overview" \in running /\ place["overview"] = "send" /\ "overview" = current
  BY BusyIsCurrent DEF OverviewSent
<1>2. EventsOK' /\ ScreensOK /\ "pin" \in Screen /\ wait \in BOOLEAN
  BY DEF OverviewSent, IInv, EventsOK, Screen, ScreensOK, ScreenTypes
<1>3. Stays("overview", "loop", Resumed("overview")) /\ wait' = wait
  BY DEF OverviewSent
<1>4. wait = FALSE
  BY <1>1, <1>2 DEF ScreensOK, WaitShown, Shown
<1>5. ScreensOK'
  BY <1>1, <1>2, <1>3, <1>4, OverviewFacts, StaysKeeps
<1>6. current' = current /\ place'["pin"] = place["pin"]
  BY <1>2, <1>3 DEF Stays, ScreensOK, ScreenTypes
<1>7. \/ UNCHANGED point
      \/ \E n \in 0..(NumberMod - 1), st \in State : point' = [point EXCEPT ![n] = st]
  BY HereTyped DEF OverviewSent, IInv, State
<1> QED
  BY <1>2, <1>5, <1>6, <1>7, PointKeeps DEF OverviewSent

-----------------------------------------------------------------------------
(* The pin screen. *)

\* What the actions of the pin screen share.
LEMMA PinFacts ==
  ASSUME IInv
  PROVE  /\ "pin" \in Screen /\ "pin" \in Lingering
         /\ {"loop", "message", "send", "present"} \subseteq Places("pin")
         /\ timer \in [Timer -> TimerState]
         /\ Set(timer, "screen", "pin") \in [Timer -> TimerState]
         /\ Set(timer, "message", "pin") \in [Timer -> TimerState]
         /\ ScreensOK /\ DataTypes
<1>1. /\ "pin" \in Screen /\ "pin" \in Lingering
      /\ {"loop", "message", "send", "present"} \subseteq Places("pin")
      /\ timer \in [Timer -> TimerState]
      /\ "screen" \in Timer /\ "message" \in Timer
  BY DEF Screen, Lingering, Places, Timer, IInv, ScreensOK, ScreenTypes
<1> QED
  BY <1>1, TimersTyped DEF IInv

\* The digits of the code that is typed are those of the UID.
Digits == \A i \in Byte : uid[i] = IF i < code THEN "typed" ELSE "blank"

\* The pin screen goes on to wait at where, with another code or a code accepted.
LEMMA PinWaits ==
  ASSUME IInv, EventsOK', "pin" \in running, "pin" = current,
         NEW where \in {"loop", "message", "send", "present"},
         NEW tm \in [Timer -> TimerState], Stays("pin", where, tm),
         wait' \in BOOLEAN, wait' => where \in Waits,
         UNCHANGED <<number, language, point>>,
         code' \in 0..CodeLength, uid' \in [Byte -> {"blank", "typed", "earlier"}],
         where \in {"loop", "present"} => Digits',
         where = "loop" => code' < CodeLength,
         where = "present" => code' = CodeLength,
         where = "message" => code' = 0,
         granted' \in 0..MaxNumber \cup {None},
         where = "send" => granted' = number
  PROVE  IInv'
<1>1. /\ place' = [place EXCEPT !["pin"] = where] /\ current' = "pin"
      /\ place \in [Screen -> {"loop", "message", "ask", "send", "present"}]
  BY DEF Stays, IInv, ScreensOK, ScreenTypes
<1>2. place'["pin"] = where
  BY <1>1, PinFacts
<1>3. wait' => place'[current] \in Shown(current)
  BY <1>2 DEF Shown
<1>4. ScreensOK'
  BY <1>3, PinFacts, StaysKeeps
<1>5. DataTypes' /\ NumberShown'
  BY <1>1 DEF IInv, DataTypes, NumberShown, Here, Known
<1>6. ActivationGranted'
  <2>1. where = "send" => granted' # None /\ Here' = Stored(granted')
    BY <1>5 DEF Here, Stored, None, DataTypes
  <2> QED
    BY <1>2, <2>1 DEF ActivationGranted
<1>7. CodeOpen'
  BY <1>2 DEF Digits, CodeOpen, CodeCleared
<1> QED
  BY <1>4, <1>5, <1>6, <1>7 DEF IInv

LEMMA PinKeyKeeps ==
  ASSUME IInv, NEW key \in Key, PinKey(key)
  PROVE  IInv'
<1>1. "pin" = current /\ "pin" \in running /\ EventsOK' /\ place["pin"] = "loop"
  BY PinFacts, KeyIsCurrent DEF PinKey
<1>2. /\ code \in 0..CodeLength /\ code < CodeLength /\ CodeLength \in 1..7
      /\ uid \in [Byte -> {"blank", "typed", "earlier"}] /\ Digits
  BY <1>1, CodeAssumption DEF IInv, CodeOpen, CodeCleared, Digits, DataTypes
<1>3. wait = FALSE
  BY <1>1, PinFacts, NoWait DEF Waits
<1> DEFINE tm == Set(timer, "screen", "pin")
<1>4. tm \in [Timer -> TimerState]
  BY PinFacts
<1> HIDE DEF tm
<1>5. /\ number \in 0..MaxNumber /\ granted \in 0..MaxNumber \cup {None}
  BY DEF IInv, DataTypes
<1> DEFINE longer == [uid EXCEPT ![code] = "typed"]
<1>6. /\ longer \in [Byte -> {"blank", "typed", "earlier"}]
      /\ code' = code + 1 /\ uid' = longer => Digits'
  BY <1>2 DEF Digits, Byte
<1> HIDE DEF longer
<1>7. Blank \in [Byte -> {"blank", "typed", "earlier"}]
  BY DEF Blank
<1>8. CASE /\ Load("pin", "overview", FALSE, tm)
           /\ code' = 0 /\ uid' = Blank
           /\ UNCHANGED <<number, language, point, granted>>
  <2>1. "overview" \in Screen \ {"startup"}
    BY DEF Screen
  <2>2. ScreensOK' /\ current' = "overview"
    BY <1>1, <1>4, <1>8, <2>1, PinFacts, LoadKeeps
  <2>3. DataTypes' /\ NumberShown'
    BY <1>1, <1>2, <1>7, <1>8 DEF IInv, DataTypes, NumberShown, Here, Known
  <2> QED
    BY <1>1, <2>2, <2>3, NotSending DEF IInv
<1>9. CASE Stays("pin", "loop", tm) /\ UNCHANGED <<wait, dataVars>>
  <2>1. Digits'
    BY <1>2, <1>9 DEF Digits, dataVars
  <2> QED
    BY <1>1, <1>2, <1>3, <1>4, <1>5, <1>9, <2>1, PinWaits DEF dataVars
<1>10. CASE /\ code + 1 # CodeLength /\ code' = code + 1 /\ uid' = longer
            /\ Stays("pin", "loop", tm)
            /\ UNCHANGED <<wait, number, language, point, granted>>
  <2>1. code' \in 0..CodeLength /\ code' < CodeLength
    BY <1>2, <1>10
  <2> QED
    BY <1>1, <1>3, <1>4, <1>5, <1>6, <1>10, <2>1, PinWaits
<1>11. CASE /\ code' = 0 /\ uid' = Blank /\ granted' = number
            /\ Stays("pin", "send", tm)
            /\ UNCHANGED <<wait, number, language, point>>
  <2>1. code' \in 0..CodeLength
    BY <1>2, <1>11
  <2> QED
    BY <1>1, <1>3, <1>4, <1>5, <1>7, <1>11, <2>1, PinWaits
<1>12. CASE /\ code + 1 = CodeLength /\ code' = code + 1 /\ uid' = longer
            /\ UNCHANGED granted
            /\ Stays("pin", "present", tm)
            /\ wait' = TRUE
            /\ UNCHANGED <<number, language, point>>
  <2>1. code' \in 0..CodeLength
    BY <1>2, <1>12
  <2> QED
    BY <1>1, <1>4, <1>5, <1>6, <1>12, <2>1, PinWaits DEF Waits
<1> QED
  BY <1>8, <1>9, <1>10, <1>11, <1>12 DEF PinKey, tm, longer

\* The server's answer to a code that was presented.
LEMMA PinPresentedKeeps ==
  ASSUME IInv, PinPresented
  PROVE  IInv'
<1>1. "pin" \in running /\ place["pin"] = "present" /\ "pin" = current /\ EventsOK'
  BY BusyIsCurrent DEF PinPresented, IInv, EventsOK
<1>2. /\ code' = 0 /\ code' \in 0..CodeLength
      /\ UNCHANGED <<number, language, point>>
  BY CodeAssumption DEF PinPresented
<1>3. /\ number \in 0..MaxNumber /\ wait \in BOOLEAN
      /\ Blank \in [Byte -> {"blank", "typed", "earlier"}]
      /\ Earlier(uid) \in [Byte -> {"blank", "typed", "earlier"}]
  BY DEF IInv, DataTypes, ScreensOK, ScreenTypes, Blank, Earlier
<1>4. PICK answer \in Answer :
        /\ granted' = IF answer = "akkoord" THEN number ELSE None
        /\ IF Accepted(answer)
             THEN uid' = Blank /\ Stays("pin", "send", timer) /\ UNCHANGED wait
             ELSE uid' = Earlier(uid) /\ Message("pin", timer)
  BY DEF PinPresented
<1>5. granted' \in 0..MaxNumber \cup {None}
  BY <1>3, <1>4
<1>6. CASE Accepted(answer)
  <2>1. granted' = number /\ Stays("pin", "send", timer) /\ wait' = wait /\ uid' = Blank
    BY <1>4, <1>6 DEF Accepted
  <2> QED
    BY <1>1, <1>2, <1>3, <1>5, <2>1, PinFacts, PinWaits DEF Waits
<1>7. CASE ~Accepted(answer)
  <2>1. /\ Stays("pin", "message", Set(timer, "message", "pin")) /\ wait' = FALSE
        /\ uid' = Earlier(uid)
    BY <1>4, <1>7 DEF Message
  <2> QED
    BY <1>1, <1>2, <1>3, <1>5, <2>1, PinFacts, PinWaits
<1> QED
  BY <1>6, <1>7

LEMMA PinSentKeeps ==
  ASSUME IInv, PinSent
  PROVE  IInv'
<1>1. "pin" \in running /\ place["pin"] = "send" /\ "pin" = current /\ EventsOK'
  BY BusyIsCurrent DEF PinSent, IInv, EventsOK
<1>2. "overview" \in Screen \ {"startup"}
  BY DEF Screen
<1>3. ScreensOK' /\ current' = "overview"
  BY <1>1, <1>2, PinFacts, LoadKeeps DEF PinSent
<1>4. DataTypes'
  BY PinFacts, HereTyped DEF PinSent, DataTypes, State
<1>5. Known \subseteq Known'
  BY PinFacts DEF PinSent, Known, DataTypes
<1>6. NumberShown'
  BY <1>1, <1>5 DEF PinSent, IInv, NumberShown, Here
<1> QED
  BY <1>1, <1>3, <1>4, <1>6, NotSending DEF IInv

LEMMA PinMessageEndsKeeps ==
  ASSUME IInv, PinMessageEnds
  PROVE  IInv'
<1>1. "pin" \in running /\ place["pin"] = "message" /\ EventsOK'
  BY PinFacts, EventIsCurrent DEF PinMessageEnds, MessageEnds
<1>2. "pin" = current
  BY <1>1, BusyIsCurrent
<1>3. wait = FALSE
  BY <1>1, <1>2, PinFacts, NoWait DEF Waits
<1>4. /\ code = 0 /\ code \in 0..CodeLength /\ 0 < CodeLength
      /\ number \in 0..MaxNumber /\ granted \in 0..MaxNumber \cup {None}
  BY <1>1, <1>2, CodeAssumption DEF IInv, CodeOpen, DataTypes
<1>5. /\ UNCHANGED <<wait, number, language, code, point, granted>>
      /\ Stays("pin", "loop", timer) /\ uid' = Blank
  BY DEF PinMessageEnds
<1>6. uid' \in [Byte -> {"blank", "typed", "earlier"}] /\ Digits'
  BY <1>4, <1>5 DEF Blank, Digits, Byte
<1> QED
  BY <1>1, <1>2, <1>3, <1>4, <1>5, <1>6, PinFacts, PinWaits

LEMMA PinResumedKeeps ==
  ASSUME IInv, PinResumed
  PROVE  IInv'
<1>1. "pin" \in running /\ EventsOK'
  BY PinFacts, EventIsCurrent DEF PinResumed
<1>2. CASE TimesOut("pin", timer)
  BY <1>1, <1>2, PinFacts, TimesOutKeeps
<1>3. CASE UNCHANGED <<screenVars, dataVars>>
  BY <1>1, <1>3, UnchangedKeeps
<1> QED
  BY <1>2, <1>3 DEF PinResumed

-----------------------------------------------------------------------------
(* The keypad, the timers and the devices. *)

LEMMA PressKeeps ==
  ASSUME IInv, Press
  PROVE  IInv'
<1>1. EventsOK'
  BY PostedTyped DEF Press, IInv, Event
<1> QED
  BY <1>1, UnchangedKeeps DEF Press

LEMMA ExpireKeeps ==
  ASSUME IInv, NEW t \in Timer, Expire(t)
  PROVE  IInv'
<1>1. EventsOK'
  BY PostedTyped DEF Expire, IInv, Event
<1>2. ScreensOK'
  BY DEF Expire, IInv, ScreensOK, ScreenTypes, OneScreen, ScreenPlaces, LeftOvers,
         WaitShown, TimerState
<1> QED
  BY <1>1, <1>2
  DEF Expire, dataVars, IInv, DataTypes, NumberShown, Here, Known,
      ActivationGranted, CodeOpen, CodeCleared

LEMMA AnnounceKeeps ==
  ASSUME IInv, NEW n \in Announced, Announce(n)
  PROVE  IInv'
<1>1. EventsOK' /\ ScreensOK' /\ current' = current /\ place' = place
  BY DEF Announce, screenVars, IInv, EventsOK, ScreensOK, ScreenTypes, OneScreen,
         ScreenPlaces, LeftOvers, WaitShown
<1>2. \E m \in 0..(NumberMod - 1), st \in State : point' = [point EXCEPT ![m] = st]
  BY AnnouncedAssumption DEF Announce, State
<1> QED
  BY <1>1, <1>2, PointKeeps DEF Announce

LEMMA StateSentKeeps ==
  ASSUME IInv, NEW n \in Announced, NEW st \in State, StateSent(n, st)
  PROVE  IInv'
<1>1. EventsOK'
  BY PostedTyped DEF StateSent, IInv, Event
<1>2. ScreensOK' /\ current' = current /\ place' = place
  BY DEF StateSent, screenVars, IInv, ScreensOK, ScreenTypes, OneScreen,
         ScreenPlaces, LeftOvers, WaitShown
<1>3. \E m \in 0..(NumberMod - 1), x \in State : point' = [point EXCEPT ![m] = x]
  BY DEF StateSent, Known
<1> QED
  BY <1>1, <1>2, <1>3, PointKeeps DEF StateSent

-----------------------------------------------------------------------------
(* The theorems. *)

LEMMA InitIInv == Init => IInv
<1> SUFFICES ASSUME Init PROVE IInv
  OBVIOUS
<1>1. ScreensOK
  <2>1. ScreenTypes
    <3>1. current \in Screen /\ listed \subseteq Screen /\ running \subseteq Screen
      BY DEF Init, Screen
    <3>2. place \in [Screen -> {"loop", "message", "ask", "send", "present"}]
      BY DEF Init
    <3>3. timer \in [Timer -> TimerState]
      BY DEF Init, TimerState
    <3>4. asked \in 0..NumAsks
      <4>1. asked = 0
        BY DEF Init
      <4> QED
        BY <4>1, NumAssumption
    <3>5. wait \in BOOLEAN
      BY DEF Init
    <3> QED
      BY <3>1, <3>2, <3>3, <3>4, <3>5 DEF ScreenTypes
  <2>2. OneScreen /\ LeftOvers /\ WaitShown
    BY DEF Init, OneScreen, LeftOvers, WaitShown
  <2>3. ScreenPlaces
    BY DEF Init, ScreenPlaces, Screen, Places
  <2> QED
    BY <2>1, <2>2, <2>3 DEF ScreensOK
<1>2. EventsOK
  BY NumAssumption DEF Init, EventsOK
<1>3. DataTypes
  BY NumAssumption, CodeAssumption DEF Init, Blank, DataTypes
<1> QED
  BY <1>1, <1>2, <1>3
  DEF Init, IInv, NumberShown, ActivationGranted, CodeOpen, CodeCleared

LEMMA NextIInv == IInv /\ [Next]_vars => IInv'
<1> SUFFICES ASSUME IInv, [Next]_vars PROVE IInv'
  OBVIOUS
<1>1. CASE Ready \/ StartupResumed \/ StartupMessageEnds
  BY <1>1, StartupKeeps
<1>2. CASE \E s \in Screen : Swallowed(s)
  BY <1>2, SwallowedKeeps
<1>3. CASE Dropped
  BY <1>3, DroppedKeeps
<1>4. CASE \E key \in Key : IdleKey(key) \/ LanguageKey(key) \/ OverviewKey(key) \/ PinKey(key)
  BY <1>4, IdleKeyKeeps, LanguageKeyKeeps, OverviewKeyKeeps, PinKeyKeeps
<1>5. CASE IdleResumed \/ LanguageResumed \/ OverviewResumed \/ PinResumed
  BY <1>5, IdleResumedKeeps, LanguageResumedKeeps, OverviewResumedKeeps, PinResumedKeeps
<1>6. CASE IdleMessageEnds \/ OverviewMessageEnds \/ PinMessageEnds
  BY <1>6, IdleMessageEndsKeeps, OverviewMessageEndsKeeps, PinMessageEndsKeeps
<1>7. CASE OverviewReply \/ OverviewRefused \/ OverviewSent
  BY <1>7, OverviewReplyKeeps, OverviewRefusedKeeps, OverviewSentKeeps
<1>8. CASE PinPresented \/ PinSent
  BY <1>8, PinPresentedKeeps, PinSentKeeps
<1>9. CASE Press
  BY <1>9, PressKeeps
<1>10. CASE \E t \in Timer : Expire(t)
  BY <1>10, ExpireKeeps
<1>11. CASE \E n \in Announced : Announce(n) \/ \E st \in State : StateSent(n, st)
  BY <1>11, AnnounceKeeps, StateSentKeeps
<1>12. CASE UNCHANGED vars
  BY <1>12, UnchangedKeeps DEF vars, IInv, EventsOK
<1> QED
  BY <1>1, <1>2, <1>3, <1>4, <1>5, <1>6, <1>7, <1>8, <1>9, <1>10, <1>11, <1>12
  DEF Next, Deliver, Reply

LEMMA Inductive == Spec => []IInv
BY InitIInv, NextIInv, PTL DEF Spec

\* The screens, their timers, the queue of events and the data keep their types:
\* in particular the number that is typed stays within MaxNumber and the code
\* within its length, and the queue never has more events than places.
THEOREM TypeCorrect == Spec => []TypeOK
<1>1. IInv => TypeOK
  BY DEF IInv, ScreensOK, ScreenTypes, EventsOK, DataTypes, TypeOK
<1> QED
  BY <1>1, Inductive, PTL

\* SCR_load: whoever loads a screen, and whatever still runs of those that were
\* left, one screen is on the list of processes, the current one, and it runs.
THEOREM OneScreenCorrect == Spec => []OneScreen
<1>1. IInv => OneScreen
  BY DEF IInv, ScreensOK
<1> QED
  BY <1>1, Inductive, PTL

\* The wait screen is up only while the current screen awaits a reply.
THEOREM WaitScreenCorrect == Spec => []WaitScreen
<1>1. IInv => WaitScreen
  BY DEF IInv, ScreensOK, WaitShown, Shown, Waits, WaitScreen
<1> QED
  BY <1>1, Inductive, PTL

\* A reply finds the energy point it is about, although its number was typed and
\* stored in fewer bits.
THEOREM NumberKnownCorrect == Spec => []NumberKnown
<1>1. IInv => NumberKnown
  <2> SUFFICES ASSUME IInv, place[current] \in {"ask", "send", "present"}
               PROVE  Here \in Known
    BY DEF NumberKnown
  <2>1. current \in Screen /\ place[current] \in Places(current)
    BY DEF IInv, ScreensOK, ScreenTypes, ScreenPlaces
  <2>2. current \in {"overview", "pin"}
    BY <2>1 DEF Places, Screen
  <2> QED
    BY <2>2 DEF IInv, NumberShown
<1> QED
  BY <1>1, Inductive, PTL

\* The pin screen switches a point on only after a code has been accepted, and it
\* is the point that the number the code was accepted for is cut to: the number
\* itself where it is below NumberMod, another point where it is not.
THEOREM ActivationCorrect == Spec => []ActivationGranted
<1>1. IInv => ActivationGranted
  BY DEF IInv
<1> QED
  BY <1>1, Inductive, PTL

\* No digit of a code that was presented, given up or timed out counts for the
\* next one: while a key is waited for, and while a code is presented, the UID
\* holds exactly the digits typed since the last code.
THEOREM CodeCorrect == Spec => []CodeCleared
<1>1. IInv => CodeCleared
  BY DEF IInv, CodeOpen
<1> QED
  BY <1>1, Inductive, PTL
=============================================================================
