------------------------------- MODULE Panel -------------------------------
(***************************************************************************)
(* The application: the screens of the panel (src/src/Screen,              *)
(* ARM_src/Screen), each a process, of which SCR_load lets one run at a    *)
(* time.  A screen is resumed by a key, by its event timers and by the     *)
(* reply to what it asked of a device; while it waits for a reply or shows *)
(* a message, it is resumed by the same events and lets them pass.         *)
(*                                                                         *)
(* Of the kernel, the timers and SCP, whose modules are Process, Etimer    *)
(* and Scp, this one has what the screens see: the list of processes, the  *)
(* events posted, the timers with their owners and one reply to a request. *)
(***************************************************************************)
EXTENDS Integers, Sequences

CONSTANTS
  NumAsks,     \* the variables the overview asks for (6)
  Digit,       \* the keys that are digits
  Base,        \* ... of the numbers they make (10)
  MaxNumber,   \* the last energy point that can be typed (999)
  NumberMod,   \* the values of uint8_t (256)
  CodeLength,  \* "Code_lenght" of the configuration
  PinEnable,   \* the values of "Pin_enable", which is read each time
  NumEvents,   \* PROCESS_CONF_NUMEVENTS
  Announced    \* the energy points of the devices

ASSUME NumAssumption ==
  /\ NumAsks \in Nat \ {0} /\ NumEvents \in Nat \ {0}
  /\ Base \in Nat \ {0} /\ Digit \subseteq 0..(Base - 1)
  /\ MaxNumber \in Nat /\ NumberMod \in Nat \ {0}
ASSUME CodeAssumption == CodeLength \in 1..7 /\ PinEnable \subseteq BOOLEAN
ASSUME AnnouncedAssumption == Announced \subseteq 0..(NumberMod - 1)

VARIABLES
  current,   \* screen_current
  listed,    \* the screens on process_list
  running,   \* the screens whose state is RUNNING
  place,     \* where their protothreads wait
  asked,     \* how many variables the overview has asked for
  wait,      \* SCR_Wait_screen is on process_list
  timer,     \* the process an etimer runs for, or how it ended
  events,    \* the events posted to screens
  number,    \* g_Current_energy_point
  language,  \* g_Language
  code,      \* input_pos
  uid,       \* g_Cur_UID.UID: bytes that are blank, or digits; history: of the
             \* code that is being typed, or of an earlier one
  point,     \* State of the known energy points
  granted    \* history: the number a code was accepted for, till the point is on

screenVars == <<current, listed, running, place, asked, wait, timer>>
dataVars == <<number, language, code, uid, point, granted>>
vars == <<screenVars, events, dataVars>>

Screen == {"startup", "idle", "language", "overview", "pin"}
Timer == {"idlePoll", "overPoll", "language", "screen", "refresh", "message"}
C_RETURN == 88
C_OK == 86
C_IDLE == 255
\* keypad_button reads cur_buttonval, which is shared, and may be another key by
\* then, or none.
Key == Digit \cup {C_RETURN, C_OK, C_IDLE}

\* "expired" has no process: etimer_expired.  A timer is "gone" that was taken
\* off the list when its process exited.
TimerState == Screen \cup {"expired", "gone"}

\* ST_OFF and ST_OVERCURRENT; ST_ON and ST_END_RESERVATION; ST_NO_RESERVATION;
\* ST_NO_KWH_LEFT and ST_WAIT_RESERVATION
State == {"off", "on", "noReservation", "refused"}
Stored(n) == n % NumberMod
Here == Stored(number)
Known == {n \in 0..(NumberMod - 1) : point[n] # "unknown"}
None == -1

Byte == 0..6
Blank == [i \in Byte |-> "blank"]
\* The code has been presented, or the pin screen left: its digits are old.
Earlier(bytes) == [i \in Byte |-> IF bytes[i] = "blank" THEN "blank" ELSE "earlier"]

Init ==
  /\ current = "startup" /\ listed = {"startup"} /\ running = {"startup"}
  /\ place = [s \in Screen |-> "loop"]
  /\ asked = 0
  /\ wait = FALSE
  /\ timer = [t \in Timer |-> "expired"]
  /\ events = << >>
  /\ number = 0
  /\ language = "NL"
  /\ code = 0 /\ uid = Blank
  /\ point = [n \in 0..(NumberMod - 1) |-> "unknown"]
  /\ granted = None

-----------------------------------------------------------------------------
(* Events. *)

KeyEvent == [kind |-> "key", to |-> "all"]
UpdateEvent == [kind |-> "update", to |-> "all"]
TimerEvent(s) == [kind |-> "timer", to |-> s]
Event == {KeyEvent, UpdateEvent} \cup {TimerEvent(s) : s \in Screen}

\* Mutant of Posted: the queue is not checked.
PostedUnchecked(e) == Append(events, e)
Posted(e) == IF Len(events) < NumEvents THEN Append(events, e) ELSE events

\* do_event calls s: a key and an update go to every process on the list, a
\* timer event to the process it is for, which need not be there.
Called(s, kind) ==
  /\ events # << >>
  /\ events[1].kind = kind
  /\ IF kind = "timer" THEN events[1].to = s ELSE s \in listed
  /\ s \in running
  /\ events' = Tail(events)

\* What the protothread does before PROCESS_BEGIN, whatever resumed it.
PollSet(s, tm) ==
  [t \in Timer |->
     IF tm[t] = "expired" /\ <<s, t>> \in {<<"idle", "idlePoll">>, <<"overview", "overPoll">>}
       THEN s ELSE tm[t]]
\* Mutant of Resumed: the poll timers run once.
ResumedOnce(s) == timer
Resumed(s) == PollSet(s, timer)

\* A timer that is running already keeps the process it runs for.
Set(tm, t, s) == IF tm[t] \in Screen THEN tm ELSE [tm EXCEPT ![t] = s]
Expired(tm, t) == tm[t] = "expired"

-----------------------------------------------------------------------------
(***************************************************************************)
(* SCR_load(q), called by p with the timers tm: the current screen is      *)
(* exited, which takes its timers off the list, and q runs up to its first *)
(* wait.  Where stays holds, p goes on to wait instead of PROCESS_EXIT,    *)
(* and call_process has it RUNNING again although it is off the list.  A   *)
(* current screen that is not p gets PROCESS_EVENT_EXIT after its timers   *)
(* are gone, and sets its poll timer again if that had expired; the rest   *)
(* of its thread then ends or waits (behind a message that is over, the    *)
(* pin screen first clears the UID, which it does anew when it starts).    *)
(***************************************************************************)
Exited(tm, p) ==
  LET purged == [t \in Timer |-> IF tm[t] = current THEN "gone" ELSE tm[t]]
  IN  IF p = current THEN purged ELSE PollSet(current, purged)

Started(q) ==
  CASE q = "idle" -> {"idlePoll", "language"}
    [] q = "overview" -> {"overPoll"}
    [] q \in {"language", "pin"} -> {"screen"}

\* Mutant of Unlisted: process_exit is left out.
UnlistedNot == listed
Unlisted == listed \ {current}

Load(p, q, stays, tm) ==
  IF current = q
    THEN timer' = tm /\ UNCHANGED <<current, listed, running, place, asked, wait>>
    ELSE /\ current' = q
         /\ listed' = Unlisted \cup {q}
         /\ running' = (running \ IF stays THEN {current} \ {p} ELSE {current, p}) \cup {q}
         /\ place' = [place EXCEPT ![p] = "loop", ![q] = IF q = "overview" THEN "ask" ELSE "loop"]
         /\ asked' = IF q = "overview" THEN 1 ELSE 0
         /\ wait' = CASE q = "idle" -> FALSE
                      [] q = "overview" -> TRUE
                      [] OTHER -> wait
         /\ timer' = LET left == Exited(tm, p)
                     IN  [t \in Timer |-> IF t \in Started(q) THEN Set(left, t, q)[t] ELSE left[t]]

\* The pin screen starts with no digits.
\* Mutant of NoDigits: input_pos and the UID are as they were left.
NoDigitsKept == UNCHANGED <<code, uid>>
NoDigits == code' = 0 /\ uid' = Blank

\* The data a screen sets when it starts.
LoadData(q) ==
  /\ number' = IF q = "idle" /\ current # "idle" THEN 0 ELSE number
  /\ IF q = "pin" THEN NoDigits
                  ELSE uid' = Earlier(uid) /\ UNCHANGED code
  /\ granted' = None
  /\ UNCHANGED point

Stays(s, where, tm) ==
  /\ place' = [place EXCEPT ![s] = where]
  /\ timer' = tm
  /\ UNCHANGED <<current, listed, running, asked>>

\* SCR_Message_screen, up to its wait
\* Mutant of Message: the wait screen stays.
MessageOnly(s, tm) == Stays(s, "message", Set(tm, "message", s)) /\ UNCHANGED wait
Message(s, tm) == Stays(s, "message", Set(tm, "message", s)) /\ wait' = FALSE

\* An event while a reply is awaited, or a message shown that is not over.
Swallowed(s) ==
  /\ \E kind \in {"key", "update", "timer"} : Called(s, kind)
  /\ \/ place[s] \in {"ask", "send", "present"}
     \/ place[s] = "message" /\ ~Expired(timer, "message")
  /\ Stays(s, place[s], Resumed(s))
  /\ UNCHANGED <<wait, dataVars>>

MessageEnds(s) ==
  /\ \E kind \in {"key", "update", "timer"} : Called(s, kind)
  /\ place[s] = "message" /\ Expired(timer, "message")

\* ... or for a process that has exited.
Dropped ==
  /\ events # << >>
  /\ events[1].kind = "timer" /\ events[1].to \notin running
  /\ events' = Tail(events)
  /\ UNCHANGED <<screenVars, dataVars>>

-----------------------------------------------------------------------------
(* SCR_Startup_screen: at last there are no errors any more. *)

Ready ==
  /\ current = "startup" /\ place["startup"] = "loop"
  /\ \/ Stays("startup", "message", Set(timer, "message", "startup"))
        /\ wait' = FALSE /\ UNCHANGED dataVars
     \/ Load("startup", "idle", FALSE, timer) /\ LoadData("idle") /\ UNCHANGED language
  /\ UNCHANGED events

StartupResumed ==
  /\ Called("startup", "update") /\ place["startup"] = "loop"
  /\ UNCHANGED <<screenVars, dataVars>>

StartupMessageEnds ==
  /\ MessageEnds("startup")
  /\ Load("startup", "idle", FALSE, timer) /\ LoadData("idle")
  /\ UNCHANGED language

-----------------------------------------------------------------------------
(* SCR_idle_screen *)

IdleResumed ==
  /\ place["idle"] = "loop"
  /\ \/ /\ Called("idle", "timer")
        /\ language' = IF Expired(timer, "language") THEN "NL" ELSE language
        /\ UNCHANGED wait
     \/ /\ Called("idle", "update")
        /\ wait' = FALSE
        /\ UNCHANGED language
  /\ Stays("idle", "loop", Resumed("idle"))
  /\ UNCHANGED <<number, code, uid, point, granted>>

\* Energy_point_exist of the number, which is cut to a uint8_t
\* Mutant of Exists: the number is not looked up.
ExistsAny == TRUE
Exists == Here \in Known

IdleKey(key) ==
  /\ Called("idle", "key") /\ place["idle"] = "loop"
  /\ \/ /\ key = C_RETURN
        /\ Load("idle", "language", FALSE, Resumed("idle"))
        /\ number' = 0
        /\ UNCHANGED <<language, code, uid, point, granted>>
     \/ /\ key = C_OK /\ Exists
        /\ Load("idle", "overview", FALSE, Resumed("idle"))
        /\ UNCHANGED dataVars
     \/ /\ key = C_OK /\ ~Exists
        /\ Message("idle", Resumed("idle"))
        /\ UNCHANGED dataVars
     \/ /\ key \in Digit
        /\ number' = LET typed == number * Base + key
                     IN  IF typed > MaxNumber THEN 0 ELSE typed
        /\ Stays("idle", "loop", Set(Resumed("idle"), "language", "idle"))
        /\ wait' = FALSE
        /\ UNCHANGED <<language, code, uid, point, granted>>
     \/ /\ key = C_IDLE
        /\ Stays("idle", "loop", Resumed("idle"))
        /\ wait' = FALSE
        /\ UNCHANGED dataVars

IdleMessageEnds ==
  /\ MessageEnds("idle")
  /\ number' = 0
  /\ Stays("idle", "loop", Resumed("idle"))
  /\ wait' = FALSE
  /\ UNCHANGED <<language, code, uid, point, granted>>

-----------------------------------------------------------------------------
(* SCR_language_screen, which goes on after SCR_load. *)

LanguageKey(key) ==
  /\ Called("language", "key") /\ place["language"] = "loop"
  /\ \/ /\ key \in Digit
        /\ \E chosen \in {"NL", "other"} : language' = chosen
        /\ Load("language", "idle", TRUE, timer) /\ LoadData("idle")
     \/ UNCHANGED <<screenVars, dataVars>>

\* PROCESS_EVENT_SCREEN_TIMEOUT, for s that is resumed with the timers tm.
TimesOut(s, tm) ==
  /\ Expired(tm, "screen")
  /\ Load(s, "idle", TRUE, tm) /\ LoadData("idle")
  /\ UNCHANGED language

LanguageResumed ==
  /\ place["language"] = "loop"
  /\ \/ Called("language", "timer") /\ TimesOut("language", timer)
     \/ /\ \/ Called("language", "timer") /\ ~Expired(timer, "screen")
           \/ Called("language", "update")
        /\ UNCHANGED <<screenVars, dataVars>>

-----------------------------------------------------------------------------
(* SCR_Overview_screen.  The timer goes on after SCR_load. *)

\* The answer to the n-th variable asked for: msg_var_int_send or not.
OverviewReply ==
  /\ "overview" \in running /\ place["overview"] = "ask"
  /\ \/ /\ asked < NumAsks
        /\ asked' = asked + 1
        /\ timer' = Resumed("overview")
        /\ UNCHANGED <<current, listed, running, place, wait>>
     \/ /\ asked = NumAsks
        /\ timer' = Set(Set(Resumed("overview"), "screen", "overview"), "refresh", "overview")
        /\ place' = [place EXCEPT !["overview"] = "loop"]
        /\ wait' = FALSE
        /\ UNCHANGED <<current, listed, running, asked>>
  /\ IF asked = 1 THEN \E st \in State : point' = [point EXCEPT ![Here] = st]
                  ELSE UNCHANGED point
  /\ UNCHANGED <<events, number, language, code, uid, granted>>

OverviewRefused ==
  /\ "overview" \in running /\ place["overview"] = "ask"
  /\ Load("overview", "idle", FALSE, Resumed("overview")) /\ LoadData("idle")
  /\ UNCHANGED <<events, language>>

\* At the head of its loop the screen asks for new values.
Refreshed ==
  LET tm == Resumed("overview")
  IN  IF Expired(tm, "refresh") THEN Set(tm, "refresh", "overview") ELSE tm

\* Its end, for an event of a timer or another.
OverviewWaits(isTimer, tm) ==
  \/ isTimer /\ TimesOut("overview", tm)
  \/ /\ ~(isTimer /\ Expired(tm, "screen"))
     /\ Stays("overview", "loop", tm)
     /\ UNCHANGED <<wait, dataVars>>

OverviewResumed ==
  /\ place["overview"] = "loop"
  /\ \/ Called("overview", "timer") /\ OverviewWaits(TRUE, Refreshed)
     \/ Called("overview", "update") /\ OverviewWaits(FALSE, Refreshed)

OverviewKey(key) ==
  /\ Called("overview", "key") /\ place["overview"] = "loop"
  /\ \/ /\ key = C_RETURN
        /\ Load("overview", "idle", FALSE, Refreshed) /\ LoadData("idle")
        /\ UNCHANGED language
     \/ /\ key = C_OK
        /\ \/ point[Here] = "noReservation"
           \/ point[Here] = "off" /\ TRUE \in PinEnable
        /\ Load("overview", "pin", FALSE, Refreshed) /\ LoadData("pin")
        /\ UNCHANGED language
     \/ /\ key = C_OK /\ point[Here] = "off" /\ FALSE \in PinEnable
        /\ Stays("overview", "send", Refreshed)
        /\ UNCHANGED <<wait, dataVars>>
     \/ /\ key = C_OK /\ point[Here] = "refused"
        /\ Message("overview", Refreshed)
        /\ UNCHANGED dataVars
     \/ /\ key = C_OK => point[Here] \in {"on", "unknown"}
        /\ key # C_RETURN
        /\ OverviewWaits(FALSE, Refreshed)

OverviewMessageEnds ==
  /\ MessageEnds("overview")
  /\ OverviewWaits(events[1].kind = "timer", Resumed("overview"))

\* The answer to State := 1, which msg_Ok makes so.
OverviewSent ==
  /\ "overview" \in running /\ place["overview"] = "send"
  /\ Stays("overview", "loop", Resumed("overview"))
  /\ \/ point' = [point EXCEPT ![Here] = "on"]
     \/ UNCHANGED point
  /\ UNCHANGED <<wait, events, number, language, code, uid, granted>>

-----------------------------------------------------------------------------
(* SCR_Pin_screen, which goes on after SCR_load at a time-out. *)

PinKey(key) ==
  /\ Called("pin", "key") /\ place["pin"] = "loop"
  /\ \/ /\ key = C_RETURN
        /\ Load("pin", "overview", FALSE, Set(timer, "screen", "pin"))
        /\ code' = 0 /\ uid' = Blank
        /\ UNCHANGED <<number, language, point, granted>>
     \/ /\ \/ key \in {C_OK, C_IDLE}
           \/ key \in Digit /\ code >= 7
        /\ Stays("pin", "loop", Set(timer, "screen", "pin"))
        /\ UNCHANGED <<wait, dataVars>>
     \/ /\ key \in Digit /\ code < 7 /\ code + 1 # CodeLength
        /\ code' = code + 1 /\ uid' = [uid EXCEPT ![code] = "typed"]
        /\ Stays("pin", "loop", Set(timer, "screen", "pin"))
        /\ UNCHANGED <<wait, number, language, point, granted>>
     \/ /\ key \in Digit /\ code < 7 /\ code + 1 = CodeLength
        /\ \/ /\ code' = 0 /\ uid' = Blank /\ granted' = number
              /\ Stays("pin", "send", Set(timer, "screen", "pin"))
              /\ UNCHANGED wait
           \/ /\ code' = code + 1 /\ uid' = [uid EXCEPT ![code] = "typed"]
              /\ UNCHANGED granted
              /\ Stays("pin", "present", Set(timer, "screen", "pin"))
              /\ wait' = TRUE
        /\ UNCHANGED <<number, language, point>>

\* The server's answer to a code: msg_Akkoord, msg_NietAkkoord or another.
Answer == {"akkoord", "nietAkkoord", "other"}

\* Mutant of Accepted: an error is not told from an answer.
AcceptedUnlessRefused(answer) == answer # "nietAkkoord"
Accepted(answer) == answer = "akkoord"

PinPresented ==
  /\ "pin" \in running /\ place["pin"] = "present"
  /\ code' = 0
  /\ \E answer \in Answer :
       /\ granted' = IF answer = "akkoord" THEN number ELSE None
       /\ IF Accepted(answer)
            THEN uid' = Blank /\ Stays("pin", "send", timer) /\ UNCHANGED wait
            ELSE uid' = Earlier(uid) /\ Message("pin", timer)
  /\ UNCHANGED <<events, number, language, point>>

PinSent ==
  /\ "pin" \in running /\ place["pin"] = "send"
  /\ Load("pin", "overview", FALSE, timer)
  /\ \/ point' = [point EXCEPT ![Here] = "on"]
     \/ UNCHANGED point
  /\ granted' = None
  /\ UNCHANGED <<events, number, language, code, uid>>

PinMessageEnds ==
  /\ MessageEnds("pin")
  /\ uid' = Blank
  /\ Stays("pin", "loop", timer)
  /\ UNCHANGED <<wait, number, language, code, point, granted>>

PinResumed ==
  /\ place["pin"] = "loop"
  /\ \/ Called("pin", "timer") /\ TimesOut("pin", timer)
     \/ /\ \/ Called("pin", "timer") /\ ~Expired(timer, "screen")
           \/ Called("pin", "update")
        /\ UNCHANGED <<screenVars, dataVars>>

-----------------------------------------------------------------------------
(* The keypad, the timers and the devices. *)

\* Button_process, which runs from the first idle screen on
Press ==
  /\ current # "startup"
  /\ events' = Posted(KeyEvent)
  /\ UNCHANGED <<screenVars, dataVars>>

\* etimer_process, which tries again when the queue is full
Expire(t) ==
  /\ timer[t] \in Screen /\ Len(events) < NumEvents
  /\ timer' = [timer EXCEPT ![t] = "expired"]
  /\ events' = Posted(TimerEvent(timer[t]))
  /\ UNCHANGED <<current, listed, running, place, asked, wait, dataVars>>

\* msg_var_int_send_handler: "Energy_point", and "State" when it is another
Announce(n) ==
  /\ n \in Announced \ Known
  /\ point' = [point EXCEPT ![n] = "noReservation"]
  /\ UNCHANGED <<screenVars, events, number, language, code, uid, granted>>

StateSent(n, st) ==
  /\ n \in Known /\ st # point[n]
  /\ point' = [point EXCEPT ![n] = st]
  /\ events' = Posted(UpdateEvent)
  /\ UNCHANGED <<screenVars, number, language, code, uid, granted>>

Deliver ==
  \/ \E s \in Screen : Swallowed(s)
  \/ Dropped
  \/ \E key \in Key :
       IdleKey(key) \/ LanguageKey(key) \/ OverviewKey(key) \/ PinKey(key)
  \/ StartupResumed \/ IdleResumed \/ LanguageResumed \/ OverviewResumed
  \/ PinResumed
  \/ StartupMessageEnds \/ IdleMessageEnds \/ OverviewMessageEnds
  \/ PinMessageEnds

Reply ==
  \/ OverviewReply \/ OverviewRefused \/ OverviewSent
  \/ PinPresented \/ PinSent

Next ==
  \/ Ready \/ Deliver \/ Reply
  \/ Press
  \/ \E t \in Timer : Expire(t)
  \/ \E n \in Announced : Announce(n) \/ \E st \in State : StateSent(n, st)

Spec == Init /\ [][Next]_vars

\* process_run goes round for ever and the clock runs; of a request SCP tells the
\* reply or the time-out (WaiterResumed of Scp).  The queue has more places than
\* there are timers, so that it is not full for ever.
FairSpec ==
  /\ Spec /\ WF_vars(Deliver) /\ WF_vars(Reply)
  /\ \A t \in Timer \ {"refresh"} : SF_vars(Expire(t))

-----------------------------------------------------------------------------
(* Properties. *)

TypeOK ==
  /\ current \in Screen /\ listed \subseteq Screen /\ running \subseteq Screen
  /\ place \in [Screen -> {"loop", "message", "ask", "send", "present"}]
  /\ asked \in 0..NumAsks
  /\ wait \in BOOLEAN
  /\ timer \in [Timer -> TimerState]
  /\ events \in Seq(Event) /\ Len(events) <= NumEvents
  /\ number \in 0..MaxNumber
  /\ language \in {"NL", "other"}
  /\ code \in 0..CodeLength /\ uid \in [Byte -> {"blank", "typed", "earlier"}]
  /\ point \in [0..(NumberMod - 1) -> State \cup {"unknown"}]
  /\ granted \in 0..MaxNumber \cup {None}

\* SCR_load: one screen is on the list of processes, and it is the current one,
\* whoever loads a screen while another waits, shows a message or has exited.
OneScreen == listed = {current} /\ current \in running

\* The wait screen is shown only while a reply is awaited: none that comes, and no
\* time-out, message or screen loaded meanwhile, leaves it behind.
WaitScreen == wait => place[current] \in {"ask", "send", "present"}

\* A reply is for an energy point that is known, although the number is typed and
\* stored in fewer bits: Energy_point_data is then not NULL.
NumberKnown == place[current] \in {"ask", "send", "present"} => Here \in Known

\* The pin screen switches a point on only for a number that a code has been
\* accepted for, in spite of the keys, time-outs and screens between the two, and
\* it is the point that this number is cut to.  That is not always the one meant:
\* the code is presented with the number itself, an int16_t (SCR_pin.c:76), but
\* the point is addressed by its low byte (SCR_pin.c:67 and 81), so that of a
\* number from NumberMod on another point than the accepted one is switched on.
ActivationGranted ==
  "pin" \in running /\ place["pin"] = "send" =>
    granted # None /\ Here = Stored(granted)

\* No digit of a code that was presented, given up or timed out counts for the
\* next one: while the pin screen waits for a key, the UID holds just the digits
\* typed for this code, fewer than it has, and what is presented to the server is
\* the digits of one code.
CodeCleared ==
  current = "pin" /\ place["pin"] \in {"loop", "present"} =>
    /\ \A i \in Byte : uid[i] = IF i < code THEN "typed" ELSE "blank"
    /\ IF place["pin"] = "loop" THEN code < CodeLength ELSE code = CodeLength

\* If keys are pressed no more, every screen but that of the pin goes back to the
\* idle screen in the first language, although replies and messages swallow the
\* events of the timers that would bring it there: the overview has a timer that
\* never stops.  The pin screen has none, and stays.
NoMorePresses == <>[][~Press]_vars
Home == current = "idle" /\ language = "NL"
Returns ==
  NoMorePresses => (current \in {"idle", "language", "overview"} ~> Home \/ current = "pin")

(***************************************************************************)
(* SCR_Init.h:44: "load a screen and exit current screen".  A screen that  *)
(* has been left runs no more: no timer is set for it.                     *)
(***************************************************************************)
LeftScreenRests == \A t \in Timer : timer[t] \in {current, "expired", "gone"}
=============================================================================
