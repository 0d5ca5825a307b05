-------------------------- MODULE SessionLifecycle --------------------------
(***************************************************************************)
(* The two threads of coffee-rdp-session, from start() to the end of the   *)
(* process: the main thread in sdl_run() (sdl_freerdp.cpp), which owns SDL *)
(* and its windows, and the RDP thread in rdpThreadRun() (sdl_context.cpp) *)
(* which runs the FreeRDP library.  They share the SDL event queue, the    *)
(* abort event, two handshake events, the flags _connected and             *)
(* _rdpThreadRunning, the frame buffer and the queue of dirty rectangles.  *)
(*                                                                         *)
(* An event is a record of its type and, for a question of the RDP thread  *)
(* ("ask", SDL_EVENT_USER_*_DIALOG) and its answer ("answer",              *)
(* SDL_EVENT_USER_*_RESULT), the question's number.  Dialogs are of two    *)
(* sorts: message boxes leave the queue alone while they are shown, forms  *)
(* (sign-in "auth", smartcard list "scard") run an event loop of their own *)
(* and flush the desktop's events when they close.                         *)
(*                                                                         *)
(* SdlContext::_dialog is never created (nothing calls create()), so the   *)
(* retry dialog handles no event and is never running: its calls only log. *)
(***************************************************************************)
EXTENDS Naturals, Sequences, FiniteSets, Selection

CONSTANTS
  Kinds,         \* kinds of dialogs, each with a result event type of its own
  FormKinds,     \* those that run an event loop of their own
  MaxQuestions,  \* bound: dialogs the library asks for
  MaxPaints,     \* bound: frames the server draws
  MaxUserEvents, \* bound: events from the desktop and signals
  MaxShown       \* bound: dialogs shown for one question

ASSUME KindsAssumption == FormKinds \subseteq Kinds /\ "none" \notin Kinds
ASSUME BoundsAssumption ==
  /\ MaxQuestions \in Nat /\ MaxPaints \in Nat /\ MaxUserEvents \in Nat
  /\ MaxShown \in Nat \ {0}

VARIABLES
  mainPc,       \* where sdl_run() is
  windowEvent,  \* its local of that name: the last event it took
  failure,      \* what ended sdl_run() with an exception, or "none"
  rdpPc,        \* where the RDP thread is
  resume,       \* where it goes on after a dialog
  asked,        \* dialogs asked so far; the last one is the pending one
  kindOf,       \* question -> its kind
  takenFor,     \* question -> the question whose answer it was given, or 0
  shown,        \* question -> times a dialog was shown for it
  queue,        \* the SDL event queue
  abort,        \* the library's abort event
  running,      \* _rdpThreadRunning
  connected,    \* _connected
  gdi,          \* the library's frame buffer and _primary exist
  windows,      \* _windows is not empty
  windowsCreatedEvent,
  floatbarConfiguredEvent,
  rects,        \* entries in _queue (dirty rectangles)
  painted, userEvents  \* counters for the bounds

mainVars == <<mainPc, windowEvent, failure, shown, windows>>
rdpVars == <<rdpPc, resume, asked, kindOf, takenFor, running, connected, gdi, painted>>
sharedVars == <<queue, abort, windowsCreatedEvent, floatbarConfiguredEvent, rects, userEvents>>
vars == <<mainVars, rdpVars, sharedVars>>

QuestionIds == 1..MaxQuestions

UserEventTypes == {"window", "input", "close", "quit"}
EventTypes == UserEventTypes \cup
  {"update", "createWindows", "configureFloatbar", "userQuit", "ask", "answer"}

Events == [type : EventTypes, q : 0..MaxQuestions]
Event(t) == [type |-> t, q |-> 0]
NoEvent == [type |-> "none", q |-> 0]

MainPcs == {"poll", "handle", "dialog", "update", "drawMore", "drawLast", "stop", "join",
            "done", "crashed"}
RdpPcs == {"start", "connect", "login", "await", "windows", "gdi", "floatbar", "run", "painted",
           "reconnect", "disconnect", "gdiFree", "cleanup", "ended"}

TypeOK ==
  /\ mainPc \in MainPcs
  /\ windowEvent \in Events \cup {NoEvent}
  /\ failure \in {"none", "handleEvent", "createWindows", "attachFloatbar"}
  /\ rdpPc \in RdpPcs
  /\ resume \in {"connect", "run", "reconnect"}
  /\ asked \in 0..MaxQuestions
  /\ kindOf \in [QuestionIds -> Kinds \cup {"none"}]
  /\ takenFor \in [QuestionIds -> 0..MaxQuestions]
  /\ shown \in [QuestionIds -> 0..MaxShown]
  /\ queue \in Seq(Events)
  /\ {abort, running, connected, gdi, windows} \subseteq BOOLEAN
  /\ {windowsCreatedEvent, floatbarConfiguredEvent} \subseteq BOOLEAN
  /\ rects \in 0..MaxPaints
  /\ painted \in 0..MaxPaints
  /\ userEvents \in 0..MaxUserEvents

Init ==
  /\ mainPc = "poll" /\ windowEvent = NoEvent /\ failure = "none"
  /\ rdpPc = "start" /\ resume = "connect" /\ asked = 0
  /\ kindOf = [n \in QuestionIds |-> "none"]
  /\ takenFor = [n \in QuestionIds |-> 0]
  /\ shown = [n \in QuestionIds |-> 0]
  /\ queue = <<>>
  /\ abort = FALSE /\ running = FALSE /\ connected = FALSE /\ gdi = FALSE /\ windows = FALSE
  /\ windowsCreatedEvent = FALSE /\ floatbarConfiguredEvent = FALSE
  /\ rects = 0 /\ painted = 0 /\ userEvents = 0

-----------------------------------------------------------------------------
(* The main thread: sdl_run()                                              *)

\* shallAbort(): the retry dialog is never running.
ShallAbort == abort /\ ~running

\* Mutant: SDL_PeepEvents() up to SDL_EVENT_LAST.
PollableAll == DOMAIN queue

\* Positions of the events SDL_PeepEvents() may take: not the dialogs' results.
Pollable == {i \in DOMAIN queue : queue[i].type # "answer"}

\* The queue without its i-th entry.
Without(i) == SubSeq(queue, 1, i - 1) \o SubSeq(queue, i + 1, Len(queue))

\* Some event is pending and sdl_run() takes the first it may.  When only
\* results are pending SDL_PeepEvents() returns 0, which is not checked:
\* windowEvent keeps the event handled before, unless SDL's poll sentinel comes
\* first (EventGone); an empty one is handled as nothing.  After an abort every
\* event is dropped.  The bound MaxShown makes the RDP thread win the race in
\* the end.
PollEvent ==
  /\ mainPc = "poll" /\ ~ShallAbort /\ queue # <<>>
  /\ Pollable = {} => /\ windowEvent # NoEvent
                      /\ ~(windowEvent.type = "ask" /\ shown[windowEvent.q] = MaxShown)
  /\ IF Pollable = {}
     THEN UNCHANGED <<windowEvent, queue>>
     ELSE LET i == CHOOSE i \in Pollable : \A j \in Pollable : i <= j
          IN windowEvent' = queue[i] /\ queue' = Without(i)
  /\ mainPc' = IF abort THEN "poll" ELSE "handle"
  /\ UNCHANGED <<failure, shown, windows, rdpVars, abort, windowsCreatedEvent,
                 floatbarConfiguredEvent, rects, userEvents>>

\* SDL_WaitEventTimeout() saw nothing for a second, and the outer loop starts
\* again with an empty windowEvent; or SDL_PeepEvents() met no event but SDL's
\* poll sentinel, which it copies there and nobody handles.
EventGone ==
  /\ mainPc = "poll" /\ ~ShallAbort /\ Pollable = {} /\ windowEvent # NoEvent
  /\ windowEvent' = NoEvent
  /\ UNCHANGED <<mainPc, failure, shown, windows, rdpVars, sharedVars>>

LeaveLoop ==
  /\ mainPc = "poll" /\ ShallAbort
  /\ mainPc' = "stop"
  /\ UNCHANGED <<windowEvent, failure, shown, windows, rdpVars, sharedVars>>

\* What sdl_run() does next with a windowEvent of type t.  SDL_EVENT_USER_QUIT is
\* never handled: it comes after an abort, and then polling drops every event.
Handling(t) == mainPc = "handle" /\ windowEvent.type = t

\* throw ErrorMsg: sdl_run() is left.
Throw(what) == mainPc' = "stop" /\ failure' = what

\* A window event that redraws; drawToWindow() returns at once when the
\* session is not connected.
HandleWindowEvent ==
  /\ Handling("window")
  /\ \/ mainPc' = (IF connected THEN "drawLast" ELSE "poll") /\ UNCHANGED failure
     \/ Throw("handleEvent")
  /\ UNCHANGED <<windowEvent, shown, windows, rdpVars, sharedVars>>

\* Keyboard and mouse.  One of them may be the hotkey or the floatbar's button
\* that disconnects; only the button pushes SDL_EVENT_QUIT.
HandleInput ==
  /\ Handling("input")
  /\ UNCHANGED <<windowEvent, shown, windows, rdpVars, windowsCreatedEvent,
                 floatbarConfiguredEvent, rects, userEvents>>
  /\ \/ mainPc' = "poll" /\ UNCHANGED <<failure, queue, abort>>
     \/ connected /\ Throw("handleEvent") /\ UNCHANGED <<queue, abort>>
     \/ /\ connected
        /\ abort' = TRUE /\ queue' \in {queue, Append(queue, Event("quit"))}
        /\ mainPc' = "poll" /\ UNCHANGED failure

\* SDL_EVENT_WINDOW_CLOSE_REQUESTED and SDL_EVENT_QUIT.
HandleQuit ==
  /\ mainPc = "handle" /\ windowEvent.type \in {"close", "quit"}
  /\ abort' = TRUE
  /\ mainPc' = "poll"
  /\ UNCHANGED <<windowEvent, failure, shown, windows, rdpVars, queue, windowsCreatedEvent,
                 floatbarConfiguredEvent, rects, userEvents>>

HandleUpdate ==
  /\ Handling("update")
  /\ mainPc' = "update"
  /\ UNCHANGED <<windowEvent, failure, shown, windows, rdpVars, sharedVars>>

\* Mutant: pop() of a list that may be empty.
PopUnchecked ==
  /\ mainPc = "update"
  /\ rects' = rects - 1
  /\ mainPc' = IF windows /\ connected THEN "drawLast" ELSE "poll"
  /\ UNCHANGED <<windowEvent, failure, shown, windows, rdpVars, queue, abort,
                 windowsCreatedEvent, floatbarConfiguredEvent, userEvents>>

\* One pass of the loop that pops rectangles and draws them, up to and
\* including drawToWindow()'s check of isConnected(); the pass that finds
\* nothing is the last.
PopRectangles ==
  LET more == rects > 0 IN
  /\ mainPc = "update"
  /\ rects' = IF more THEN rects - 1 ELSE 0
  /\ mainPc' = CASE windows /\ connected /\ more -> "drawMore"
                 [] windows /\ connected /\ ~more -> "drawLast"
                 [] ~(windows /\ connected) /\ more -> "update"
                 [] OTHER -> "poll"
  /\ UNCHANGED <<windowEvent, failure, shown, windows, rdpVars, queue, abort,
                 windowsCreatedEvent, floatbarConfiguredEvent, userEvents>>

\* The rest of drawToWindow(): reads context()->gdi and draws from it.
DrawToWindow ==
  /\ mainPc \in {"drawMore", "drawLast"}
  /\ mainPc' = CASE ~gdi -> "crashed"
                 [] gdi /\ mainPc = "drawMore" -> "update"
                 [] OTHER -> "poll"
  /\ UNCHANGED <<windowEvent, failure, shown, windows, rdpVars, sharedVars>>

\* Mutant: the result of createWindows() is not checked.
CreateWindowsUnchecked ==
  /\ Handling("createWindows")
  /\ windowsCreatedEvent' = TRUE
  /\ windows' \in {windows, TRUE}
  /\ mainPc' = "poll"
  /\ UNCHANGED <<windowEvent, failure, shown, rdpVars, queue, abort, floatbarConfiguredEvent,
                 rects, userEvents>>

\* createWindows() may fail; its guard signals the event either way.
HandleCreateWindows ==
  /\ Handling("createWindows")
  /\ windowsCreatedEvent' = TRUE
  /\ \/ windows' = TRUE /\ mainPc' = "poll" /\ UNCHANGED failure
     \/ Throw("createWindows") /\ UNCHANGED windows
  /\ UNCHANGED <<windowEvent, shown, rdpVars, queue, abort, floatbarConfiguredEvent, rects,
                 userEvents>>

\* attachFloatbar(), with the same guard.
HandleConfigureFloatbar ==
  /\ Handling("configureFloatbar")
  /\ floatbarConfiguredEvent' = TRUE
  /\ \/ mainPc' = "poll" /\ UNCHANGED failure
     \/ windows /\ Throw("attachFloatbar")
  /\ UNCHANGED <<windowEvent, shown, windows, rdpVars, queue, abort, windowsCreatedEvent, rects,
                 userEvents>>

ShowDialog ==
  /\ Handling("ask")
  /\ shown[windowEvent.q] < MaxShown
  /\ shown' = [shown EXCEPT ![windowEvent.q] = @ + 1]
  /\ mainPc' = "dialog"
  /\ UNCHANGED <<windowEvent, failure, windows, rdpVars, sharedVars>>

IsForm == kindOf[windowEvent.q] \in FormKinds
Answer == [type |-> "answer", q |-> windowEvent.q]
Cancelling == IF kindOf[windowEvent.q] = "scard" THEN {"quit"} ELSE {"close", "quit"}

\* SDL_FlushEvents(SDL_EVENT_FIRST, SDL_EVENT_USER) drops the desktop's events.
Flushed == Select(queue, {i \in DOMAIN queue : queue[i].type \notin UserEventTypes})

\* The person answers, or the dialog cannot be shown and flushes nothing.
AnswerDialog ==
  /\ mainPc = "dialog"
  /\ \E left \in {queue, IF IsForm THEN Flushed ELSE queue} : queue' = Append(left, Answer)
  /\ mainPc' = "poll"
  /\ UNCHANGED <<windowEvent, failure, shown, windows, rdpVars, abort, windowsCreatedEvent,
                 floatbarConfiguredEvent, rects, userEvents>>

\* The event loop of a form takes whatever comes, events meant for sdl_run()
\* or for the RDP thread included; a quit cancels it, a close the sign-in only.
FormTakesEvent ==
  /\ mainPc = "dialog" /\ IsForm /\ queue # <<>>
  /\ IF Head(queue).type \in Cancelling
     THEN queue' = Append(Flushed, Answer) /\ mainPc' = "poll"
     ELSE queue' = Tail(queue) /\ UNCHANGED mainPc
  /\ UNCHANGED <<windowEvent, failure, shown, windows, rdpVars, abort, windowsCreatedEvent,
                 floatbarConfiguredEvent, rects, userEvents>>

\* freerdp_client_stop() sets the abort event ...
Stop ==
  /\ mainPc = "stop"
  /\ abort' = TRUE
  /\ mainPc' = "join"
  /\ UNCHANGED <<windowEvent, failure, shown, windows, rdpVars, queue, windowsCreatedEvent,
                 floatbarConfiguredEvent, rects, userEvents>>

\* Mutant: main() does not wait for the RDP thread.
JoinAtOnce ==
  /\ mainPc = "join"
  /\ mainPc' = "done"
  /\ windows' = FALSE
  /\ UNCHANGED <<windowEvent, failure, shown, rdpVars, sharedVars>>

\* ... and waits for the RDP thread; then main() releases windows and SDL.
Join ==
  /\ mainPc = "join" /\ rdpPc = "ended"
  /\ mainPc' = "done"
  /\ windows' = FALSE
  /\ UNCHANGED <<windowEvent, failure, shown, rdpVars, sharedVars>>

MainStep ==
  \/ PollEvent \/ EventGone \/ LeaveLoop \/ HandleWindowEvent \/ HandleInput
  \/ HandleQuit \/ HandleUpdate \/ PopRectangles \/ DrawToWindow \/ HandleCreateWindows
  \/ HandleConfigureFloatbar \/ ShowDialog \/ FormTakesEvent \/ Stop \/ Join

-----------------------------------------------------------------------------
(* The RDP thread: rdpThreadRun().  A crash of the main thread ends it.    *)

At(pc) == rdpPc = pc /\ mainPc # "crashed"

RdpThreadStarts ==
  /\ At("start")
  /\ running' = TRUE
  /\ rdpPc' = "connect"
  /\ UNCHANGED <<resume, asked, kindOf, takenFor, connected, gdi, painted, mainVars, sharedVars>>

\* sdl_webview.cpp: the library wants an Entra ID token.  The call does not
\* look at the abort event; the login ends it.
LoginStarts ==
  /\ At("connect") /\ ~abort
  /\ rdpPc' = "login"
  /\ UNCHANGED <<resume, asked, kindOf, takenFor, running, connected, gdi, painted, mainVars,
                 sharedVars>>

LoginEnds ==
  /\ At("login")
  /\ rdpPc' = "connect"
  /\ UNCHANGED <<resume, asked, kindOf, takenFor, running, connected, gdi, painted, mainVars,
                 sharedVars>>

\* sdl_authenticate_ex(), the certificate callbacks, sdl_show_dialog(); during
\* the session sdl_logon_error_info().
AskQuestion(k) ==
  /\ rdpPc \in {"connect", "run", "reconnect"} /\ mainPc # "crashed" /\ asked < MaxQuestions
  /\ asked' = asked + 1
  /\ kindOf' = [kindOf EXCEPT ![asked + 1] = k]
  /\ queue' = Append(queue, [type |-> "ask", q |-> asked + 1])
  /\ resume' = rdpPc
  /\ rdpPc' = "await"
  /\ UNCHANGED <<takenFor, running, connected, gdi, painted, mainVars, abort,
                 windowsCreatedEvent, floatbarConfiguredEvent, rects, userEvents>>

\* Results of the pending question's kind.
Results == {i \in DOMAIN queue : queue[i].type = "answer" /\ kindOf[queue[i].q] = kindOf[asked]}

\* Mutant: the result is looked at (SDL_PEEKEVENT) and stays in the queue.
PeekResult ==
  /\ At("await") /\ ~abort /\ Results # {}
  /\ LET i == CHOOSE i \in Results : \A j \in Results : i <= j
     IN takenFor' = [takenFor EXCEPT ![asked] = queue[i].q]
  /\ rdpPc' = resume
  /\ UNCHANGED <<resume, asked, kindOf, running, connected, gdi, painted, mainVars, sharedVars>>

\* sdl_wait_for_result() finds a result of the type it waits for.
TakeResult ==
  /\ At("await") /\ ~abort /\ Results # {}
  /\ LET i == CHOOSE i \in Results : \A j \in Results : i <= j
     IN /\ takenFor' = [takenFor EXCEPT ![asked] = queue[i].q]
        /\ queue' = Without(i)
  /\ rdpPc' = resume
  /\ UNCHANGED <<resume, asked, kindOf, running, connected, gdi, painted, mainVars, abort,
                 windowsCreatedEvent, floatbarConfiguredEvent, rects, userEvents>>

\* sdl_wait_for_result() sees the abort.
GiveUpOnResult ==
  /\ At("await") /\ abort
  /\ rdpPc' = resume
  /\ UNCHANGED <<resume, asked, kindOf, takenFor, running, connected, gdi, painted, mainVars,
                 sharedVars>>

\* postConnect() up to waitForWindowsCreated().
WaitForWindowsCreated ==
  /\ At("connect")
  /\ windowsCreatedEvent' = FALSE
  /\ queue' = Append(queue, Event("createWindows"))
  /\ rdpPc' = "windows"
  /\ UNCHANGED <<resume, asked, kindOf, takenFor, running, connected, gdi, painted, mainVars,
                 abort, floatbarConfiguredEvent, rects, userEvents>>

\* WaitForMultipleObjects() prefers the created event to the abort event.
WindowsCreated ==
  /\ At("windows") /\ windowsCreatedEvent
  /\ rdpPc' = "gdi"
  /\ UNCHANGED <<resume, asked, kindOf, takenFor, running, connected, gdi, painted, mainVars,
                 sharedVars>>

WindowsAborted ==
  /\ At("windows") /\ ~windowsCreatedEvent /\ abort
  /\ rdpPc' = "disconnect"
  /\ UNCHANGED <<resume, asked, kindOf, takenFor, running, connected, gdi, painted, mainVars,
                 sharedVars>>

\* gdi_init(), createPrimary() and the pointers may fail; then the rest of
\* postConnect() up to the wait in configureFloatbar().
ConfigureFloatbar ==
  /\ At("gdi")
  /\ gdi' = TRUE /\ connected' = TRUE
  /\ floatbarConfiguredEvent' = FALSE
  /\ queue' = Append(queue, Event("configureFloatbar"))
  /\ rdpPc' = "floatbar"
  /\ UNCHANGED <<resume, asked, kindOf, takenFor, running, painted, mainVars, abort,
                 windowsCreatedEvent, rects, userEvents>>

GdiFails ==
  /\ At("gdi")
  /\ \E made \in BOOLEAN : gdi' = made
  /\ rdpPc' = "disconnect"
  /\ UNCHANGED <<resume, asked, kindOf, takenFor, running, connected, painted, mainVars, sharedVars>>

\* The result of configureFloatbar() is ignored.
FloatbarConfigured ==
  /\ At("floatbar") /\ (floatbarConfiguredEvent \/ abort)
  /\ rdpPc' = "run"
  /\ UNCHANGED <<resume, asked, kindOf, takenFor, running, connected, gdi, painted, mainVars,
                 sharedVars>>

\* freerdp_connect() fails, or auto-reconnect gives up, for a reason of its
\* own or because of the abort.
ConnectFails ==
  /\ rdpPc \in {"connect", "reconnect"} /\ mainPc # "crashed"
  /\ rdpPc' = "disconnect"
  /\ UNCHANGED <<resume, asked, kindOf, takenFor, running, connected, gdi, painted, mainVars,
                 sharedVars>>

\* Mutant: SDL_EVENT_USER_UPDATE is not pushed.
PaintUnannounced ==
  /\ At("run") /\ painted < MaxPaints
  /\ painted' = painted + 1
  /\ rects' = rects + 1
  /\ UNCHANGED <<rdpPc, resume, asked, kindOf, takenFor, running, connected, gdi, mainVars, queue,
                 abort, windowsCreatedEvent, floatbarConfiguredEvent, userEvents>>

\* endPaint() queues the dirty rectangles, then the event that announces them.
EndPaint ==
  /\ At("run") /\ painted < MaxPaints
  /\ painted' = painted + 1
  /\ rects' = rects + 1
  /\ rdpPc' = "painted"
  /\ UNCHANGED <<resume, asked, kindOf, takenFor, running, connected, gdi, mainVars, queue, abort,
                 windowsCreatedEvent, floatbarConfiguredEvent, userEvents>>

PushUpdate ==
  /\ At("painted")
  /\ queue' = Append(queue, Event("update"))
  /\ rdpPc' = "run"
  /\ UNCHANGED <<resume, asked, kindOf, takenFor, running, connected, gdi, painted, mainVars,
                 abort, windowsCreatedEvent, floatbarConfiguredEvent, rects, userEvents>>

\* freerdp_check_event_handles() fails and client_auto_reconnect() tries again.
ConnectionLost ==
  /\ At("run") /\ ~abort
  /\ rdpPc' = "reconnect"
  /\ UNCHANGED <<resume, asked, kindOf, takenFor, running, connected, gdi, painted, mainVars,
                 sharedVars>>

Reconnected ==
  /\ At("reconnect")
  /\ rdpPc' = "run"
  /\ UNCHANGED <<resume, asked, kindOf, takenFor, running, connected, gdi, painted, mainVars,
                 sharedVars>>

\* The server ends the session, or the loop sees the abort.
LeaveRun ==
  /\ At("run")
  /\ rdpPc' = "disconnect"
  /\ UNCHANGED <<resume, asked, kindOf, takenFor, running, connected, gdi, painted, mainVars,
                 sharedVars>>

\* freerdp_disconnect(), which a failed freerdp_connect() calls too, sets the
\* abort event and calls postDisconnect() ...
PostDisconnect ==
  /\ At("disconnect")
  /\ abort' = TRUE
  /\ connected' = FALSE
  /\ rdpPc' = "gdiFree"
  /\ UNCHANGED <<resume, asked, kindOf, takenFor, running, gdi, painted, mainVars, queue,
                 windowsCreatedEvent, floatbarConfiguredEvent, rects, userEvents>>

\* ... which frees the frame buffer after it has reset _connected.
GdiFree ==
  /\ At("gdiFree")
  /\ gdi' = FALSE
  /\ rdpPc' = "cleanup"
  /\ UNCHANGED <<resume, asked, kindOf, takenFor, running, connected, painted, mainVars, sharedVars>>

\* sdl_client_cleanup()
ClientCleanup ==
  /\ At("cleanup")
  /\ running' = FALSE
  /\ queue' = Append(queue, Event("userQuit"))
  /\ rdpPc' = "ended"
  /\ UNCHANGED <<resume, asked, kindOf, takenFor, connected, gdi, painted, mainVars, abort,
                 windowsCreatedEvent, floatbarConfiguredEvent, rects, userEvents>>

\* Steps that depend on the server: it draws, asks, accepts, drops.
ServerStep ==
  \/ LoginStarts \/ EndPaint \/ ConnectionLost \/ Reconnected \/ WaitForWindowsCreated
  \/ \E k \in Kinds : AskQuestion(k)

\* Steps the thread takes by itself.
RdpStep ==
  \/ RdpThreadStarts \/ TakeResult \/ GiveUpOnResult \/ WindowsCreated \/ WindowsAborted
  \/ ConfigureFloatbar \/ FloatbarConfigured \/ PushUpdate \/ PostDisconnect \/ GdiFree
  \/ ClientCleanup

\* Steps it may take at any time, and takes some time after an abort.
RdpGivesUp == ConnectFails \/ LeaveRun

-----------------------------------------------------------------------------
(* The desktop and the signal handler push events; windows must exist for  *)
(* all but SDL_EVENT_QUIT.                                                 *)

UserActs(t) ==
  /\ mainPc \notin {"done", "crashed"} /\ userEvents < MaxUserEvents
  /\ t = "quit" \/ windows
  /\ userEvents' = userEvents + 1
  /\ queue' = Append(queue, Event(t))
  /\ UNCHANGED <<mainVars, rdpVars, abort, windowsCreatedEvent, floatbarConfiguredEvent, rects>>

Next ==
  \/ MainStep \/ AnswerDialog
  \/ RdpStep \/ ServerStep \/ RdpGivesUp \/ GdiFails \/ LoginEnds
  \/ \E t \in UserEventTypes : UserActs(t)

Spec == Init /\ [][Next]_vars

\* The scheduler runs both threads; the library notices an abort; the person
\* answers a dialog and ends a login some day.  The server owes nothing.
Fairness ==
  /\ WF_vars(MainStep)
  /\ WF_vars(RdpStep)
  /\ WF_vars(abort /\ RdpGivesUp)
  /\ WF_vars(AnswerDialog)
  /\ WF_vars(LoginEnds)

FairSpec == Spec /\ Fairness

-----------------------------------------------------------------------------
(* Properties                                                              *)

\* Some dialog was shown again after it had been answered: where SDL put no
\* sentinel between the request and the result, PollEvent repeats the request.
Repeated == \E n \in QuestionIds : shown[n] > 1

MainLeaving == mainPc \in {"stop", "join", "done", "crashed"}

\* postConnect() goes on to gdi_init() and the session only when createWindows()
\* made the windows, however the abort, a failure and the manual-reset event race.
WindowsReady ==
  \/ rdpPc \in {"gdi", "floatbar", "run", "painted", "reconnect"}
  \/ rdpPc = "await" /\ resume # "connect"
  => windows \/ MainLeaving

\* No drawn rectangle is forgotten: while the session goes on, something is left
\* that makes the main thread draw it, unless a form has run and may have taken
\* the event that announces it.
PaintedIsDrawn ==
  \/ rects = 0
  \/ rdpPc = "painted" \/ mainPc \in {"update", "drawMore"}
  \/ \E i \in DOMAIN queue : queue[i].type = "update"
  \/ Handling("update")
  \/ abort \/ MainLeaving
  \/ \E n \in QuestionIds : kindOf[n] \in FormKinds /\ shown[n] > 0

\* The library never takes the answer to another question for the one it asked,
\* unless a dialog was shown twice.
OrphansComeFromRepeats ==
  (\E n \in QuestionIds : takenFor[n] \notin {0, n}) => Repeated

\* Every handshake of postConnect() with the main thread ends, unless the form
\* of a dialog that is shown twice takes the request.
HandshakeEnds ==
  rdpPc \in {"windows", "floatbar"} ~> (rdpPc \notin {"windows", "floatbar"} \/ Repeated)

\* The library gets an answer to what it asks, or sees the abort, with the same
\* exception: the form of the dialog before takes the request for the next.
QuestionsSettled == rdpPc = "await" ~> (rdpPc # "await" \/ Repeated)

\* Wherever the RDP thread waits for the main thread, it gets on.
RdpThreadMovesOn == HandshakeEnds /\ QuestionsSettled

\* drawToWindow(): WINPR_ASSERT(gdi) holds.
GdiAlive == mainPc # "crashed"

\* postConnect(): "a floatbar that fails to attach is a cosmetic loss, not a
\* reason to fail an otherwise-working session".
FloatbarIsCosmetic == failure # "attachFloatbar"

\* What the process promises (SessionContract): which resources exist in which
\* phase of a session, and that a session that is closing gets closed.
TearingDown ==
  abort \/ mainPc \in {"stop", "join"} \/ rdpPc \in {"disconnect", "gdiFree", "cleanup", "ended"}

Phase ==
  IF mainPc \in {"done", "crashed"} THEN "closed"
  ELSE IF TearingDown THEN "closing"
  ELSE IF connected THEN "established" ELSE "starting"

Resources == (IF windows THEN {"windows"} ELSE {}) \cup (IF gdi THEN {"gdi"} ELSE {})

Contract == INSTANCE SessionContract WITH phase <- Phase, resources <- Resources

ImplementsContract == Contract!Spec
=============================================================================
