---------------------------- MODULE DisplayChannel ----------------------------
(***************************************************************************)
(* How the server learns the layout of the session's windows               *)
(* (sdl_disp.cpp, and the window lists of sdl_context.cpp).  Three threads *)
(* end in sendResize(): the main loop for each window and display event,   *)
(* the RDP thread when the server has reset its graphics, and SDL's timer  *)
(* thread.  They share, without a lock, the channel, the date and contents *)
(* of the last layout sent, the list of monitors and the retry timer.      *)
(*                                                                         *)
(* FreeRDP_DynamicResolutionUpdate is on: without it the server's caps are *)
(* not listened to and no layout is sent.  The clock counts half seconds,  *)
(* the RESIZE_MIN_DELAY; a timer fires after two of them.                  *)
(***************************************************************************)
EXTENDS Naturals, Sequences, FiniteSets

CONSTANTS
  Windows, FirstWindow,
  Displays, FirstDisplay,
  Sizes, FirstSize,
  NoLayout,      \* no layout sent, on this connection or at all
  Torn,          \* a list read while the main loop was writing it
  MAX_RETRIES,
  MaxChanges     \* bound: what happens at the screen, and channels going down

ASSUME DisplayAssumption ==
  /\ FirstWindow \in Windows /\ FirstDisplay \in Displays
  /\ FirstSize \in Sizes
  /\ MAX_RETRIES \in Nat

VARIABLES
  multimon,             \* FreeRDP_UseMultimon; otherwise one plain window
  displays, known,      \* the ones connected, and every one SDL has named so far
  home, size,           \* the displays the windows are on now, their pixel sizes
  spread,               \* each display had a window, and none was moved off it
  windows, monitor,     \* SdlContext::_windows and each SdlWindow::_monitor
  settings,             \* FreeRDP_MonitorDefArray
  queue,                \* SDL's events; the main loop is at the first
  at, read,             \* each thread's place in addTimer(), and the list it read
  due,                  \* when SDL's timers fire: _timer, and one it forgot
  retries,              \* _timer_retries
  running,              \* the timer SDL's timer thread is in OnTimer() for
  recent,               \* GetTickCount64() - _lastSentDate < RESIZE_MIN_DELAY
  lastSent,             \* _last_sent_layout
  channel,              \* the server's end of it
  disp, activated,      \* _disp # nullptr, _activated
  server, owesReset,    \* the layout the server was told, and its answer
  session,              \* "runs", "ended" by a failed handler, or "crashed"
  changes

screen == <<multimon, displays, known, home, size, spread>>
lists == <<windows, monitor, settings>>
threads == <<at, read>>
timers == <<due, retries, running>>
sent == <<recent, lastSent>>
link == <<channel, disp, activated>>
remote == <<server, owesReset>>
vars == <<screen, lists, queue, threads, timers, sent, link, remote, session, changes>>

Threads == {"main", "rdp", "timer"}
Places == {"idle", "list", "addTimer", "read", "send", "store", "newTimer", "done"}
Layouts == UNION {[W -> Sizes] : W \in SUBSET Windows}
Events == [what : {"resized"}, win : Windows]
          \cup [what : {"added", "removed"}, display : Displays]

(* "mine" is the timer that _timer names.  One that two threads forgot     *)
(* about, as the second overwrote the first one's id, is "lost": SDL still *)
(* fires it, and nobody can remove it.                                     *)
Timers == {"mine", "lost"}
Off == 3                     \* SDL knows no such timer
Ready == channel = "open" /\ disp /\ activated

(* createWindows(): one window, or with FreeRDP_UseMultimon one for each    *)
(* display, or for those that "/monitors:" names.                          *)
Init ==
  /\ multimon \in BOOLEAN
  /\ displays \in SUBSET Displays /\ windows \in SUBSET Windows
  /\ FirstDisplay \in displays /\ FirstWindow \in windows
  /\ ~multimon => displays = {FirstDisplay} /\ windows = {FirstWindow}
  /\ home \in [Windows -> displays]
  /\ \A w \in Windows \ (windows \ {FirstWindow}) : home[w] = FirstDisplay
  /\ \A v, w \in windows : home[v] = home[w] => v = w
  /\ known = displays /\ spread = (displays = {home[w] : w \in windows})
  /\ size = [w \in Windows |-> FirstSize] /\ monitor = size
  /\ settings = [w \in windows |-> size[w]]
  /\ queue = <<>>
  /\ at = [t \in Threads |-> "idle"] /\ read = [t \in Threads |-> NoLayout]
  /\ due = [i \in Timers |-> Off] /\ retries = 0 /\ running = "none"
  /\ recent = FALSE /\ lastSent = NoLayout
  /\ channel = "none" /\ disp = FALSE /\ activated = FALSE
  /\ server = NoLayout /\ owesReset = FALSE
  /\ session = "runs"
  /\ changes = 0
--------------------------------------------------------------------------------
(* What happens at the screen *)

Change(event) ==
  /\ session = "runs" /\ changes < MaxChanges
  /\ changes' = changes + 1
  /\ queue' = Append(queue, event)
  /\ UNCHANGED <<multimon, lists, threads, timers, sent, link, remote, session>>

WindowResized(w, s) ==
  /\ ~multimon /\ w \in windows /\ size[w] # s
  /\ size' = [size EXCEPT ![w] = s]
  /\ Change([what |-> "resized", win |-> w])
  /\ UNCHANGED <<displays, known, home, spread>>

(* SDL gives a display that comes back a new id. *)
Plug(d) ==
  /\ multimon /\ d \notin known
  /\ displays' = displays \cup {d} /\ known' = known \cup {d}
  /\ Change([what |-> "added", display |-> d])
  /\ UNCHANGED <<home, size, spread>>

Unplug(d) ==
  /\ multimon /\ d \in displays /\ displays # {d}
  /\ displays' = displays \ {d}
  /\ Change([what |-> "removed", display |-> d])
  /\ UNCHANGED <<known, home, size, spread>>

(* SDL or the desktop moves a window off a display that has gone, or       *)
(* somebody moves it off one that is still there.  Bound: the latter comes *)
(* with a change to follow, for only an unplugging can tell it.            *)
MoveWindow(w, d) ==
  /\ session = "runs" /\ multimon /\ changes < MaxChanges
  /\ w \in windows /\ d \in displays \ {home[w]}
  /\ home[w] \in displays => changes + 1 < MaxChanges
  /\ home' = [home EXCEPT ![w] = d]
  /\ spread' = (spread /\ home[w] \notin displays)
  /\ changes' = changes + 1
  /\ UNCHANGED <<multimon, displays, known, size, lists, queue, threads, timers, sent, link,
                 remote, session>>

(* Half a second, in which no thread stays inside sendResize(). *)
Tick ==
  /\ session = "runs"
  /\ \A t \in Threads : at[t] \notin {"read", "send", "store"}
  /\ recent \/ \E i \in Timers : due[i] \in {1, 2}
  /\ recent' = FALSE
  /\ due' = [i \in Timers |-> IF due[i] \in {1, 2} THEN due[i] - 1 ELSE due[i]]
  /\ UNCHANGED <<screen, lists, queue, threads, retries, running, lastSent, link,
                 remote, session, changes>>
--------------------------------------------------------------------------------
(* The main loop: handleEvent(), updateMonitor() and updateMonitors() *)

MainAt(here, event) ==
  /\ session = "runs" /\ at["main"] = here
  /\ queue # <<>> /\ queue[1].what \in event

(* Then updateWindowList() begins to write the list other threads read. *)
Handled ==
  /\ at' = [at EXCEPT !["main"] = "list"]
  /\ UNCHANGED <<multimon, displays, known, size, spread, settings, queue, read, timers, sent,
                 link, remote, changes>>

(* updateWindow() takes the size the window has by now. *)
HandleResized ==
  /\ MainAt("idle", {"resized"})
  /\ monitor' = [monitor EXCEPT ![queue[1].win] = size[queue[1].win]]
  /\ UNCHANGED <<home, windows, session>>
  /\ Handled

\* Mutant: the new window's id is taken for one that is already there.
HandleAddedNowhere ==
  /\ MainAt("idle", {"added"})
  /\ UNCHANGED <<home, windows, monitor, session>>
  /\ Handled

(* addDisplayWindow() *)
HandleAdded ==
  /\ MainAt("idle", {"added"})
  /\ \E w \in Windows \ windows :
       /\ windows' = windows \cup {w}
       /\ home' = [home EXCEPT ![w] = queue[1].display]
       /\ monitor' = [monitor EXCEPT ![w] = size[w]]
  /\ UNCHANGED session
  /\ Handled

\* Mutant: the windows' displays are forgotten with the window.
HandleRemovedWithHome ==
  /\ MainAt("idle", {"removed"})
  /\ \E gone \in SUBSET {w \in windows : home[w] = queue[1].display} :
       /\ windows' = windows \ gone
       /\ home' = [w \in Windows \ gone |-> home[w]]
  /\ UNCHANGED <<monitor, session>>
  /\ Handled

(* removeDisplayWindow(), with the displays the windows are on by now.  It *)
(* erases from the map it is walking: the process survives that or not, a  *)
(* first window goes and others may be missed.                             *)
HandleRemoved ==
  /\ MainAt("idle", {"removed"})
  /\ LET on == {w \in windows : home[w] = queue[1].display}
     IN \E gone \in SUBSET on :
          /\ gone = {} => on = {}
          /\ windows' = windows \ gone
          /\ session' \in IF gone = {} THEN {session} ELSE {session, "crashed"}
  /\ UNCHANGED <<home, monitor>>
  /\ Handled

UpdateWindowList ==
  /\ session = "runs" /\ at["main"] = "list"
  /\ settings' = [w \in windows |-> monitor[w]]
  /\ at' = [at EXCEPT !["main"] = "addTimer"]
  /\ UNCHANGED <<screen, windows, monitor, queue, read, timers, sent, link, remote,
                 session, changes>>

(* SDL_GetDisplayBounds() fails for a display that has gone again since it *)
(* was added, and a handler that fails ends the session.                   *)
HandlerReturns ==
  /\ MainAt("done", {"resized", "added", "removed"})
  /\ session' = IF queue[1].what = "added" /\ queue[1].display \notin displays
                THEN "ended" ELSE session
  /\ at' = [at EXCEPT !["main"] = "idle"]
  /\ queue' = Tail(queue)
  /\ UNCHANGED <<screen, lists, read, timers, sent, link, remote, changes>>
--------------------------------------------------------------------------------
(* addTimer() of the main loop and the RDP thread, and OnTimer() of SDL's  *)
(* timer thread, each a step at a time.                                    *)

Thread(t, here) == session = "runs" /\ at[t] = here
Goes(t, there) == at' = [at EXCEPT ![t] = there]

(* Where sendResize() returns to *)
After(t) == IF t = "timer" THEN "done" ELSE "newTimer"
Returned(t) == IF t = "main" THEN "done" ELSE "idle"

(* sendResize() looks at the channel and the date first. *)
SendResize(t) ==
  Goes(t, IF ~activated \/ ~disp \/ recent THEN After(t) ELSE "read")

\* Mutant: a timer that SDL still knows is relied on.
RemoveTimerIfNone(t) ==
  /\ Thread(t, "addTimer")
  /\ retries' = IF due["mine"] = Off THEN 0 ELSE retries
  /\ IF due["mine"] = Off THEN SendResize(t) ELSE Goes(t, Returned(t))
  /\ UNCHANGED <<screen, lists, queue, read, due, running, sent, link, remote, session, changes>>

RemoveTimer(t) ==
  /\ Thread(t, "addTimer")
  /\ due' = [due EXCEPT !["mine"] = Off]
  /\ running' = IF running = "mine" THEN "removed" ELSE running
  /\ retries' = 0
  /\ SendResize(t)
  /\ UNCHANGED <<screen, lists, queue, read, sent, link, remote, session, changes>>

(* The date is set before anything is known to be sent.  An empty list     *)
(* fails sendLayout()'s assertion.                                         *)
ReadMonitors(t) ==
  /\ Thread(t, "read")
  /\ recent' = TRUE
  /\ \E list \in {settings} \cup IF at["main"] = "list" THEN {Torn} ELSE {} :
       /\ read' = [read EXCEPT ![t] = IF list = lastSent THEN NoLayout ELSE list]
       /\ Goes(t, IF list = lastSent THEN After(t) ELSE "send")
       /\ session' = IF list = settings /\ DOMAIN settings = {} THEN "crashed" ELSE session
  /\ UNCHANGED <<screen, lists, queue, timers, lastSent, link, remote, changes>>

(* SendMonitorLayout(): through a channel object that has gone it takes    *)
(* the process along; on a channel going down it fails, which ends the     *)
(* session when the main loop sends.                                       *)
SendLayout(t) ==
  /\ Thread(t, "send")
  /\ IF disp /\ channel = "open"
     THEN /\ server' = read[t] /\ owesReset' = TRUE
          /\ Goes(t, "store")
          /\ UNCHANGED <<read, session>>
     ELSE /\ session' = IF ~disp THEN "crashed" ELSE IF t = "main" THEN "ended" ELSE session
          /\ read' = [read EXCEPT ![t] = NoLayout]
          /\ Goes(t, IF t = "timer" THEN "done" ELSE Returned(t))
          /\ UNCHANGED remote
  /\ UNCHANGED <<screen, lists, queue, timers, sent, link, changes>>

StoreLastSent(t) ==
  /\ Thread(t, "store")
  /\ lastSent' = read[t]
  /\ read' = [read EXCEPT ![t] = NoLayout]
  /\ Goes(t, After(t))
  /\ UNCHANGED <<screen, lists, queue, timers, recent, link, remote, session, changes>>

(* SDL_AddTimer().  Bound: one timer is lost at a time. *)
AddTimer(t) ==
  /\ Thread(t, "newTimer")
  /\ IF due["mine"] = Off
     THEN due' = [due EXCEPT !["mine"] = 2] /\ UNCHANGED running
     ELSE /\ due["lost"] = Off
          /\ due' = [due EXCEPT !["mine"] = 2, !["lost"] = due["mine"]]
          /\ running' = IF running = "mine" THEN "lost" ELSE running
  /\ Goes(t, Returned(t))
  /\ UNCHANGED <<screen, lists, queue, read, retries, sent, link, remote, session, changes>>

(* OnTimer() *)
TimerFires(i) ==
  /\ Thread("timer", "idle") /\ due[i] = 0
  /\ running' = i
  /\ SendResize("timer")
  /\ UNCHANGED <<screen, lists, queue, read, retries, due, sent, link, remote, session,
                 changes>>

\* Mutant: the count is compared with "==", and two timers count together.
TimerReturnsAtCount ==
  /\ Thread("timer", "done")
  /\ due' = [i \in Timers |-> IF i # running THEN due[i]
                              ELSE IF retries = MAX_RETRIES THEN Off ELSE 2]
  /\ retries' = IF retries > MAX_RETRIES THEN retries ELSE retries + 1
  /\ running' = "none"
  /\ Goes("timer", "idle")
  /\ UNCHANGED <<screen, lists, queue, read, sent, link, remote, session, changes>>

(* One more time, unless it has been removed meanwhile *)
TimerReturns ==
  /\ Thread("timer", "done")
  /\ due' = [i \in Timers |-> IF i # running THEN due[i]
                              ELSE IF retries >= MAX_RETRIES THEN Off ELSE 2]
  /\ retries' = IF retries > MAX_RETRIES THEN retries ELSE retries + 1
  /\ running' = "none"
  /\ Goes("timer", "idle")
  /\ UNCHANGED <<screen, lists, queue, read, sent, link, remote, session, changes>>
--------------------------------------------------------------------------------
(* The RDP thread and the server *)

RdpIdle == session = "runs" /\ at["rdp"] = "idle"

(* init(); a server may reset its graphics at once, or later, or never. *)
ChannelConnected ==
  /\ RdpIdle /\ channel = "none"
  /\ channel' = "open" /\ disp' = TRUE
  /\ server' = NoLayout /\ owesReset' = TRUE
  /\ UNCHANGED <<screen, lists, queue, threads, timers, sent, activated, session, changes>>

DisplayControlCaps ==
  /\ RdpIdle /\ channel = "open"
  /\ activated' = TRUE
  /\ UNCHANGED <<screen, lists, queue, threads, timers, sent, channel, disp, remote, session,
                 changes>>

(* OnGraphicsReset(), and OnActivated() after a resize *)
OnGraphicsReset ==
  /\ RdpIdle /\ owesReset
  /\ owesReset' = FALSE
  /\ Goes("rdp", IF activated THEN "addTimer" ELSE "idle")
  /\ UNCHANGED <<screen, lists, queue, read, timers, sent, link, server, session, changes>>

ChannelCloses ==
  /\ session = "runs" /\ channel = "open" /\ changes < MaxChanges
  /\ channel' = "closing" /\ changes' = changes + 1
  /\ UNCHANGED <<screen, lists, queue, threads, timers, sent, disp, activated, remote,
                 session>>

(* uninit(); what was activated and sent stays as it was. *)
ChannelDisconnected ==
  /\ RdpIdle /\ channel = "closing"
  /\ channel' = "none" /\ disp' = FALSE
  /\ server' = NoLayout /\ owesReset' = FALSE
  /\ UNCHANGED <<screen, lists, queue, threads, timers, sent, activated, session, changes>>
--------------------------------------------------------------------------------
MainStep == HandleResized \/ HandleAdded \/ HandleRemoved \/ UpdateWindowList \/ HandlerReturns

Step(t) ==
  RemoveTimer(t) \/ ReadMonitors(t) \/ SendLayout(t) \/ StoreLastSent(t)
  \/ AddTimer(t)

Next ==
  \/ \E w \in Windows, s \in Sizes : WindowResized(w, s)
  \/ \E d \in Displays : Plug(d) \/ Unplug(d) \/ \E w \in Windows : MoveWindow(w, d)
  \/ Tick
  \/ MainStep
  \/ \E t \in Threads : Step(t)
  \/ \E i \in Timers : TimerFires(i)
  \/ TimerReturns
  \/ ChannelConnected \/ DisplayControlCaps \/ OnGraphicsReset
  \/ ChannelCloses \/ ChannelDisconnected

Spec == Init /\ [][Next]_vars

(* Threads run on, the main loop takes events and SDL's timers fire; of    *)
(* the server nothing is expected.                                         *)
Fairness ==
  /\ WF_vars(Tick)
  /\ WF_vars(MainStep \/ Step("main"))
  /\ WF_vars(Step("rdp"))
  /\ WF_vars(Step("timer") \/ TimerReturns \/ \E i \in Timers : TimerFires(i))

FairSpec == Spec /\ Fairness
--------------------------------------------------------------------------------
TypeOK ==
  /\ displays \subseteq known /\ known \subseteq Displays /\ windows \subseteq Windows
  /\ home \in [Windows -> Displays] /\ size \in [Windows -> Sizes]
  /\ monitor \in [Windows -> Sizes] /\ settings \in Layouts
  /\ queue \in Seq(Events)
  /\ at \in [Threads -> Places] /\ read \in [Threads -> Layouts \cup {NoLayout, Torn}]
  /\ running \in Timers \cup {"removed", "none"}
  /\ retries \in 0..(MAX_RETRIES + 1) /\ due \in [Timers -> 0..Off]
  /\ lastSent \in Layouts \cup {NoLayout, Torn} /\ server \in Layouts \cup {NoLayout, Torn}
  /\ channel \in {"none", "open", "closing"} /\ session \in {"runs", "ended", "crashed"}
  /\ {multimon, spread, recent, disp, activated, owesReset} \subseteq BOOLEAN

(* "WINPR_ASSERT(nmonitors > 0)" of sendLayout() does not hold: with       *)
(* "/monitors:" the only display that has a window can go while others     *)
(* stay, and so can the one display that all windows were moved to.        *)
SomeMonitor == DOMAIN settings # {}

(* A session that was spread over all displays, with windows that stay     *)
(* where they are, keeps what the assertion asks for: as displays come and *)
(* go, and however late their events are handled, the list has a monitor.  *)
SpreadKeepsMonitor == spread => SomeMonitor

Shown == [w \in windows |-> IF multimon THEN monitor[w] ELSE size[w]]

Sending == \E t \in Threads : at[t] \in {"read", "send", "store"}

(* Two threads that send at once can leave the other's layout on record.   *)
Crossed == ~Sending /\ lastSent # server

(* Once the main loop has taken an event, on a channel the server accepts  *)
(* layouts on, the server is told what the screen has come to, whichever   *)
(* thread finds the time to.                                               *)
ServerIsTold ==
  (at["main"] = "addTimer" /\ Ready /\ lastSent = server)
    ~> (server = Shown \/ ~Ready \/ Crossed \/ session # "runs")

(* A layout makes the server reset its graphics, and that makes the client *)
(* look for a layout to send.  The two do not keep each other going: when  *)
(* the person has stopped, the timers stop, too.                           *)
ResizingEnds == <>[](session # "runs" \/ \A i \in Timers : due[i] = Off)
================================================================================
