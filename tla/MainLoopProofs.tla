---------------------------- MODULE MainLoopProofs ----------------------------
(***************************************************************************)
(* Proofs about two components that hang on the main loop.  For the idle   *)
(* keep-alive, for every set of intervals and every length of a session:   *)
(* it never interrupts somebody who is there, fires when nobody is, and    *)
(* its button restores what the session was started with.  For the display *)
(* channel, for any windows, displays and sizes: a monitor is always left. *)
(***************************************************************************)
EXTENDS IdleKeepAlive, DisplayChannel, TLAPS

\* History lies in the past, and while the session is connected an armed timer
\* has seen every input and every combo.
HistoryIsPast == lastInput <= now /\ lastCombo <= now
TimerSawAll ==
  /\ connection = "before" => last = Never
  /\ connected /\ last # Never => lastInput <= last /\ lastCombo <= last

\* Only two options exist: off, and the one the session was started with.
SettingsKept ==
  /\ configured = seconds
  /\ interval \in {0, seconds}

IInv == IdleTypeOK /\ HistoryIsPast /\ TimerSawAll /\ SettingsKept

\* Nothing was noted before the session starts.
LEMMA InitIInv == IdleInit => IInv
  BY IntervalsAssumption, TimeAssumption
     DEF IdleInit, IInv, IdleTypeOK, HistoryIsPast, TimerSawAll, SettingsKept, Usable, Combos,
         Time, connected

\* Every step keeps the invariant.
LEMMA NextIInv == IInv /\ [IdleNext]_idleVars => IInv'
<1> SUFFICES ASSUME IInv, [IdleNext]_idleVars PROVE IInv'
  OBVIOUS
<1> USE IntervalsAssumption, TimeAssumption
    DEF IInv, IdleTypeOK, HistoryIsPast, TimerSawAll, SettingsKept, Time, connected, options,
        timer, history, idleVars
<1>1. CASE SecondPasses
  BY <1>1 DEF SecondPasses
<1>2. CASE Connect
  BY <1>2 DEF Connect
<1>3. CASE Disconnect
  BY <1>3 DEF Disconnect
<1>4. CASE OtherEvent
  BY <1>4 DEF OtherEvent
<1>5. CASE NoteInput
  BY <1>5 DEF NoteInput
<1>6. CASE ToggleIdleKeepAlive
  <2>1. CASE Enabled
    BY <1>6, <2>1 DEF ToggleIdleKeepAlive
  <2>2. CASE ~Enabled /\ configured > 0
    BY <1>6, <2>2 DEF ToggleIdleKeepAlive, Configure, Usable
  <2>3. CASE ~Enabled /\ ~(configured > 0)
    BY <1>6, <2>3 DEF ToggleIdleKeepAlive
  <2> QED
    BY <2>1, <2>2, <2>3
<1>7. CASE CheckIdleKeepAlive
  BY <1>7 DEF CheckIdleKeepAlive, Due, Enabled
<1>8. CASE UNCHANGED idleVars
  BY <1>8
<1> QED
  BY <1>1, <1>2, <1>3, <1>4, <1>5, <1>6, <1>7, <1>8 DEF IdleNext

\* The invariant holds throughout the session.
THEOREM IdleInvariant == IdleSpec => []IInv
  BY InitIInv, NextIInv, PTL DEF IdleSpec

\* Every variable keeps its type.
THEOREM IdleTypeCorrect == IdleSpec => []IdleTypeOK
  BY IdleInvariant, PTL DEF IInv

\* A combo is sent by the check alone, and only by a timer that has run for a
\* whole interval since the last input and the last combo.
THEOREM IdleOnlyWhenIdle == IdleSpec => OnlyWhenIdle
<1> DEFINE Idle == SendsCombo => /\ lastInput = Never \/ now - lastInput >= interval
                                 /\ lastCombo = Never \/ now - lastCombo >= interval
<1>1. IInv /\ [IdleNext]_idleVars => [Idle]_idleVars
  <2> SUFFICES ASSUME IInv, IdleNext, SendsCombo PROVE Idle
    BY DEF idleVars
  <2>1. CheckIdleKeepAlive
    BY DEF IdleNext, SendsCombo, SecondPasses, Connect, Disconnect, OtherEvent, NoteInput,
           ToggleIdleKeepAlive, history
  <2>2. connected /\ Due
    BY <2>1 DEF CheckIdleKeepAlive, SendsCombo
  <2> QED
    BY <2>2, IntervalsAssumption, TimeAssumption
       DEF Due, IInv, IdleTypeOK, TimerSawAll, Time
<1> QED
  BY <1>1, IdleInvariant, PTL DEF IdleSpec, OnlyWhenIdle

\* The button switches between off and the session's own setting.
THEOREM IdleToggleRestores == IdleSpec => ToggleRestores
<1> DEFINE Restores == ToggleIdleKeepAlive /\ Usable(seconds, combo)
                         => /\ interval' = IF interval = 0 THEN seconds ELSE 0
                            /\ scancodes' = IF interval = 0 THEN "keys" ELSE "none"
<1>1. IInv /\ [IdleNext]_idleVars => [Restores]_idleVars
  <2> SUFFICES ASSUME IInv, ToggleIdleKeepAlive, Usable(seconds, combo)
               PROVE  /\ interval' = IF interval = 0 THEN seconds ELSE 0
                      /\ scancodes' = IF interval = 0 THEN "keys" ELSE "none"
    BY DEF idleVars
  <2>1. CASE interval = 0
    BY <2>1, IntervalsAssumption
       DEF IInv, IdleTypeOK, SettingsKept, ToggleIdleKeepAlive, Configure, Usable, Enabled
  <2>2. CASE interval > 0
    BY <2>2 DEF IInv, IdleTypeOK, SettingsKept, ToggleIdleKeepAlive, Enabled
  <2> QED
    BY <2>1, <2>2, IntervalsAssumption DEF IInv, IdleTypeOK
<1> QED
  BY <1>1, IdleInvariant, PTL DEF IdleSpec, ToggleRestores

-----------------------------------------------------------------------------
(* The other direction: the timer does run off.                              *)

\* x is no later than t, which has been.
NotAfter(x, t) == t # Never /\ x <= t

\* x is no later than the last thing that happened.
UpToQuiet(x) == NotAfter(x, lastEvent) \/ NotAfter(x, lastCombo) \/ NotAfter(x, since)

\* A wait for events lasts a second at most, and the timer was set in the past.
WaitIsShort == waitingFrom <= now /\ now <= waitingFrom + 1 /\ last <= now

\* Before the first look at it the timer has waited since the last thing that
\* happened; that look arms it at most a second later, and a look that sent
\* nothing was too early.
TimerRuns ==
  connected /\ Enabled =>
    /\ scancodes = "keys"
    /\ last = Never => UpToQuiet(waitingFrom)
    /\ last # Never => /\ UpToQuiet(last - 1)
                       /\ UpToQuiet(waitingFrom) \/ waitingFrom - last <= interval - 1

\* A usable setting is one with keys.
KeysWhenEnabled == Enabled => scancodes = "keys"

FireInv == IInv /\ WaitIsShort /\ KeysWhenEnabled /\ TimerRuns

\* Time only passes within the wait that is going on.
LEMMA NextWaitIsShort == IInv /\ WaitIsShort /\ [IdleNext]_idleVars => WaitIsShort'
  BY TimeAssumption
     DEF IInv, IdleTypeOK, Time, WaitIsShort, IdleNext, SecondPasses, Connect, Disconnect,
         OtherEvent, NoteInput, ToggleIdleKeepAlive, Configure, CheckIdleKeepAlive, idleVars,
         options, timer, history

LEMMA NextKeysWhenEnabled == IInv /\ KeysWhenEnabled /\ [IdleNext]_idleVars => KeysWhenEnabled'
<1> SUFFICES ASSUME IInv, KeysWhenEnabled, [IdleNext]_idleVars PROVE KeysWhenEnabled'
  OBVIOUS
<1>1. CASE ToggleIdleKeepAlive
  <2>1. CASE Enabled \/ configured > 0
    BY <1>1, <2>1 DEF ToggleIdleKeepAlive, Configure, KeysWhenEnabled, Enabled
  <2>2. CASE ~(Enabled \/ configured > 0)
    BY <1>1, <2>2 DEF ToggleIdleKeepAlive, KeysWhenEnabled, Enabled
  <2> QED
    BY <2>1, <2>2
<1>2. CASE ~ToggleIdleKeepAlive
  BY <1>2 DEF IdleNext, SecondPasses, Connect, Disconnect, OtherEvent, NoteInput,
              CheckIdleKeepAlive, idleVars, options, timer, history, KeysWhenEnabled, Enabled
<1> QED
  BY <1>1, <1>2

LEMMA NextTimerRuns == FireInv /\ [IdleNext]_idleVars => TimerRuns'
<1> SUFFICES ASSUME FireInv, [IdleNext]_idleVars, (connected /\ Enabled)' PROVE TimerRuns'
  BY DEF TimerRuns
<1> USE TimeAssumption, IntervalsAssumption
    DEF FireInv, IInv, IdleTypeOK, Time, TimerRuns, WaitIsShort, UpToQuiet, NotAfter, connected,
        Enabled, options, timer, history
<1>k. KeysWhenEnabled'
  BY NextKeysWhenEnabled
<1>1. CASE SecondPasses
  BY <1>1 DEF SecondPasses
<1>2. CASE Connect
  BY <1>2, <1>k DEF Connect, TimerSawAll, KeysWhenEnabled
<1>3. CASE Disconnect
  BY <1>3 DEF Disconnect
<1>4. CASE OtherEvent
  BY <1>4 DEF OtherEvent
<1>5. CASE NoteInput
  BY <1>5 DEF NoteInput
<1>6. CASE ToggleIdleKeepAlive
  <2>1. waitingFrom' = since' /\ since' \in Time /\ since' # Never
    BY <1>6 DEF ToggleIdleKeepAlive
  <2>2. last' = Never
    BY <1>6 DEF ToggleIdleKeepAlive, Configure
  <2> QED
    BY <1>k, <2>1, <2>2 DEF KeysWhenEnabled
<1>7. CASE CheckIdleKeepAlive
  <2>1. /\ UNCHANGED <<interval, scancodes, connection, now, lastEvent, since>>
        /\ waitingFrom' = now /\ now = waitingFrom + 1 /\ scancodes = "keys" /\ interval > 0
    BY <1>7 DEF CheckIdleKeepAlive
  <2>2. CASE Due
    <3>1. last' = now /\ lastCombo' = now
      BY <1>7, <2>1, <2>2 DEF CheckIdleKeepAlive
    <3> QED
      BY <2>1, <3>1
  <2>3. CASE ~Due /\ last = Never
    <3>1. last' = now /\ lastCombo' = lastCombo
      BY <1>7, <2>1, <2>3 DEF CheckIdleKeepAlive
    <3> QED
      BY <2>1, <2>3, <3>1
  <2>4. CASE ~Due /\ last # Never
    <3>1. last' = last /\ lastCombo' = lastCombo /\ now - last < interval
      BY <1>7, <2>1, <2>4 DEF CheckIdleKeepAlive, Due
    <3> QED
      BY <2>1, <2>4, <3>1
  <2> QED
    BY <2>2, <2>3, <2>4
<1>8. CASE UNCHANGED idleVars
  BY <1>8 DEF idleVars
<1> QED
  BY <1>1, <1>2, <1>3, <1>4, <1>5, <1>6, <1>7, <1>8 DEF IdleNext

\* The keep-alive does its work: a second after nothing at all has happened for
\* an interval a combo has been sent, for every interval.
THEOREM IdleFiresWhenQuiet == IdleSpec => []FiresWhenQuiet
<1>1. IdleInit => FireInv
  <2> SUFFICES ASSUME IdleInit PROVE WaitIsShort /\ KeysWhenEnabled /\ TimerRuns
    BY InitIInv DEF FireInv
  <2> QED
    BY TimeAssumption DEF IdleInit, WaitIsShort, KeysWhenEnabled, TimerRuns, connected, Enabled
<1>2. FireInv /\ [IdleNext]_idleVars => FireInv'
  BY NextIInv, NextWaitIsShort, NextKeysWhenEnabled, NextTimerRuns DEF FireInv
<1>3. FireInv => FiresWhenQuiet
  BY TimeAssumption, IntervalsAssumption
     DEF FireInv, IInv, IdleTypeOK, Time, TimerRuns, WaitIsShort, UpToQuiet, NotAfter,
         FiresWhenQuiet, Recent
<1> QED
  BY <1>1, <1>2, <1>3, PTL DEF IdleSpec

-----------------------------------------------------------------------------
(* The display channel: when the list of monitors it may send is not empty.  *)
(* First the types, a part for each group of variables.                      *)

ScreenTyped ==
  /\ displays \subseteq known /\ known \subseteq Displays /\ windows \subseteq Windows
  /\ home \in [Windows -> Displays] /\ size \in [Windows -> Sizes]
  /\ monitor \in [Windows -> Sizes] /\ settings \in Layouts

LoopTyped ==
  /\ queue \in Seq(Events)
  /\ at \in [Threads -> Places]
  /\ session \in {"runs", "ended", "crashed"}

SentTyped ==
  /\ read \in [Threads -> Layouts \cup {NoLayout, Torn}]
  /\ lastSent \in Layouts \cup {NoLayout, Torn} /\ server \in Layouts \cup {NoLayout, Torn}

TimersTyped ==
  /\ running \in Timers \cup {"removed", "none"}
  /\ retries \in 0..(MAX_RETRIES + 1) /\ due \in [Timers -> 0..Off]

LinkTyped ==
  /\ channel \in {"none", "open", "closing"}
  /\ {multimon, spread, recent, disp, activated, owesReset} \subseteq BOOLEAN

\* In the beginning every window has a display, and nothing was sent.
LEMMA InitTyped ==
  ASSUME Init
  PROVE  ScreenTyped /\ LoopTyped /\ SentTyped /\ TimersTyped /\ LinkTyped
<1> USE DisplayAssumption
<1> SUFFICES ScreenTyped /\ LoopTyped /\ SentTyped /\ TimersTyped /\ LinkTyped
  OBVIOUS
<1>1. ScreenTyped
  <2>1. windows \subseteq Windows /\ settings \in [windows -> Sizes]
    BY DEF Init
  <2> QED
    BY <2>1 DEF Init, ScreenTyped, Layouts
<1>2. LoopTyped
  BY DEF Init, LoopTyped, Places
<1>3. SentTyped
  BY DEF Init, SentTyped
<1>4. TimersTyped
  BY DEF Init, TimersTyped, Off, Timers
<1>5. LinkTyped
  BY DEF Init, LinkTyped
<1> QED
  BY <1>1, <1>2, <1>3, <1>4, <1>5

LEMMA NextScreenTyped ==
  ASSUME ScreenTyped, LoopTyped, [Next]_vars
  PROVE  ScreenTyped'
<1> USE DEF ScreenTyped, screen, lists
<1>1. ASSUME NEW w \in Windows, NEW s \in Sizes, WindowResized(w, s) PROVE ScreenTyped'
  BY <1>1 DEF WindowResized, Change
<1>2. ASSUME NEW d \in Displays, Plug(d) \/ Unplug(d) PROVE ScreenTyped'
  BY <1>2 DEF Plug, Unplug, Change
<1>9. ASSUME NEW d \in Displays, NEW w \in Windows, MoveWindow(w, d) PROVE ScreenTyped'
  BY <1>9 DEF MoveWindow
<1>3. CASE HandleResized
  BY <1>3 DEF HandleResized, Handled
<1>4. CASE HandleAdded
  <2>1. queue # <<>> /\ queue[1].what = "added"
    BY <1>4 DEF HandleAdded, MainAt
  <2>2. queue[1] \in Events
    BY <2>1 DEF LoopTyped
  <2>3. queue[1].display \in Displays
    BY <2>1, <2>2 DEF Events
  <2> QED
    BY <1>4, <2>3 DEF HandleAdded, Handled
<1>5. CASE HandleRemoved
  BY <1>5 DEF HandleRemoved, Handled
<1>6. CASE UpdateWindowList
  <2>1. settings' \in [windows -> Sizes]
    BY <1>6 DEF UpdateWindowList
  <2>2. settings' \in Layouts
    BY <2>1 DEF Layouts
  <2> QED
    BY <1>6, <2>2 DEF UpdateWindowList
<1>7. ASSUME UNCHANGED <<displays, known, windows, home, size, monitor, settings>> PROVE ScreenTyped'
  BY <1>7
<1>8. Tick \/ HandlerReturns \/ (\E t \in Threads : Step(t))
      \/ (\E i \in Timers : TimerFires(i)) \/ TimerReturns
      \/ ChannelConnected \/ DisplayControlCaps \/ OnGraphicsReset
      \/ ChannelCloses \/ ChannelDisconnected \/ UNCHANGED vars
        => UNCHANGED <<displays, known, windows, home, size, monitor, settings>>
  BY DEF Tick, HandlerReturns, Step, RemoveTimer, ReadMonitors, SendLayout, StoreLastSent,
         AddTimer, TimerFires, TimerReturns, ChannelConnected, DisplayControlCaps,
         OnGraphicsReset, ChannelCloses, ChannelDisconnected, vars
<1> QED
  BY <1>1, <1>2, <1>9, <1>3, <1>4, <1>5, <1>6, <1>7, <1>8 DEF Next, MainStep

\* A thread goes from place to place, and only the main loop takes events.
LEMMA ThreadMoves ==
  ASSUME LoopTyped, NEW t \in Threads, NEW there \in Places, Goes(t, there)
  PROVE  /\ at' \in [Threads -> Places]
         /\ t # "main" => at'["main"] = at["main"]
         /\ t = "main" => at'["main"] = there
BY DEF LoopTyped, Goes, Threads

LEMMA NextLoopTyped ==
  ASSUME LoopTyped, [Next]_vars
  PROVE  LoopTyped'
<1> USE DEF LoopTyped
<1>0. \A t \in Threads :
        {After(t), Returned(t), "read", "send", "store", "idle", "addTimer"}
           \subseteq Places
  BY DEF After, Returned, Places, Threads
<1>1. ASSUME NEW e \in Events, Change(e) PROVE LoopTyped'
  BY <1>1 DEF Change, threads
<1>2. ASSUME NEW w \in Windows, NEW s \in Sizes, WindowResized(w, s) PROVE LoopTyped'
  <2>1. [what |-> "resized", win |-> w] \in Events
    BY DEF Events
  <2> QED
    BY <1>1, <1>2, <2>1 DEF WindowResized
<1>3. ASSUME NEW d \in Displays, Plug(d) \/ Unplug(d) PROVE LoopTyped'
  <2>1. /\ [what |-> "added", display |-> d] \in Events
        /\ [what |-> "removed", display |-> d] \in Events
    BY DEF Events
  <2> QED
    BY <1>1, <1>3, <2>1 DEF Plug, Unplug
<1>4. CASE HandleResized \/ HandleAdded \/ HandleRemoved
  <2>1. UNCHANGED queue /\ at' = [at EXCEPT !["main"] = "list"]
    BY <1>4 DEF HandleResized, HandleAdded, HandleRemoved, Handled
  <2>2. session' \in {session, "crashed"}
    BY <1>4 DEF HandleResized, HandleAdded, HandleRemoved
  <2> QED
    BY <2>1, <2>2 DEF Places
<1>5. CASE UpdateWindowList
  BY <1>5 DEF UpdateWindowList, Places
<1>6. CASE HandlerReturns
  <2>1. session' \in {session, "ended"} /\ at' = [at EXCEPT !["main"] = "idle"]
        /\ queue # <<>> /\ queue' = Tail(queue)
    BY <1>6 DEF HandlerReturns, MainAt
  <2>2. queue' \in Seq(Events)
    BY <2>1
  <2>3. at' \in [Threads -> Places]
    BY <2>1 DEF Places
  <2> QED
    BY <2>1, <2>2, <2>3
<1>7. ASSUME NEW t \in Threads, NEW there \in Places, Goes(t, there), UNCHANGED queue,
             session' \in {session, "crashed", "ended"}
      PROVE  LoopTyped'
  BY <1>7 DEF Goes
<1>8. ASSUME NEW t \in Threads, SendResize(t)
      PROVE  \E there \in Places : Goes(t, there)
  BY <1>0, <1>8 DEF SendResize
<1>9. ASSUME NEW t \in Threads, Step(t) PROVE LoopTyped'
  <2>1. CASE RemoveTimer(t)
    BY <1>7, <1>8, <2>1 DEF RemoveTimer
  <2>2. CASE ReadMonitors(t)
    <3>1. \E there \in Places : Goes(t, there)
      BY <1>0, <2>2 DEF ReadMonitors
    <3>2. session' \in {session, "crashed", "ended"} /\ UNCHANGED queue
      BY <2>2 DEF ReadMonitors
    <3> QED
      BY <1>7, <3>1, <3>2
  <2>3. CASE SendLayout(t)
    <3>1. \E there \in Places : Goes(t, there)
      BY <1>0, <2>3 DEF SendLayout, Places
    <3>2. session' \in {session, "crashed", "ended"} /\ UNCHANGED queue
      BY <2>3 DEF SendLayout
    <3> QED
      BY <1>7, <3>1, <3>2
  <2>4. CASE StoreLastSent(t)
    BY <1>0, <1>7, <2>4 DEF StoreLastSent
  <2>5. CASE AddTimer(t)
    BY <1>0, <1>7, <2>5 DEF AddTimer
  <2> QED
    BY <1>9, <2>1, <2>2, <2>3, <2>4, <2>5 DEF Step
<1>10. ASSUME NEW i \in Timers, TimerFires(i) PROVE LoopTyped'
  BY <1>7, <1>8, <1>10 DEF TimerFires, Threads
<1>11. CASE TimerReturns
  BY <1>7, <1>11 DEF TimerReturns, Threads, Places
<1>12. CASE OnGraphicsReset
  BY <1>7, <1>12 DEF OnGraphicsReset, Threads, Places
<1>14. ASSUME NEW d \in Displays, NEW w \in Windows, MoveWindow(w, d) PROVE LoopTyped'
  BY <1>14 DEF MoveWindow, threads
<1>13. CASE Tick \/ ChannelConnected \/ DisplayControlCaps \/ ChannelCloses
            \/ ChannelDisconnected \/ UNCHANGED vars
  BY <1>13 DEF Tick, ChannelConnected, DisplayControlCaps, ChannelCloses, ChannelDisconnected,
               threads, vars
<1> QED
  BY <1>2, <1>3, <1>4, <1>5, <1>6, <1>9, <1>10, <1>11, <1>12, <1>13, <1>14 DEF Next, MainStep

LEMMA NextSentTyped ==
  ASSUME ScreenTyped, SentTyped, [Next]_vars
  PROVE  SentTyped'
<1> USE DEF SentTyped, sent, threads, remote
<1>1. ASSUME NEW t \in Threads, Step(t) PROVE SentTyped'
  <2>1. CASE RemoveTimer(t)
    BY <2>1 DEF RemoveTimer
  <2>2. CASE ReadMonitors(t)
    <3>1. \E list \in {settings, Torn, NoLayout} : read' = [read EXCEPT ![t] = list]
      BY <2>2 DEF ReadMonitors
    <3> QED
      BY <2>2, <3>1 DEF ReadMonitors, ScreenTyped
  <2>3. CASE SendLayout(t)
    BY <2>3 DEF SendLayout
  <2>4. CASE StoreLastSent(t)
    BY <2>4 DEF StoreLastSent
  <2>5. CASE AddTimer(t)
    BY <2>5 DEF AddTimer
  <2> QED
    BY <1>1, <2>1, <2>2, <2>3, <2>4, <2>5 DEF Step
<1>2. MainStep => UNCHANGED <<read, lastSent, server>>
  BY DEF MainStep, HandleResized, HandleAdded, HandleRemoved, Handled, UpdateWindowList,
         HandlerReturns
<1>3. (\E w \in Windows, s \in Sizes : WindowResized(w, s))
      \/ (\E d \in Displays : Plug(d) \/ Unplug(d) \/ \E w \in Windows : MoveWindow(w, d))
        => UNCHANGED <<read, lastSent, server>>
  BY DEF WindowResized, Plug, Unplug, MoveWindow, Change
<1>4. Tick \/ (\E i \in Timers : TimerFires(i)) \/ TimerReturns \/ DisplayControlCaps
      \/ OnGraphicsReset \/ ChannelCloses \/ UNCHANGED vars
        => UNCHANGED <<read, lastSent, server>>
  BY DEF Tick, TimerFires, TimerReturns, DisplayControlCaps, OnGraphicsReset, ChannelCloses, vars
<1>5. ChannelConnected \/ ChannelDisconnected
        => UNCHANGED <<read, lastSent>> /\ server' = NoLayout
  BY DEF ChannelConnected, ChannelDisconnected
<1> QED
  BY <1>1, <1>2, <1>3, <1>4, <1>5 DEF Next

LEMMA NextTimersTyped ==
  ASSUME TimersTyped, [Next]_vars
  PROVE  TimersTyped'
<1> USE DisplayAssumption DEF TimersTyped, timers, Timers, Off
<1>1. ASSUME NEW t \in Threads, Step(t) PROVE TimersTyped'
  <2>1. CASE RemoveTimer(t)
    BY <2>1 DEF RemoveTimer
  <2>2. CASE ReadMonitors(t) \/ SendLayout(t) \/ StoreLastSent(t)
    BY <2>2 DEF ReadMonitors, SendLayout, StoreLastSent
  <2>3. CASE AddTimer(t)
    BY <2>3 DEF AddTimer
  <2> QED
    BY <1>1, <2>1, <2>2, <2>3 DEF Step
<1>2. CASE Tick
  <2>1. due' \in [Timers -> 0..Off]
    BY <1>2 DEF Tick
  <2> QED
    BY <1>2, <2>1 DEF Tick
<1>3. CASE TimerReturns
  <2>1. due' \in [Timers -> 0..Off]
    BY <1>3 DEF TimerReturns
  <2> QED
    BY <1>3, <2>1 DEF TimerReturns
<1>4. ASSUME NEW i \in Timers, TimerFires(i) PROVE TimersTyped'
  BY <1>4 DEF TimerFires
<1>5. MainStep => UNCHANGED timers
  BY DEF MainStep, HandleResized, HandleAdded, HandleRemoved, Handled, UpdateWindowList,
         HandlerReturns
<1>6. (\E w \in Windows, s \in Sizes : WindowResized(w, s))
      \/ (\E d \in Displays : Plug(d) \/ Unplug(d) \/ \E w \in Windows : MoveWindow(w, d))
        => UNCHANGED timers
  BY DEF WindowResized, Plug, Unplug, MoveWindow, Change
<1>7. DisplayControlCaps \/ OnGraphicsReset \/ ChannelCloses \/ ChannelConnected
      \/ ChannelDisconnected \/ UNCHANGED vars => UNCHANGED timers
  BY DEF DisplayControlCaps, OnGraphicsReset, ChannelCloses, ChannelConnected,
         ChannelDisconnected, vars
<1>8. UNCHANGED timers => TimersTyped'
  OBVIOUS
<1> QED
  BY <1>1, <1>2, <1>3, <1>4, <1>5, <1>6, <1>7, <1>8 DEF Next

LEMMA NextLinkTyped ==
  ASSUME LinkTyped, [Next]_vars
  PROVE  LinkTyped'
<1> DEFINE flags == <<multimon, spread, channel, recent, disp, activated, owesReset>>
<1>1. ASSUME NEW t \in Threads, Step(t) PROVE LinkTyped'
  <2>1. RemoveTimer(t) \/ StoreLastSent(t) \/ AddTimer(t) => UNCHANGED flags
    BY DEF RemoveTimer, StoreLastSent, AddTimer, screen, sent, link, remote
  <2>2. ReadMonitors(t) => /\ UNCHANGED <<multimon, spread, channel, disp, activated, owesReset>>
                           /\ recent' = TRUE
    BY DEF ReadMonitors, screen, link, remote
  <2>3. SendLayout(t) => /\ UNCHANGED <<multimon, spread, channel, recent, disp, activated>>
                         /\ owesReset' = TRUE \/ UNCHANGED owesReset
    BY DEF SendLayout, screen, sent, link, remote
  <2> QED
    BY <1>1, <2>1, <2>2, <2>3 DEF Step, LinkTyped
<1>2. MainStep => UNCHANGED flags
  BY DEF MainStep, HandleResized, HandleAdded, HandleRemoved, Handled, UpdateWindowList,
         HandlerReturns, screen, sent, link, remote
<1>3. (\E w \in Windows, s \in Sizes : WindowResized(w, s))
      \/ (\E d \in Displays : Plug(d) \/ Unplug(d) \/ \E w \in Windows : MoveWindow(w, d))
        => UNCHANGED <<multimon, channel, recent, disp, activated, owesReset>>
           /\ (spread' = FALSE \/ UNCHANGED spread)
  BY DEF WindowResized, Plug, Unplug, MoveWindow, Change, sent, link, remote
<1>4. (\E i \in Timers : TimerFires(i)) \/ TimerReturns \/ UNCHANGED vars
        => UNCHANGED flags
  BY DEF TimerFires, TimerReturns, vars, screen, sent, link, remote
<1>5. Tick => UNCHANGED <<multimon, spread, channel, disp, activated, owesReset>> /\ recent' = FALSE
  BY DEF Tick, screen, link, remote
<1>6. ChannelConnected => /\ UNCHANGED <<multimon, spread, recent, activated>>
                          /\ channel' = "open" /\ disp' = TRUE /\ owesReset' = TRUE
  BY DEF ChannelConnected, screen, sent
<1>7. ChannelDisconnected => /\ UNCHANGED <<multimon, spread, recent, activated>>
                             /\ channel' = "none" /\ disp' = FALSE /\ owesReset' = FALSE
  BY DEF ChannelDisconnected, screen, sent
<1>8. DisplayControlCaps => /\ UNCHANGED <<multimon, spread, channel, recent, disp, owesReset>>
                            /\ activated' = TRUE
  BY DEF DisplayControlCaps, screen, sent, remote
<1>9. OnGraphicsReset => /\ UNCHANGED <<multimon, spread, channel, recent, disp, activated>>
                         /\ owesReset' = FALSE
  BY DEF OnGraphicsReset, screen, sent, link
<1>10. ChannelCloses => /\ UNCHANGED <<multimon, spread, recent, disp, activated, owesReset>>
                        /\ channel' = "closing"
  BY DEF ChannelCloses, screen, sent, remote
<1> QED
  BY <1>1, <1>2, <1>3, <1>4, <1>5, <1>6, <1>7, <1>8, <1>9, <1>10 DEF Next, LinkTyped

Typed == ScreenTyped /\ LoopTyped /\ SentTyped /\ TimersTyped /\ LinkTyped

LEMMA NextTyped ==
  ASSUME Typed, [Next]_vars
  PROVE  Typed'
  BY NextScreenTyped, NextLoopTyped, NextSentTyped, NextTimersTyped, NextLinkTyped DEF Typed

\* Every variable keeps its type.
THEOREM DisplayTypeCorrect == Spec => []TypeOK
<1>1. Typed => TypeOK
  BY DEF Typed, TypeOK, ScreenTyped, LoopTyped, SentTyped, TimersTyped, LinkTyped
<1>2. Init => Typed
  BY InitTyped DEF Typed
<1>3. Typed /\ [Next]_vars => Typed'
  BY NextTyped
<1> QED
  BY <1>1, <1>2, <1>3, PTL DEF Spec

-----------------------------------------------------------------------------
(* A session spread over all displays keeps a monitor.                       *)

Added(d) == [what |-> "added", display |-> d]
Removed(d) == [what |-> "removed", display |-> d]

\* The events the main loop has not dealt with yet, and the displays that have
\* a window.
Waiting == IF at["main"] = "idle" THEN queue ELSE Tail(queue)
Homes == {home[w] : w \in windows}

\* After the first m events of q display e has a window: it has one now, or one
\* is added by them, and it is not removed again.
Covered(q, homes, e, m) ==
  \/ \E j \in 1..m : q[j] = Added(e) /\ \A i \in (j + 1)..m : q[i] # Removed(e)
  \/ e \in homes /\ \A i \in 1..m : q[i] # Removed(e)

\* Whenever a display's windows go another display has one, and in the end all
\* connected ones do.
Backed(q, homes) ==
  \A k \in DOMAIN q, d \in Displays :
    q[k] = Removed(d) => \E e \in Displays \ {d} : Covered(q, homes, e, k - 1)

Reached(q, homes, plugged) == \A e \in plugged : Covered(q, homes, e, Len(q))

\* Who is reported gone is gone for good.
GoneInv ==
  /\ displays # {}
  /\ \A k \in DOMAIN Waiting, d \in Displays :
       Waiting[k] = Removed(d) => d \in known \ displays
  /\ at["main"] # "idle" => queue # <<>>

MonitorInv ==
  /\ Backed(Waiting, Homes) /\ Reached(Waiting, Homes, displays)
  /\ windows # {} /\ DOMAIN settings # {}

\* An event that comes to the end of the queue changes nothing before it.
LEMMA AppendedKeeps ==
  ASSUME NEW q \in Seq(Events), NEW ev \in Events, NEW homes, NEW e,
         NEW m \in 0..Len(q), Covered(q, homes, e, m)
  PROVE  Covered(Append(q, ev), homes, e, m)
<1>1. \A i \in 1..m : Append(q, ev)[i] = q[i]
  OBVIOUS
<1>2. \A j \in 1..m : \A i \in (j + 1)..m : i \in 1..m
  OBVIOUS
<1> QED
  BY <1>1, <1>2, Zenon DEF Covered

LEMMA AppendedReached ==
  ASSUME NEW q \in Seq(Events), NEW ev \in Events, NEW homes, NEW e,
         (Covered(q, homes, e, Len(q)) /\ ev # Removed(e)) \/ ev = Added(e)
  PROVE  Covered(Append(q, ev), homes, e, Len(Append(q, ev)))
<1>1. PICK q2, n, m : q2 = Append(q, ev) /\ n = Len(q) /\ m = Len(q2)
  OBVIOUS
<1>2. /\ m \in 1..m /\ (m + 1)..m = {} /\ q2[m] = ev
      /\ \A i \in 1..m : i = m \/ i \in 1..n
      /\ \A i \in 1..n : i \in 1..m /\ q2[i] = q[i]
  BY <1>1
<1>3. \A j \in 1..n : \A i \in (j + 1)..m : i = m \/ (i \in (j + 1)..n /\ i \in 1..n)
  BY <1>1
<1>4. SUFFICES Covered(q2, homes, e, m)
  BY <1>1
<1>5. CASE ev = Added(e)
  BY <1>2, <1>5 DEF Covered
<1>6. CASE Covered(q, homes, e, n) /\ ev # Removed(e)
  <2>1. CASE e \in homes /\ \A i \in 1..n : q[i] # Removed(e)
    BY <1>2, <1>6, <2>1, Zenon DEF Covered
  <2>2. CASE \E j \in 1..n : q[j] = Added(e) /\ \A i \in (j + 1)..n : q[i] # Removed(e)
    <3>1. PICK j \in 1..n : q[j] = Added(e) /\ \A i \in (j + 1)..n : q[i] # Removed(e)
      BY <2>2
    <3>2. j \in 1..m /\ q2[j] = Added(e)
      BY <1>2, <3>1
    <3>3. ASSUME NEW i \in (j + 1)..m PROVE q2[i] # Removed(e)
      BY <1>2, <1>3, <1>6, <3>1, Zenon
    <3> QED
      BY <3>2, <3>3 DEF Covered
  <2> QED
    BY <1>6, <2>1, <2>2 DEF Covered
<1> QED
  BY <1>1, <1>5, <1>6

\* What the main loop may do with the windows when it takes an event.
Serves(ev, homes, homes2) ==
  \A e \in Displays :
    /\ ev = Added(e) => e \in homes2
    /\ e \in homes /\ ev # Removed(e) => e \in homes2

LEMMA TakenKeeps ==
  ASSUME NEW q \in Seq(Events), q # <<>>, NEW homes, NEW homes2, Serves(q[1], homes, homes2),
         NEW e \in Displays, NEW n \in 1..Len(q), Covered(q, homes, e, n)
  PROVE  Covered(Tail(q), homes2, e, n - 1)
<1>1. PICK t, m : t = Tail(q) /\ m = n - 1
  OBVIOUS
<1>2. /\ 1 \in 1..n /\ \A i \in 1..m : t[i] = q[i + 1] /\ i + 1 \in 1..n
      /\ \A j \in 1..n : j = 1 \/ (j - 1 \in 1..m /\ t[j - 1] = q[j])
  BY <1>1
<1>3. \A j \in 1..n : /\ \A i \in (j - 1 + 1)..m : i \in 1..m /\ i + 1 \in (j + 1)..n
                      /\ j = 1 => \A i \in 1..m : i + 1 \in (j + 1)..n
  BY <1>1
<1>4. SUFFICES Covered(t, homes2, e, m)
  BY <1>1
<1>5. ASSUME NEW j \in 1..n, q[j] = Added(e), \A i \in (j + 1)..n : q[i] # Removed(e)
      PROVE  Covered(t, homes2, e, m)
  <2>1. CASE j = 1
    <3>1. e \in homes2
      BY <1>5, <2>1 DEF Serves
    <3>2. \A i \in 1..m : t[i] # Removed(e)
      BY <1>2, <1>3, <1>5, <2>1, Zenon
    <3> QED
      BY <3>1, <3>2 DEF Covered
  <2>2. CASE j # 1
    <3>1. PICK p : p = j - 1
      OBVIOUS
    <3>2. p \in 1..m /\ t[p] = Added(e)
      BY <1>2, <1>5, <2>2, <3>1, Zenon
    <3>3. \A i \in (p + 1)..m : t[i] # Removed(e)
      BY <1>2, <1>3, <1>5, <3>1, Zenon
    <3> QED
      BY <3>2, <3>3, Zenon DEF Covered
  <2> QED
    BY <2>1, <2>2
<1>6. CASE e \in homes /\ \A i \in 1..n : q[i] # Removed(e)
  <2>1. e \in homes2
    BY <1>2, <1>6 DEF Serves
  <2>2. \A i \in 1..m : t[i] # Removed(e)
    BY <1>2, <1>6
  <2> QED
    BY <2>1, <2>2 DEF Covered
<1> QED
  BY <1>5, <1>6, Zenon DEF Covered

LEMMA AppendedBacked ==
  ASSUME NEW q \in Seq(Events), NEW ev \in Events, NEW homes, NEW plugged \in SUBSET Displays,
         Backed(q, homes), Reached(q, homes, plugged),
         \A d \in Displays : ev = Removed(d) => plugged \ {d} # {}
  PROVE  Backed(Append(q, ev), homes)
<1> SUFFICES ASSUME NEW k \in DOMAIN Append(q, ev), NEW d \in Displays,
                    Append(q, ev)[k] = Removed(d)
             PROVE  \E e \in Displays \ {d} : Covered(Append(q, ev), homes, e, k - 1)
  BY DEF Backed
<1>0. k - 1 \in 0..Len(q)
  OBVIOUS
<1>1. CASE k \in DOMAIN q
  <2>1. q[k] = Removed(d)
    BY <1>1
  <2>2. PICK e \in Displays \ {d} : Covered(q, homes, e, k - 1)
    BY <1>1, <2>1 DEF Backed
  <2> QED
    BY <1>0, <2>2, AppendedKeeps
<1>2. CASE k \notin DOMAIN q
  <2>1. k - 1 = Len(q) /\ Append(q, ev)[k] = ev
    BY <1>2
  <2>2. PICK e \in plugged \ {d} : TRUE
    BY <2>1
  <2>3. Covered(q, homes, e, k - 1)
    BY <2>1, <2>2 DEF Reached
  <2> QED
    BY <1>0, <2>2, <2>3, AppendedKeeps
<1> QED
  BY <1>1, <1>2

LEMMA TakenBacked ==
  ASSUME NEW q \in Seq(Events), q # <<>>, NEW homes, NEW homes2, Serves(q[1], homes, homes2),
         NEW plugged \in SUBSET Displays, Backed(q, homes), Reached(q, homes, plugged)
  PROVE  Backed(Tail(q), homes2) /\ Reached(Tail(q), homes2, plugged)
<1>1. Len(q) \in 1..Len(q) /\ Len(Tail(q)) = Len(q) - 1
  OBVIOUS
<1>2. ASSUME NEW e \in plugged PROVE Covered(Tail(q), homes2, e, Len(Tail(q)))
  <2>1. Covered(q, homes, e, Len(q)) /\ e \in Displays
    BY <1>2 DEF Reached
  <2>2. Covered(Tail(q), homes2, e, Len(q) - 1)
    BY <1>1, <2>1, TakenKeeps
  <2> QED
    BY <1>1, <2>2
<1>3. ASSUME NEW k \in DOMAIN Tail(q), NEW d \in Displays, Tail(q)[k] = Removed(d)
      PROVE  \E e \in Displays \ {d} : Covered(Tail(q), homes2, e, k - 1)
  <2>1. k + 1 \in DOMAIN q /\ q[k + 1] = Removed(d) /\ k + 1 - 1 = k /\ k \in 1..Len(q)
    BY <1>3
  <2>2. PICK n : n = k + 1
    OBVIOUS
  <2>3. \E e \in Displays \ {d} : Covered(q, homes, e, n - 1)
    BY <2>1, <2>2, Zenon DEF Backed
  <2>4. PICK e \in Displays \ {d} : Covered(q, homes, e, k)
    BY <2>1, <2>2, <2>3
  <2> QED
    BY <2>1, <2>4, TakenKeeps
<1> QED
  BY <1>2, <1>3 DEF Backed, Reached

\* A window that leaves a display that has gone serves a connected one, and
\* takes over what it was to be there for.
LEMMA MovedBacked ==
  ASSUME NEW q \in Seq(Events), NEW homes, NEW homes2, NEW plugged \in SUBSET Displays,
         NEW from, from \notin plugged, NEW to \in plugged,
         to \in homes2, \A e \in homes : e # from => e \in homes2,
         \A k \in DOMAIN q, d \in Displays : q[k] = Removed(d) => d \notin plugged,
         Backed(q, homes), Reached(q, homes, plugged)
  PROVE  Backed(q, homes2) /\ Reached(q, homes2, plugged)
<1>1. ASSUME NEW m \in 0..Len(q), NEW e \in Displays, e # from, Covered(q, homes, e, m)
      PROVE  Covered(q, homes2, e, m)
  BY <1>1 DEF Covered
<1>2. ASSUME NEW m \in 0..Len(q) PROVE Covered(q, homes2, to, m)
  <2>1. \A i \in 1..m : i \in DOMAIN q
    OBVIOUS
  <2>2. \A i \in 1..m : q[i] # Removed(to)
    BY <2>1
  <2> QED
    BY <2>2 DEF Covered
<1>3. ASSUME NEW k \in DOMAIN q, NEW d \in Displays, q[k] = Removed(d)
      PROVE  \E e \in Displays \ {d} : Covered(q, homes2, e, k - 1)
  <2>1. PICK e \in Displays \ {d} : Covered(q, homes, e, k - 1)
    BY <1>3 DEF Backed
  <2>2. k - 1 \in 0..Len(q) /\ to \in Displays \ {d}
    BY <1>3
  <2>3. CASE e = from
    BY <1>2, <2>2
  <2>4. CASE e # from
    BY <1>1, <2>1, <2>2, <2>4
  <2> QED
    BY <2>3, <2>4
<1>4. ASSUME NEW e \in plugged PROVE Covered(q, homes2, e, Len(q))
  <2>1. Len(q) \in 0..Len(q) /\ e \in Displays /\ e # from
    BY <1>4
  <2> QED
    BY <1>1, <1>4, <2>1 DEF Reached
<1> QED
  BY <1>3, <1>4 DEF Backed, Reached

\* Nothing the threads do but the handlers' beginnings counts.
LEMMA ThreadsLeaveWindows ==
  ASSUME Typed,
         \/ Tick \/ (\E t \in Threads : Step(t)) \/ (\E i \in Timers : TimerFires(i))
         \/ TimerReturns \/ ChannelConnected \/ DisplayControlCaps \/ OnGraphicsReset
         \/ ChannelCloses \/ ChannelDisconnected \/ UNCHANGED vars
  PROVE  /\ UNCHANGED <<displays, known, spread, home, windows, settings, queue>>
         /\ at'["main"] = "idle" <=> at["main"] = "idle"
<1> USE DEF screen, lists, threads
<1>0. at \in [Threads -> Places] /\ {"main", "rdp", "timer"} \subseteq Threads
  BY DEF Typed, LoopTyped, Threads
<1>1. UNCHANGED <<displays, known, spread, home, windows, settings, queue>>
  BY DEF Tick, Step, RemoveTimer, ReadMonitors, SendLayout, StoreLastSent, AddTimer, TimerFires,
         TimerReturns, ChannelConnected, DisplayControlCaps, OnGraphicsReset, ChannelCloses,
         ChannelDisconnected, vars
<1>2. ASSUME NEW t \in Threads, NEW there, Goes(t, there),
             t = "main" => at["main"] # "idle" /\ there # "idle"
      PROVE  at'["main"] = "idle" <=> at["main"] = "idle"
  BY <1>0, <1>2 DEF Goes
<1>3. ASSUME NEW t \in Threads, SendResize(t), t = "main" => at["main"] # "idle"
      PROVE  at'["main"] = "idle" <=> at["main"] = "idle"
  BY <1>2, <1>3 DEF SendResize, After
<1>4. ASSUME NEW t \in Threads, Step(t) PROVE at'["main"] = "idle" <=> at["main"] = "idle"
  <2>1. CASE RemoveTimer(t)
    BY <1>3, <2>1 DEF RemoveTimer, Thread
  <2>2. CASE ReadMonitors(t)
    BY <1>2, <2>2 DEF ReadMonitors, Thread, After
  <2>3. CASE SendLayout(t)
    BY <1>2, <2>3 DEF SendLayout, Thread, Returned
  <2>4. CASE StoreLastSent(t)
    BY <1>2, <2>4 DEF StoreLastSent, Thread, After
  <2>5. CASE AddTimer(t)
    BY <1>2, <2>5 DEF AddTimer, Thread, Returned
  <2> QED
    BY <1>4, <2>1, <2>2, <2>3, <2>4, <2>5 DEF Step
<1>5. ASSUME NEW i \in Timers, TimerFires(i)
      PROVE  at'["main"] = "idle" <=> at["main"] = "idle"
  BY <1>0, <1>3, <1>5 DEF TimerFires
<1>6. TimerReturns \/ OnGraphicsReset => (at'["main"] = "idle" <=> at["main"] = "idle")
  BY <1>0, <1>2 DEF TimerReturns, OnGraphicsReset
<1>7. Tick \/ ChannelConnected \/ DisplayControlCaps \/ ChannelCloses
      \/ ChannelDisconnected \/ UNCHANGED vars => at' = at
  BY DEF Tick, ChannelConnected, DisplayControlCaps, ChannelCloses, ChannelDisconnected, vars
<1> QED
  BY <1>1, <1>4, <1>5, <1>6, <1>7

LEMMA NextGoneInv ==
  ASSUME Typed, GoneInv, [Next]_vars
  PROVE  GoneInv'
<1>0. /\ queue \in Seq(Events) /\ Waiting \in Seq(Events) /\ at \in [Threads -> Places]
      /\ displays \subseteq known /\ known \subseteq Displays
  BY DEF Typed, LoopTyped, ScreenTyped, GoneInv, Waiting
<1>1. ASSUME NEW ev \in Events, Change(ev), displays' # {}, known \subseteq known',
             displays' \cap known \subseteq displays,
             \A d \in Displays : ev = Removed(d) => d \in known' \ displays'
      PROVE  GoneInv'
  <2>1. queue' = Append(queue, ev) /\ UNCHANGED at
    BY <1>1 DEF Change, threads
  <2>2. Waiting' = Append(Waiting, ev) /\ queue' # <<>>
    BY <1>0, <2>1 DEF Waiting, GoneInv
  <2>3. ASSUME NEW k \in DOMAIN Append(Waiting, ev), NEW d \in Displays,
               Append(Waiting, ev)[k] = Removed(d)
        PROVE  d \in known' \ displays'
    <3>1. CASE k \in DOMAIN Waiting
      <4>1. Waiting[k] = Removed(d)
        BY <1>0, <2>3, <3>1
      <4>2. d \in known \ displays
        BY <3>1, <4>1 DEF GoneInv
      <4> QED
        BY <1>1, <4>2
    <3>2. CASE k \notin DOMAIN Waiting
      <4>1. ev = Removed(d)
        BY <1>0, <2>3, <3>2
      <4> QED
        BY <1>1, <4>1
    <3> QED
      BY <3>1, <3>2
  <2> QED
    BY <1>1, <2>2, <2>3 DEF GoneInv
<1>2. ASSUME NEW w \in Windows, NEW s \in Sizes, WindowResized(w, s) PROVE GoneInv'
  <2>1. /\ Change([what |-> "resized", win |-> w]) /\ UNCHANGED <<displays, known>>
        /\ [what |-> "resized", win |-> w] \in Events
    BY <1>2 DEF WindowResized, Events
  <2>2. \A d \in Displays : [what |-> "resized", win |-> w] # Removed(d)
    <3>1. \A d \in Displays : [what |-> "resized", win |-> w].what # Removed(d).what
      BY DEF Removed
    <3> QED
      BY <3>1
  <2> QED
    BY <1>0, <1>1, <2>1, <2>2 DEF GoneInv
<1>3. ASSUME NEW d \in Displays, Plug(d) PROVE GoneInv'
  <2>1. /\ d \notin known /\ displays' = displays \cup {d} /\ known' = known \cup {d}
        /\ Change(Added(d)) /\ Added(d) \in Events
    BY <1>3 DEF Plug, Added, Events
  <2>2. \A e \in Displays : Added(d) # Removed(e)
    <3>1. \A e \in Displays : Added(d).what # Removed(e).what
      BY DEF Added, Removed
    <3> QED
      BY <3>1
  <2> QED
    BY <1>0, <1>1, <2>1, <2>2
<1>4. ASSUME NEW d \in Displays, Unplug(d) PROVE GoneInv'
  <2>1. /\ d \in displays /\ displays # {d} /\ displays' = displays \ {d}
        /\ UNCHANGED known /\ Change(Removed(d)) /\ Removed(d) \in Events
    BY <1>4 DEF Unplug, Removed, Events
  <2>2. \A e \in Displays : Removed(d) = Removed(e) => d = e
    <3>1. \A e \in Displays : Removed(e).display = e
      BY DEF Removed
    <3> QED
      BY <3>1
  <2> QED
    BY <1>0, <1>1, <2>1, <2>2
<1>5. ASSUME UNCHANGED <<displays, known>>, Waiting' = Waiting,
             at'["main"] # "idle" => queue' # <<>>
      PROVE  GoneInv'
  BY <1>5 DEF GoneInv
<1>6. ASSUME NEW d \in Displays, NEW w \in Windows, MoveWindow(w, d) PROVE GoneInv'
  <2>1. UNCHANGED <<displays, known, queue, at>>
    BY <1>6 DEF MoveWindow, threads
  <2> QED
    BY <1>5, <2>1 DEF Waiting, GoneInv
<1>7. CASE HandleResized \/ HandleAdded \/ HandleRemoved
  <2>1. /\ at["main"] = "idle" /\ queue # <<>> /\ UNCHANGED <<displays, known, queue>>
        /\ at'["main"] = "list"
    BY <1>0, <1>7 DEF HandleResized, HandleAdded, HandleRemoved, MainAt, Handled, Threads
  <2>2. Waiting = queue /\ Waiting' = Tail(queue)
    BY <2>1 DEF Waiting
  <2>3. ASSUME NEW k \in DOMAIN Tail(queue), NEW d \in Displays, Tail(queue)[k] = Removed(d)
        PROVE  d \in known \ displays
    <3>1. k + 1 \in DOMAIN queue /\ queue[k + 1] = Removed(d)
      BY <1>0, <2>1, <2>3
    <3>2. PICK n \in DOMAIN queue : queue[n] = Removed(d)
      BY <3>1
    <3> QED
      BY <2>2, <3>2 DEF GoneInv
  <2> QED
    BY <2>1, <2>2, <2>3 DEF GoneInv
<1>8. CASE UpdateWindowList
  <2>1. /\ UNCHANGED <<displays, known, queue>>
        /\ at["main"] = "list" /\ at'["main"] = "addTimer"
    BY <1>0, <1>8 DEF UpdateWindowList, screen, Threads
  <2> QED
    BY <1>5, <2>1 DEF Waiting, GoneInv
<1>9. CASE HandlerReturns
  <2>1. /\ UNCHANGED <<displays, known>> /\ queue' = Tail(queue)
        /\ at["main"] = "done" /\ at'["main"] = "idle"
    BY <1>0, <1>9 DEF HandlerReturns, MainAt, screen, Threads
  <2> QED
    BY <1>5, <2>1 DEF Waiting
<1>10. ASSUME UNCHANGED <<displays, known, queue>>, at'["main"] = "idle" <=> at["main"] = "idle"
       PROVE  GoneInv'
  <2>1. Waiting' = Waiting
    BY <1>10 DEF Waiting
  <2> QED
    BY <1>5, <1>10, <2>1 DEF GoneInv
<1> QED
  BY <1>2, <1>3, <1>4, <1>6, <1>7, <1>8, <1>9, <1>10, ThreadsLeaveWindows DEF Next, MainStep

\* A session that is not spread over its displays does not count as such again.
LEMMA SpreadWasSpread ==
  ASSUME Typed, [Next]_vars, spread'
  PROVE  spread
<1>1. (\E w \in Windows, s \in Sizes : WindowResized(w, s)) => UNCHANGED spread
  BY DEF WindowResized
<1>2. ASSUME NEW d \in Displays, Plug(d) \/ Unplug(d) \/ \E w \in Windows : MoveWindow(w, d)
      PROVE  spread
  BY <1>2 DEF Plug, Unplug, MoveWindow
<1>3. MainStep => UNCHANGED spread
  BY DEF MainStep, HandleResized, HandleAdded, HandleRemoved, Handled, UpdateWindowList,
         HandlerReturns, screen
<1> QED
  BY <1>1, <1>2, <1>3, ThreadsLeaveWindows DEF Next

LEMMA NextMonitorInv ==
  ASSUME Typed, GoneInv, spread, MonitorInv, [Next]_vars
  PROVE  spread' => MonitorInv'
<1>0. /\ queue \in Seq(Events) /\ Waiting \in Seq(Events) /\ at \in [Threads -> Places]
      /\ displays \in SUBSET Displays /\ home \in [Windows -> Displays]
      /\ windows \subseteq Windows
  BY DEF Typed, LoopTyped, ScreenTyped, GoneInv, Waiting
<1>d. \A d \in Displays : Added(d) \in Events /\ Removed(d) \in Events
  BY DEF Added, Removed, Events
<1>1. ASSUME NEW ev \in Events, Change(ev), UNCHANGED home, displays' \in SUBSET Displays,
             \A d \in Displays : ev = Removed(d) => displays \ {d} # {},
             \A e \in displays' : (e \in displays /\ ev # Removed(e)) \/ ev = Added(e)
      PROVE  MonitorInv'
  <2>1. queue' = Append(queue, ev) /\ UNCHANGED <<home, windows, settings, at>>
    BY <1>0, <1>1 DEF Change, lists, threads
  <2>2. Waiting' = Append(Waiting, ev) /\ Homes' = Homes
    BY <1>0, <2>1 DEF Waiting, Homes, GoneInv
  <2>3. Backed(Append(Waiting, ev), Homes)
    BY <1>0, <1>1, AppendedBacked DEF MonitorInv
  <2>4. Reached(Append(Waiting, ev), Homes, displays')
    <3> SUFFICES ASSUME NEW e \in displays'
                 PROVE  Covered(Append(Waiting, ev), Homes, e, Len(Append(Waiting, ev)))
      BY DEF Reached
    <3>1. (Covered(Waiting, Homes, e, Len(Waiting)) /\ ev # Removed(e)) \/ ev = Added(e)
      BY <1>1 DEF MonitorInv, Reached
    <3> QED
      BY <1>0, <3>1, AppendedReached
  <2> QED
    BY <1>1, <2>1, <2>2, <2>3, <2>4 DEF MonitorInv
<1>2. ASSUME NEW w \in Windows, NEW s \in Sizes, WindowResized(w, s) PROVE MonitorInv'
  <2>1. UNCHANGED <<displays, home>> /\ Change([what |-> "resized", win |-> w])
    BY <1>2 DEF WindowResized
  <2>2. [what |-> "resized", win |-> w] \in Events
    BY DEF Events
  <2>4. ASSUME NEW d \in Displays PROVE [what |-> "resized", win |-> w] # Removed(d)
    <3>1. [what |-> "resized", win |-> w].what # Removed(d).what
      BY DEF Removed
    <3> QED
      BY <3>1
  <2> QED
    BY <1>0, <1>1, <2>1, <2>2, <2>4
<1>3. ASSUME NEW d \in Displays, Plug(d) PROVE MonitorInv'
  <2>1. displays' = displays \cup {d} /\ UNCHANGED home /\ Change(Added(d))
    BY <1>3 DEF Plug, Added
  <2>2. Added(d) \in Events /\ \A e \in Displays : Added(d) # Removed(e)
    <3>1. \A e \in Displays : Added(d).what # Removed(e).what
      BY DEF Added, Removed
    <3> QED
      BY <1>d, <3>1
  <2> QED
    BY <1>0, <1>1, <2>1, <2>2
<1>4. ASSUME NEW d \in Displays, Unplug(d) PROVE MonitorInv'
  <2>1. /\ displays' = displays \ {d} /\ displays # {d} /\ d \in displays
        /\ UNCHANGED home /\ Change(Removed(d))
    BY <1>4 DEF Unplug, Removed
  <2>2. Removed(d) \in Events /\ \A e \in Displays : Removed(d) = Removed(e) => d = e
    <3>1. \A e \in Displays : Removed(e).display = e
      BY DEF Removed
    <3> QED
      BY <1>d, <3>1
  <2>3. displays \ {d} # {}
    BY <2>1
  <2>4. \A e \in displays' : e \in displays /\ Removed(d) # Removed(e)
    BY <1>0, <2>1, <2>2
  <2> QED
    BY <1>0, <1>1, <2>1, <2>2, <2>3, <2>4
<1>5. ASSUME at["main"] = "idle", queue # <<>>, Handled, UNCHANGED displays,
             windows' # {}, Serves(queue[1], Homes, Homes')
      PROVE  MonitorInv'
  <2>1. at'["main"] = "list" /\ queue' = queue /\ settings' = settings
    BY <1>0, <1>5 DEF Handled, Threads
  <2>2. Waiting = queue /\ Waiting' = Tail(queue)
    BY <1>5, <2>1 DEF Waiting
  <2>3. Backed(queue, Homes) /\ Reached(queue, Homes, displays)
    BY <2>2 DEF MonitorInv
  <2>4. Backed(Tail(queue), Homes') /\ Reached(Tail(queue), Homes', displays)
    BY <1>0, <1>5, <2>3, TakenBacked
  <2> QED
    BY <1>5, <2>1, <2>2, <2>4 DEF MonitorInv
<1>6. CASE HandleResized
  <2>1. at["main"] = "idle" /\ queue # <<>> /\ queue[1].what = "resized"
        /\ UNCHANGED <<home, windows, displays>> /\ Handled
    BY <1>6 DEF HandleResized, MainAt, Handled
  <2>2. \A e \in Displays : queue[1] # Added(e)
    BY <2>1 DEF Added
  <2>3. Serves(queue[1], Homes, Homes')
    BY <2>1, <2>2 DEF Serves, Homes
  <2> QED
    BY <1>5, <2>1, <2>3 DEF MonitorInv
<1>7. CASE HandleAdded
  <2>1. /\ at["main"] = "idle" /\ queue # <<>> /\ queue[1].what = "added"
        /\ UNCHANGED displays /\ Handled
    BY <1>7 DEF HandleAdded, MainAt, Handled
  <2>2. PICK w \in Windows \ windows : /\ windows' = windows \cup {w}
                                       /\ home' = [home EXCEPT ![w] = queue[1].display]
    BY <1>7 DEF HandleAdded
  <2>3. \A v \in windows : home'[v] = home[v]
    BY <1>0, <2>2
  <2>4. Homes \subseteq Homes' /\ queue[1].display \in Homes'
    BY <1>0, <2>2, <2>3 DEF Homes
  <2>5. \A e \in Displays : queue[1] = Added(e) => queue[1].display = e
    BY DEF Added
  <2>6. Serves(queue[1], Homes, Homes')
    BY <2>4, <2>5 DEF Serves
  <2> QED
    BY <1>5, <2>1, <2>2, <2>6
<1>8. CASE HandleRemoved
  <2>1. /\ at["main"] = "idle" /\ queue # <<>> /\ queue[1].what = "removed"
        /\ UNCHANGED <<displays, home>> /\ Handled
    BY <1>8 DEF HandleRemoved, MainAt, Handled
  <2>2. PICK gone \in SUBSET {w \in windows : home[w] = queue[1].display} :
               windows' = windows \ gone
    BY <1>8 DEF HandleRemoved
  <2>3. queue[1] \in Events
    BY <1>0, <2>1
  <2>4. PICK d \in Displays : queue[1] = Removed(d) /\ queue[1].display = d
    BY <2>1, <2>3 DEF Events, Removed
  <2>5. \A e \in Displays : e \in Homes /\ e # d => e \in Homes'
    BY <2>1, <2>2, <2>4 DEF Homes
  <2>6. Serves(queue[1], Homes, Homes')
    <3>1. \A e \in Displays : Removed(d) # Added(e)
      BY DEF Added, Removed
    <3> QED
      BY <2>4, <2>5, <3>1 DEF Serves
  <2>7. windows' # {}
    <3>1. Waiting = queue /\ 1 \in DOMAIN queue
      BY <1>0, <2>1 DEF Waiting
    <3>2. PICK e \in Displays \ {d} : Covered(queue, Homes, e, 1 - 1)
      BY <2>4, <3>1, Zenon DEF MonitorInv, Backed
    <3>3. 1..(1 - 1) = {}
      OBVIOUS
    <3>4. e \in Homes
      BY <3>2, <3>3 DEF Covered
    <3>5. e \in Homes'
      BY <2>5, <3>2, <3>4
    <3> QED
      BY <3>5 DEF Homes
  <2> QED
    BY <1>5, <2>1, <2>6, <2>7
<1>9. CASE UpdateWindowList
  <2>1. /\ UNCHANGED <<displays, home, windows, queue>>
        /\ settings' = [w \in windows |-> monitor[w]]
        /\ at["main"] = "list" /\ at'["main"] = "addTimer"
    BY <1>0, <1>9 DEF UpdateWindowList, screen, Threads
  <2>2. Waiting' = Waiting /\ Homes' = Homes /\ DOMAIN settings' = windows
    BY <2>1 DEF Waiting, Homes
  <2> QED
    BY <2>1, <2>2 DEF MonitorInv
<1>12. ASSUME NEW d \in Displays, NEW w \in Windows, MoveWindow(w, d) PROVE spread' => MonitorInv'
  <2> SUFFICES ASSUME spread' PROVE MonitorInv'
    OBVIOUS
  <2>1. /\ w \in windows /\ d \in displays /\ home[w] \notin displays
        /\ home' = [home EXCEPT ![w] = d]
        /\ UNCHANGED <<displays, windows, settings, queue, at>>
    BY <1>12 DEF MoveWindow, lists, threads
  <2>2. Waiting' = Waiting
    BY <2>1 DEF Waiting
  <2>3. d \in Homes' /\ \A e \in Homes : e # home[w] => e \in Homes'
    BY <1>0, <2>1 DEF Homes
  <2>4. Backed(Waiting, Homes') /\ Reached(Waiting, Homes', displays)
    BY <1>0, <2>1, <2>3, MovedBacked DEF MonitorInv, GoneInv
  <2> QED
    BY <2>1, <2>2, <2>4 DEF MonitorInv
<1>10. CASE HandlerReturns
  <2>1. /\ UNCHANGED <<displays, home, windows, settings>> /\ queue' = Tail(queue)
        /\ at["main"] = "done" /\ at'["main"] = "idle"
    BY <1>0, <1>10 DEF HandlerReturns, MainAt, screen, lists, Threads
  <2>2. Waiting' = Waiting /\ Homes' = Homes
    BY <2>1 DEF Waiting, Homes
  <2> QED
    BY <2>1, <2>2 DEF MonitorInv
<1>11. ASSUME UNCHANGED <<displays, known, spread, home, windows, settings, queue>>,
              at'["main"] = "idle" <=> at["main"] = "idle"
       PROVE  MonitorInv'
  <2>1. Waiting' = Waiting /\ Homes' = Homes
    BY <1>11 DEF Waiting, Homes
  <2> QED
    BY <1>11, <2>1 DEF MonitorInv
<1> QED
  BY <1>2, <1>3, <1>4, <1>6, <1>7, <1>8, <1>9, <1>10, <1>11, <1>12, ThreadsLeaveWindows
     DEF Next, MainStep

\* sendLayout()'s assertion, where it can be kept: in a session with a window on
\* every display, none of them moved off it by anybody, the list it reads always
\* has a monitor, as displays come and go and their events are handled however
\* late.
THEOREM DisplaySpreadKeepsMonitor == Spec => []SpreadKeepsMonitor
<1> DEFINE Inv == Typed /\ GoneInv /\ (spread => MonitorInv)
<1>1. Init => Inv
  <2> SUFFICES ASSUME Init PROVE Inv
    OBVIOUS
  <2>1. Typed
    BY InitTyped DEF Typed
  <2>2. /\ Waiting = <<>> /\ displays # {} /\ at["main"] = "idle"
        /\ windows # {} /\ DOMAIN settings = windows
    BY DisplayAssumption DEF Init, Waiting, Threads
  <2>3. GoneInv
    BY <2>2 DEF GoneInv
  <2>4. ASSUME spread PROVE MonitorInv
    <3>1. displays = Homes
      BY <2>4 DEF Init, Homes
    <3>2. Backed(<<>>, Homes) /\ Reached(<<>>, Homes, displays)
      BY <3>1 DEF Backed, Reached, Covered
    <3> QED
      BY <2>2, <3>2 DEF MonitorInv
  <2> QED
    BY <2>1, <2>3, <2>4
<1>2. Inv /\ [Next]_vars => Inv'
  <2> SUFFICES ASSUME Inv, [Next]_vars PROVE Inv'
    OBVIOUS
  <2>1. spread' => spread
    BY SpreadWasSpread
  <2> QED
    BY <2>1, NextTyped, NextGoneInv, NextMonitorInv
<1>3. Inv => SpreadKeepsMonitor
  BY DEF MonitorInv, SpreadKeepsMonitor, SomeMonitor
<1> QED
  BY <1>1, <1>2, <1>3, PTL DEF Spec
==============================================================================
