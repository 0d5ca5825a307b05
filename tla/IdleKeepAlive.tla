---------------------------- MODULE IdleKeepAlive ----------------------------
(***************************************************************************)
(* The idle keep-alive of coffee-rdp-session: CoffeeIdleTimer              *)
(* (coffee_idle.cpp), the calls that configure, toggle and check it        *)
(* (sdl_context.cpp) and the only place it is checked from, the main       *)
(* loop's one-second wait for events (sdl_freerdp.cpp).  Time is counted   *)
(* in whole seconds; lastInput, lastEvent, lastCombo and since are history. *)
(***************************************************************************)
EXTENDS Integers

CONSTANTS
  Intervals,  \* values of /idle-time, in seconds; 0 turns the keep-alive off
  Never,      \* a time that has not been
  MaxTime     \* bound: how long the session is watched

ASSUME IntervalsAssumption == Intervals \subseteq Nat
ASSUME TimeAssumption == MaxTime \in Nat /\ Never \in Int /\ Never < 0

VARIABLES
  seconds,     \* /idle-time and ...
  combo,       \* ... /idle-combo, as the session was started
  configured,  \* _idleConfiguredInterval; 0 until a positive one is given
  interval,    \* _idleTimer._intervalSeconds
  scancodes,   \* _idleComboRdpScancodes: "none", or the combo's "keys"
  last,        \* _idleTimer._last, or Never: _haveLast is false
  connection,  \* "before", "on" (_connected) or "over": postConnect() runs once
  waitingFrom, \* when the running SDL_WaitEventTimeout() started
  now,
  lastInput, lastEvent, lastCombo,  \* the last real input, any event, the last combo sent
  since        \* when the session got connected or the timer was configured

options == <<seconds, combo>>
timer == <<interval, scancodes, last>>
history == <<lastInput, lastEvent, lastCombo, since>>
idleVars == <<options, configured, timer, connection, waitingFrom, now, history>>

Time == 0..MaxTime
Combos == {"keys", "unknown"}   \* a combo whose keys all have a scancode, or not
Enabled == interval > 0
connected == connection = "on"

IdleTypeOK ==
  /\ seconds \in Intervals /\ combo \in Combos
  /\ configured \in Intervals \cup {0} /\ interval \in Intervals \cup {0}
  /\ scancodes \in {"none", "keys"} /\ connection \in {"before", "on", "over"}
  /\ last \in Time \cup {Never}
  /\ waitingFrom \in Time /\ now \in Time
  /\ lastInput \in Time \cup {Never} /\ lastEvent \in Time \cup {Never}
  /\ lastCombo \in Time \cup {Never}
  /\ since \in Time

\* configureIdleKeepAlive(i, c) puts these into the timer, and forgets the
\* time of the last input.
Usable(i, c) == i > 0 /\ c = "keys"
Configure(i, c) ==
  /\ interval' = IF Usable(i, c) THEN i ELSE 0
  /\ scancodes' = IF Usable(i, c) THEN "keys" ELSE "none"
  /\ last' = Never

IdleInit ==
  /\ seconds \in Intervals /\ combo \in Combos
  /\ configured = seconds
  /\ interval = IF Usable(seconds, combo) THEN seconds ELSE 0
  /\ scancodes = IF Usable(seconds, combo) THEN "keys" ELSE "none"
  /\ last = Never /\ connection = "before" /\ waitingFrom = 0 /\ now = 0
  /\ lastInput = Never /\ lastEvent = Never /\ lastCombo = Never /\ since = 0

\* Time passes; a wait that is over returns before more of it does.
SecondPasses ==
  /\ now < MaxTime /\ now - waitingFrom < 1
  /\ now' = now + 1
  /\ UNCHANGED <<options, configured, timer, connection, waitingFrom, history>>

\* postConnect() and postDisconnect().
Connect ==
  /\ connection = "before" /\ connection' = "on" /\ since' = now
  /\ UNCHANGED <<options, configured, timer, waitingFrom, now, lastInput, lastEvent, lastCombo>>

Disconnect ==
  /\ connected /\ connection' = "over"
  /\ UNCHANGED <<options, configured, timer, waitingFrom, now, history>>

\* The loop takes an event and waits again: a drawn frame, a window event, ...
OtherEvent ==
  /\ waitingFrom' = now /\ lastEvent' = now
  /\ UNCHANGED <<options, configured, timer, connection, now, lastInput, lastCombo, since>>

\* Mutant: noteInput() stores the time of the wait.
NoteInputLate ==
  /\ waitingFrom' = now /\ lastEvent' = now /\ lastInput' = now
  /\ last' = IF connected THEN waitingFrom ELSE last
  /\ UNCHANGED <<options, configured, interval, scancodes, connection, now, lastCombo, since>>

\* Keyboard, mouse or touch: handleEvent() notes it while connected.
NoteInput ==
  /\ waitingFrom' = now /\ lastEvent' = now /\ lastInput' = now
  /\ last' = IF connected THEN now ELSE last
  /\ UNCHANGED <<options, configured, interval, scancodes, connection, now, lastCombo, since>>

\* Mutant: off is configureIdleKeepAlive(0) and remembers the 0.
ToggleForgets ==
  /\ connected
  /\ waitingFrom' = now /\ lastEvent' = now /\ lastInput' = now /\ since' = now
  /\ Configure(IF Enabled THEN 0 ELSE configured, combo)
  /\ configured' = IF Enabled THEN 0 ELSE configured
  /\ UNCHANGED <<options, connection, now, lastCombo>>

\* The floatbar's Keep-alive button, itself an input.
ToggleIdleKeepAlive ==
  /\ connected
  /\ waitingFrom' = now /\ lastEvent' = now /\ lastInput' = now /\ since' = now
  /\ IF Enabled
     THEN interval' = 0 /\ scancodes' = "none" /\ last' = Never
     ELSE IF configured > 0 THEN Configure(configured, combo)
     ELSE last' = now /\ UNCHANGED <<interval, scancodes>>
  /\ UNCHANGED <<options, configured, connection, now, lastCombo>>

\* The timer's decision: it is armed by the first look at it.
Due == Enabled /\ last # Never /\ now - last >= interval

\* Mutant: the first look at the timer does not arm it.
CheckUnarmed ==
  /\ now - waitingFrom = 1
  /\ waitingFrom' = now
  /\ LET looked == connected /\ scancodes = "keys"
         sent == looked /\ Due
     IN /\ last' = IF sent THEN now ELSE last
        /\ lastCombo' = IF sent THEN now ELSE lastCombo
  /\ UNCHANGED <<options, configured, interval, scancodes, connection, now,
                  lastInput, lastEvent, since>>

\* A second without an event: checkIdleKeepAlive(), then the next wait.
CheckIdleKeepAlive ==
  /\ now - waitingFrom = 1
  /\ waitingFrom' = now
  /\ LET looked == connected /\ scancodes = "keys"
         sent == looked /\ Due
     IN /\ last' = IF sent \/ (looked /\ Enabled /\ last = Never) THEN now ELSE last
        /\ lastCombo' = IF sent THEN now ELSE lastCombo
  /\ UNCHANGED <<options, configured, interval, scancodes, connection, now,
                  lastInput, lastEvent, since>>

IdleNext ==
  \/ SecondPasses \/ Connect \/ Disconnect \/ OtherEvent \/ NoteInput \/ ToggleIdleKeepAlive
  \/ CheckIdleKeepAlive

IdleSpec == IdleInit /\ [][IdleNext]_idleVars

-----------------------------------------------------------------------------
(* Properties                                                              *)

\* coffee_idle.hpp: the timer "resets on every real input event, so it only fires
\* during actual idleness": no combo is sent while an input or another combo is
\* less than an interval old.
SendsCombo == lastCombo' # lastCombo
OnlyWhenIdle ==
  [][SendsCombo => /\ lastInput = Never \/ now - lastInput >= interval
                   /\ lastCombo = Never \/ now - lastCombo >= interval]_idleVars

\* The floatbar's button always switches a usable keep-alive, between off and
\* exactly what the session was started with.
ToggleRestores ==
  [][ToggleIdleKeepAlive /\ Usable(seconds, combo)
       => /\ interval' = IF interval = 0 THEN seconds ELSE 0
          /\ scancodes' = IF interval = 0 THEN "keys" ELSE "none"]_idleVars

\* A second after nothing at all has happened for an interval a combo has been sent.
Recent(t) == t # Never /\ now - t <= interval + 1
FiresWhenQuiet ==
  connected /\ Enabled => Recent(lastEvent) \/ Recent(lastCombo) \/ Recent(since)

\* sdl_freerdp.cpp: the loop's time-out "is exactly the periodic tick the idle
\* keep-alive needs": a combo has been sent whenever the user was away so long.
KeepAliveFires ==
  connected /\ Enabled => Recent(lastInput) \/ Recent(lastCombo) \/ Recent(since)
=============================================================================
