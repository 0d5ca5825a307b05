---------------------------- MODULE KeyboardCapture ----------------------------
(***************************************************************************)
(* Which keystrokes of the person reach the server (sdl_input.cpp): the    *)
(* session's capture flag, what the floating bar shows of it, the          *)
(* right-shift shortcuts, and the ways the pointer and the focus change    *)
(* all of it (sdl_disp.cpp, sdl_context.cpp).                              *)
(*                                                                         *)
(* With every change of the flag the session asks SDL to grab the keyboard *)
(* for one window or to let it go.  SDL grabs only for the window in focus *)
(* and may be refused; its answer is ignored and no step depends on it, so *)
(* the grab is left out: nothing here says that there is one.              *)
(*                                                                         *)
(* SDL queues events as they happen; the main loop handles them later, one *)
(* at a time, and asks SDL for the modifiers only then.                    *)
(***************************************************************************)
EXTENDS Sequences, SequencesExt, FiniteSets, Integers

CONSTANTS
  Windows, NoWindow,
  Keys,
  Mask,          \* SDL_KeyModMask, one key of Keys
  Unmapped,      \* keys RDP has no scancode for
  HotkeyOf(_),   \* "grab", another shortcut's name, or "none"
  MaxQueue       \* bound: events SDL holds for the main loop

ASSUME CaptureAssumption ==
  /\ NoWindow \notin Windows
  /\ Mask \in Keys /\ Unmapped \subseteq Keys
  /\ MaxQueue \in Nat

VARIABLES
  pointer, focus,       \* the window the pointer is in, and the keyboard's
  pressed, mods,        \* SDL's key states, and whether its modifiers have Mask
  queue,
  kbdEnabled,           \* FreeRDP_GrabKeyboard
  grabKeyboard,         \* SdlContext::_grabKeyboard
  hotkeysEnabled,
  captureLabel, shortcutsLabel,   \* what the bar's menu shows
  server,               \* the keys the server takes for held
  byBar                 \* capture was switched on by the bar, and no sync since

person == <<pointer, focus, pressed, mods>>
barVars == <<captureLabel, shortcutsLabel>>
vars == <<person, queue, kbdEnabled, grabKeyboard, hotkeysEnabled, barVars, server, byBar>>

Somewhere == Windows \cup {NoWindow}
Rows == {"capture", "shortcuts"}
KeyEvents == [what : {"down", "up"}, key : Keys, win : Windows]
Events == KeyEvents \cup [what : {"enter", "leave", "focus"}, win : Windows]
                    \cup [what : {"row"}, row : Rows]

(* configureFloatbar() and attachFloatbar(), which asks for the keyboard;   *)
(* the shortcuts are on or off by preference or profile.                   *)
Init ==
  /\ pointer = NoWindow /\ focus = NoWindow /\ pressed = {} /\ mods = FALSE
  /\ queue = <<>>
  /\ kbdEnabled \in BOOLEAN
  /\ grabKeyboard = kbdEnabled
  /\ hotkeysEnabled \in BOOLEAN
  /\ captureLabel = grabKeyboard /\ shortcutsLabel = hotkeysEnabled
  /\ server = {} /\ byBar = FALSE
--------------------------------------------------------------------------------
(* What happens at the screen.  SDL sends keys to the window in focus, and *)
(* has let go of all of them before it moves the focus.                    *)

HappensTo(event) ==
  /\ Len(queue) < MaxQueue
  /\ queue' = Append(queue, event)
  /\ UNCHANGED <<kbdEnabled, grabKeyboard, hotkeysEnabled, barVars, server, byBar>>

PressKey(k) ==
  /\ focus # NoWindow
  /\ pressed' = pressed \cup {k}         \* again, when it repeats
  /\ mods' = (mods \/ (k = Mask /\ k \notin pressed))
  /\ HappensTo([what |-> "down", key |-> k, win |-> focus])
  /\ UNCHANGED <<pointer, focus>>

ReleaseKey(k) ==
  /\ k \in pressed
  /\ pressed' = pressed \ {k}
  /\ mods' = (mods /\ k # Mask)
  /\ HappensTo([what |-> "up", key |-> k, win |-> focus])
  /\ UNCHANGED <<pointer, focus>>

(* The person, or mouse_focus(): it raises the window the pointer is in    *)
(* while another one of the session has the focus.                         *)
FocusGained(w) ==
  /\ focus # w /\ pressed = {}
  /\ focus' = w
  /\ HappensTo([what |-> "focus", win |-> w])
  /\ UNCHANGED <<pointer, pressed, mods>>

FocusLost ==
  /\ focus # NoWindow /\ pressed = {}
  /\ focus' = NoWindow
  /\ UNCHANGED <<pointer, pressed, mods, queue, kbdEnabled, grabKeyboard, hotkeysEnabled,
                 barVars, server, byBar>>

PointerEnters(w) ==
  /\ pointer = NoWindow
  /\ pointer' = w
  /\ HappensTo([what |-> "enter", win |-> w])
  /\ UNCHANGED <<focus, pressed, mods>>

PointerLeaves ==
  /\ pointer # NoWindow
  /\ pointer' = NoWindow
  /\ HappensTo([what |-> "leave", win |-> pointer])
  /\ UNCHANGED <<focus, pressed, mods>>

ClickRow(row) ==
  /\ pointer # NoWindow
  /\ HappensTo([what |-> "row", row |-> row])
  /\ UNCHANGED person
--------------------------------------------------------------------------------
(* keyboard_grab() *)
KeyboardGrab(enable) == grabKeyboard' = (enable /\ kbdEnabled)

(* keyboard_sync_state() and keyboard_focus_in(): the server takes every   *)
(* key for released.                                                       *)
Sync == server' = {} /\ byBar' = FALSE

(* handleEvent(SDL_KeyboardEvent): a key without a scancode is sent, and   *)
(* the server makes nothing of it.                                         *)
Forward(e) ==
  server' = IF ~grabKeyboard \/ e.key \in Unmapped THEN server
            ELSE IF e.what = "down" THEN server \cup {e.key} ELSE server \ {e.key}

IsHotkey(e) ==
  hotkeysEnabled /\ mods /\ e.what = "down" /\ HotkeyOf(e.key) # "none"

Takes(what) == queue # <<>> /\ queue[1].what \in what /\ queue' = Tail(queue)

\* Mutant: the shortcut that switches capture does not sync first.
HandleKeyUnsynced ==
  /\ Takes({"down", "up"})
  /\ LET e == queue[1]
     IN  IF IsHotkey(e)
         THEN /\ IF HotkeyOf(e.key) = "grab" THEN KeyboardGrab(~grabKeyboard)
                 ELSE UNCHANGED grabKeyboard
              /\ UNCHANGED <<server, byBar>>
         ELSE Forward(e) /\ UNCHANGED <<grabKeyboard, byBar>>
  /\ UNCHANGED <<person, kbdEnabled, hotkeysEnabled, barVars>>

HandleKey ==
  /\ Takes({"down", "up"})
  /\ LET e == queue[1]
     IN  IF IsHotkey(e)
         THEN /\ Sync
              /\ IF HotkeyOf(e.key) = "grab" THEN KeyboardGrab(~grabKeyboard)
                 ELSE UNCHANGED grabKeyboard
         ELSE Forward(e) /\ UNCHANGED <<grabKeyboard, byBar>>
  /\ UNCHANGED <<person, kbdEnabled, hotkeysEnabled, barVars>>

HandleLeave ==
  /\ Takes({"leave"})
  /\ KeyboardGrab(FALSE)
  /\ UNCHANGED <<person, kbdEnabled, hotkeysEnabled, barVars, server, byBar>>

HandleEnter ==
  /\ Takes({"enter"})
  /\ KeyboardGrab(TRUE)
  /\ Sync
  /\ UNCHANGED <<person, kbdEnabled, hotkeysEnabled, barVars>>

HandleFocus ==
  /\ Takes({"focus"})
  /\ Sync
  /\ UNCHANGED <<person, kbdEnabled, grabKeyboard, hotkeysEnabled, barVars>>

(* BUTTON_CAPTURE_KEYBOARD and BUTTON_SHORTCUTS of the bar's menu *)
HandleRow ==
  /\ Takes({"row"})
  /\ IF queue[1].row = "capture"
     THEN /\ KeyboardGrab(~grabKeyboard)
          /\ captureLabel' = grabKeyboard'
          /\ byBar' = (byBar \/ grabKeyboard')
          /\ UNCHANGED <<hotkeysEnabled, shortcutsLabel>>
     ELSE /\ hotkeysEnabled' = ~hotkeysEnabled
          /\ shortcutsLabel' = hotkeysEnabled'
          /\ UNCHANGED <<grabKeyboard, captureLabel, byBar>>
  /\ UNCHANGED <<person, kbdEnabled, server>>

(* keyboard_set_indicators(), from the RDP thread: SDL's modifiers become  *)
(* the server's locks, and a held shift is no longer among them.           *)
SetIndicators ==
  /\ mods
  /\ mods' = FALSE
  /\ UNCHANGED <<pointer, focus, pressed, queue, kbdEnabled, grabKeyboard, hotkeysEnabled,
                 barVars, server, byBar>>

Next ==
  \/ \E k \in Keys : PressKey(k) \/ ReleaseKey(k)
  \/ \E w \in Windows : FocusGained(w) \/ PointerEnters(w)
  \/ FocusLost \/ PointerLeaves
  \/ \E row \in Rows : ClickRow(row)
  \/ HandleKey \/ HandleLeave \/ HandleEnter \/ HandleFocus \/ HandleRow
  \/ SetIndicators

Spec == Init /\ [][Next]_vars
--------------------------------------------------------------------------------
TypeOK ==
  /\ pointer \in Somewhere /\ focus \in Somewhere
  /\ pressed \subseteq Keys /\ server \subseteq Keys \ Unmapped
  /\ queue \in Seq(Events) /\ Len(queue) <= MaxQueue
  /\ mods \in BOOLEAN /\ kbdEnabled \in BOOLEAN /\ hotkeysEnabled \in BOOLEAN
  /\ captureLabel \in BOOLEAN /\ shortcutsLabel \in BOOLEAN /\ byBar \in BOOLEAN
  /\ grabKeyboard \in BOOLEAN

ReleasedSoon == {e.key : e \in {f \in ToSet(queue) : f.what = "up"}}

(* Keys held while capture goes off, by a shortcut or because the pointer  *)
(* leaves, are released unseen.  Wherever capture comes back other than    *)
(* through the bar, no such key is left down at the server.                *)
NoKeyLeftDown ==
  grabKeyboard /\ ~byBar => server \subseteq pressed \cup ReleasedSoon

(* "Off means genuinely no keyboard input reaches the session": while the  *)
(* bar's menu says that capture is off, the server hears of no new key.    *)
OffMeansOff == [][~captureLabel => server' \subseteq server]_vars
================================================================================
